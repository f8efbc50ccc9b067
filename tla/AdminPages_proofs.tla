--------------------------- MODULE AdminPages_proofs ---------------------------
(***************************************************************************)
(* Theorems about the operator application's pages, for any number of tabs, *)
(* enrolments and organizations: no address is redirected in a circle,      *)
(* recovery codes that are stored reach a screen unless somebody comes in   *)
(* between or the answer is lost, and who follows Next to the end of a      *)
(* search misses at most one row for each that has left it on the way.      *)
(*                                                                         *)
(* The second rests on what an answer with codes can count on.  Until its   *)
(* form is left or overtaken, the browser's session stays at aal2 and the   *)
(* operator keeps the access under which the form was served, so the page   *)
(* that is rendered with the answer leaves the form where it is.            *)
(*                                                                         *)
(* The third rests on where in the list an organization is that has not     *)
(* been shown: after the rows of the page that has been.  The ones that are *)
(* created, or renamed into the search, meanwhile never put it nearer to    *)
(* the front.  One that is renamed out of the search does, but only the     *)
(* first row of the next page moves to a page that has been shown, so that  *)
(* each costs the list one row at most (LeftFits).  That the list has it at *)
(* all is because a search's pattern, escaped, matches exactly the texts    *)
(* that have the search in them.                                            *)
(***************************************************************************)
EXTENDS AdminPages, FiniteSetTheorems, SequenceTheorems, WellFoundedInduction, TLAPS

\* A tab is a record, whatever its fields are.
IsTab(x) ==
    x \in [at : {x.at}, doc : {x.doc}, factor : {x.factor}, busy : {x.busy},
           list : {x.list}]

\* What a tab x shows of an enrolment, with the excuses ex, the operator's
\* access acc and the session s.
TabInv(x, ex, acc, s) ==
    /\ IsTab(x)
    /\ x.busy => x.doc = "enroll-form"
    /\ x.doc = "enroll-form" /\ x.factor \notin ex => acc
    /\ x.busy /\ x.factor \notin ex => s = "aal2"

AllTabs(w, ex, acc, s) ==
    /\ w = [t \in Tabs |-> w[t]]
    /\ \A t \in Tabs : TabInv(w[t], ex, acc, s)

IInv == AllTabs(tab, excused, access, session) /\ CodesWereSeen

-----------------------------------------------------------------------------
(* Redirects.                                                               *)

\* One address is where every redirect leads, and is not redirected itself.
LEMMA OneHop ==
    ASSUME NEW end, \A url : Page(url).to \in {"", end}, Page(end).to = ""
    PROVE  RedirectsEnd
<1>1. \A url : (Hop(url) = url /\ Page(url).to = "") \/ Hop(url) = end
  BY DEF Hop
<1>2. \A url : Page(Hop(url)).to = ""
  BY <1>1
<1> QED BY <1>2 DEF RedirectsEnd

LEMMA NoCircle == RedirectsEnd
<1> USE DEF Page, Redirect, Render, notFound, requireOperator, AdminIndex,
            OperatorsPage, OrganizationsPage, OrganizationDetailPage, LoginPage,
            EnrollPage, ChallengePage, AcceptPage
<1>1. CASE gateAdmin = "ok"
  <2>1. \A url : Page(url).to \in {"", "/"}
    BY <1>1
  <2>2. Page("/").to = ""
    BY <1>1
  <2> QED BY <2>1, <2>2, OneHop DEF Hop
<1>2. CASE gateAdmin = "enroll"
  <2>1. \A url : Page(url).to \in {"", "/enroll"}
    BY <1>2
  <2>2. Page("/enroll").to = ""
    BY <1>2
  <2> QED BY <2>1, <2>2, OneHop
<1>3. CASE gateAdmin = "challenge"
  <2>1. factor.verified # 0
    BY <1>3 DEF gateAdmin
  <2>2. \A url : Page(url).to \in {"", "/challenge", "/"}
    BY <1>3, <2>1
  <2>3. Page("/challenge").to = ""
    BY <1>3, <2>1
  <2>4. \A url : Page(url).to \in {"", "/challenge"}
    BY <1>3, <2>1
  <2> QED BY <2>3, <2>4, OneHop
<1>4. CASE gateAdmin \in {"no-session", "not-admin"}
  <2>1. \A url : Page(url).to = ""
    BY <1>4
  <2> QED BY <2>1, OneHop
<1>5. gateAdmin \in {"ok", "enroll", "challenge", "no-session", "not-admin"}
  BY DEF gateAdmin
<1> QED BY <1>1, <1>2, <1>3, <1>4, <1>5

-----------------------------------------------------------------------------
(* The parts of a step.                                                     *)

\* A form to enrol is served only to who has access.
LEMMA FormsNeedAccess ==
    ASSUME NEW url, Page(url).doc = "enroll-form"
    PROVE  access
BY DEF Page, Redirect, Render, notFound, requireOperator, AdminIndex, OperatorsPage,
       OrganizationsPage, OrganizationDetailPage, LoginPage, EnrollPage, ChallengePage,
       AcceptPage, gateAdmin

\* What is delivered is not an answer, and a form only if that was asked for.
LEMMA Delivered ==
    ASSUME IInv, NEW t \in Tabs, NEW page, NEW doc, Deliver(t, page, doc)
    PROVE  /\ tab' = [tab EXCEPT ![t] = tab'[t]]
           /\ IsTab(tab'[t]) /\ tab'[t].busy = FALSE
           /\ tab'[t].doc = "enroll-form" => doc = "enroll-form"
<1>1. \A x : tab' = [tab EXCEPT ![t] = x]
                => tab'[t] = x /\ tab' = [tab EXCEPT ![t] = tab'[t]]
  BY DEF IInv, AllTabs
<1>2. ASSUME NEW url, NEW d, NEW f, tab' = [tab EXCEPT ![t] = Tab(url, d, f)]
      PROVE  /\ tab' = [tab EXCEPT ![t] = tab'[t]]
             /\ IsTab(tab'[t]) /\ tab'[t].busy = FALSE /\ tab'[t].doc = d
  <2>1. tab'[t] = Tab(url, d, f) /\ tab' = [tab EXCEPT ![t] = tab'[t]]
    BY <1>1, <1>2
  <2>2. IsTab(Tab(url, d, f)) /\ Tab(url, d, f).busy = FALSE /\ Tab(url, d, f).doc = d
    BY DEF Tab, IsTab
  <2> QED BY <2>1, <2>2, Zenon
<1>3. CASE Load(t, page.to)
  <2>1. tab' = [tab EXCEPT ![t] = Tab(page.to, "loading", 0)]
    BY <1>3 DEF Load, Put
  <2>2. /\ tab' = [tab EXCEPT ![t] = tab'[t]]
        /\ IsTab(tab'[t]) /\ tab'[t].busy = FALSE /\ tab'[t].doc = "loading"
    BY <2>1, <1>2
  <2> QED BY <2>2
<1>4. CASE Put(t, Tab(tab[t].at, doc,
                      IF doc = "challenge-form" THEN factor.verified ELSE 0))
  BY <1>2, <1>4 DEF Put
<1>5. CASE Put(t, Tab(tab[t].at, doc, enrolled'))
  BY <1>2, <1>5 DEF Put
<1>6. CASE Put(t, Tab(tab[t].at, "404", 0))
  <2>1. tab' = [tab EXCEPT ![t] = Tab(tab[t].at, "404", 0)]
    BY <1>6 DEF Put
  <2>2. /\ tab' = [tab EXCEPT ![t] = tab'[t]]
        /\ IsTab(tab'[t]) /\ tab'[t].busy = FALSE /\ tab'[t].doc = "404"
    BY <2>1, <1>2
  <2> QED BY <2>2
<1> QED BY <1>3, <1>4, <1>5, <1>6 DEF Deliver

\* A step that changes one tab, and leaves the others what they count on.
LEMMA OneTab ==
    ASSUME IInv, NEW t \in Tabs, tab' = [tab EXCEPT ![t] = tab'[t]],
           TabInv(tab'[t], excused', access', session'),
           excused \subseteq excused', access => access',
           session = "aal2" => session' = "aal2"
    PROVE  AllTabs(tab, excused, access, session)'
<1>1. tab' = [u \in Tabs |-> tab'[u]]
  BY DEF IInv, AllTabs
<1>2. ASSUME NEW u \in Tabs PROVE TabInv(tab'[u], excused', access', session')
  <2>1. CASE u = t
    BY <2>1
  <2>2. CASE u # t
    <3>1. tab'[u] = tab[u]
      BY <2>2 DEF IInv, AllTabs
    <3>2. TabInv(tab[u], excused, access, session)
      BY DEF IInv, AllTabs
    <3> QED BY <3>1, <3>2 DEF TabInv
  <2> QED BY <2>1, <2>2
<1> QED BY <1>1, <1>2 DEF AllTabs

\* A step that changes no tab but may overtake some.
LEMMA NoTab ==
    ASSUME IInv, UNCHANGED tab, excused \subseteq excused',
           \A u \in Tabs : tab[u].doc = "enroll-form" /\ tab[u].factor \notin excused'
                               => (access => access'),
           \A u \in Tabs : tab[u].busy /\ tab[u].factor \notin excused'
                               => (session = "aal2" => session' = "aal2")
    PROVE  AllTabs(tab, excused, access, session)'
<1>1. ASSUME NEW u \in Tabs PROVE TabInv(tab'[u], excused', access', session')
  <2>1. TabInv(tab[u], excused, access, session) /\ tab'[u] = tab[u]
    BY DEF IInv, AllTabs
  <2> QED BY <2>1 DEF TabInv
<1> QED BY <1>1 DEF IInv, AllTabs

\* Codes that were accounted for stay so, unless an answer disappears.
LEMMA CodesStay ==
    ASSUME IInv, codes' = codes, seen \subseteq seen', excused \subseteq excused',
           lost \subseteq lost',
           \A t \in Tabs : tab[t].busy =>
                \/ tab'[t].busy /\ tab'[t].factor = tab[t].factor
                \/ tab[t].factor \in seen' \cup excused' \cup lost'
    PROVE  CodesWereSeen'
<1>1. CASE codes = 0
  BY <1>1 DEF CodesWereSeen
<1>2. CASE codes # 0 /\ codes \in seen \cup excused \cup lost
  BY <1>2 DEF CodesWereSeen
<1>3. CASE codes # 0 /\ \E t \in Tabs : tab[t].busy /\ tab[t].factor = codes
  BY <1>3 DEF CodesWereSeen
<1> QED BY <1>1, <1>2, <1>3 DEF IInv, CodesWereSeen

\* A tab that is no answer is put where it is no form either.
LEMMA Moves ==
    ASSUME IInv, NEW t \in Tabs, tab' = [tab EXCEPT ![t] = tab'[t]],
           IsTab(tab'[t]), tab'[t].busy = FALSE, tab'[t].doc = "enroll-form" => access,
           tab[t].busy => tab[t].factor \in seen' \cup excused',
           codes' = codes, seen \subseteq seen', excused \subseteq excused',
           lost' = lost, access => access', session = "aal2" => session' = "aal2"
    PROVE  IInv'
<1>1. TabInv(tab'[t], excused', access', session')
  BY DEF TabInv
<1>2. AllTabs(tab, excused, access, session)'
  BY <1>1, OneTab
<1>3. \A u \in Tabs : u # t => tab'[u] = tab[u]
  BY DEF IInv, AllTabs
<1>4. CodesWereSeen'
  BY <1>3, CodesStay
<1> QED BY <1>2, <1>4 DEF IInv

-----------------------------------------------------------------------------
(* The steps.                                                               *)

LEMMA InitIInv == Init => IInv
<1> SUFFICES ASSUME Init PROVE IInv
  OBVIOUS
<1>1. IsTab(Tab("/", "loading", 0)) /\ Tab("/", "loading", 0).busy = FALSE
      /\ Tab("/", "loading", 0).doc = "loading"
  BY DEF Tab, IsTab
<1>2. ASSUME NEW t \in Tabs PROVE TabInv(tab[t], excused, access, session)
  <2>1. tab[t] = Tab("/", "loading", 0)
    BY DEF Init
  <2>2. IsTab(tab[t]) /\ tab[t].busy = FALSE /\ tab[t].doc = "loading"
    BY <1>1, <2>1, Zenon
  <2> QED BY <2>2 DEF TabInv
<1>3. tab = [t \in Tabs |-> tab[t]]
  BY DEF Init
<1>4. CodesWereSeen
  BY DEF Init, CodesWereSeen
<1> QED BY <1>2, <1>3, <1>4 DEF IInv, AllTabs

LEMMA TabFacts ==
    ASSUME IInv, NEW t \in Tabs
    PROVE  /\ TabInv(tab[t], excused, access, session) /\ IsTab(tab[t])
           /\ tab[t].busy => tab[t].doc = "enroll-form"
BY DEF IInv, AllTabs, TabInv

LEMMA Loads ==
    ASSUME IInv, NEW t \in Tabs, NEW url, Load(t, url)
    PROVE  /\ tab' = [tab EXCEPT ![t] = tab'[t]]
           /\ IsTab(tab'[t]) /\ tab'[t].busy = FALSE /\ tab'[t].doc = "loading"
<1>1. tab' = [tab EXCEPT ![t] = Tab(url, "loading", 0)]
  BY DEF Load, Put
<1>2. tab'[t] = Tab(url, "loading", 0) /\ tab' = [tab EXCEPT ![t] = tab'[t]]
  BY <1>1 DEF IInv, AllTabs
<1>3. IsTab(Tab(url, "loading", 0)) /\ Tab(url, "loading", 0).busy = FALSE
      /\ Tab(url, "loading", 0).doc = "loading"
  BY DEF Tab, IsTab
<1> QED BY <1>2, <1>3, Zenon

\* What changing a field of a tab makes of it.
LEMMA Edits ==
    ASSUME NEW x, IsTab(x), NEW d, NEW l
    PROVE  /\ IsTab([x EXCEPT !.doc = d, !.list = l])
           /\ \A b \in BOOLEAN : /\ IsTab([x EXCEPT !.busy = b])
                                 /\ [x EXCEPT !.busy = b].busy = b
                                 /\ [x EXCEPT !.busy = b].doc = x.doc
                                 /\ [x EXCEPT !.busy = b].factor = x.factor
<1> SUFFICES ASSUME NEW b \in BOOLEAN
             PROVE  /\ IsTab([x EXCEPT !.doc = d, !.list = l])
                    /\ IsTab([x EXCEPT !.busy = b])
                    /\ [x EXCEPT !.busy = b].busy = b
                    /\ [x EXCEPT !.busy = b].doc = x.doc
                    /\ [x EXCEPT !.busy = b].factor = x.factor
  OBVIOUS
<1> DEFINE y == [x EXCEPT !.doc = d, !.list = l]
           z == [x EXCEPT !.busy = b]
<1>1. /\ y \in [at : {x.at}, doc : {d}, factor : {x.factor}, busy : {x.busy}, list : {l}]
      /\ y.at = x.at /\ y.doc = d /\ y.factor = x.factor /\ y.busy = x.busy /\ y.list = l
  BY DEF IsTab
<1>2. /\ z \in [at : {x.at}, doc : {x.doc}, factor : {x.factor}, busy : {b},
                list : {x.list}]
      /\ z.at = x.at /\ z.doc = x.doc /\ z.factor = x.factor /\ z.busy = b
      /\ z.list = x.list
  BY DEF IsTab
<1> HIDE DEF y, z
<1>3. IsTab(y) /\ IsTab(z)
  BY <1>1, <1>2 DEF IsTab
<1> QED BY <1>1, <1>2, <1>3 DEF y, z

\* Steps within a tab that is not at the form.
LEMMA Turns ==
    ASSUME IInv, NEW t \in Tabs, tab[t].doc # "enroll-form",
           NEW d, d # "enroll-form", NEW l,
           tab' = [tab EXCEPT ![t] = [tab[t] EXCEPT !.doc = d, !.list = l]],
           UNCHANGED <<access, session, codes, seen, excused, lost>>
    PROVE  IInv'
<1> DEFINE x == [tab[t] EXCEPT !.doc = d, !.list = l]
<1>1. IsTab(tab[t]) /\ ~ tab[t].busy
  BY TabFacts
<1>2. tab'[t] = x /\ tab' = [tab EXCEPT ![t] = tab'[t]]
  BY DEF IInv, AllTabs
<1>3. IsTab(x) /\ x.busy = tab[t].busy /\ x.doc = d
  <2>1. IsTab(x)
    BY <1>1, Edits
  <2>2. x.doc = d /\ x.busy = tab[t].busy
    BY <1>1 DEF IsTab
  <2> HIDE DEF x
  <2> QED BY <2>1, <2>2
<1> HIDE DEF x
<1>4. TabInv(tab'[t], excused', access', session')
  BY <1>1, <1>2, <1>3 DEF TabInv
<1>5. AllTabs(tab, excused, access, session)'
  BY <1>2, <1>4, OneTab
<1>6. \A u \in Tabs : u # t => tab'[u] = tab[u]
  BY DEF IInv, AllTabs
<1>7. CodesWereSeen'
  BY <1>1, <1>6, CodesStay
<1> QED BY <1>5, <1>7 DEF IInv

LEMMA Serves ==
    ASSUME IInv, NEW t \in Tabs, Serve(t)
    PROVE  IInv'
<1> DEFINE page == Page(tab[t].at)
<1>1. Deliver(t, page, page.doc)
  BY DEF Serve
<1>2. page.doc = "enroll-form" => access
  BY FormsNeedAccess
<1>3. /\ UNCHANGED <<access, session, codes, seen, excused, lost>>
      /\ tab[t].doc = "loading"
  BY DEF Serve, observed
<1>4. ~ tab[t].busy
  BY <1>3, TabFacts
<1> HIDE DEF page
<1>5. /\ tab' = [tab EXCEPT ![t] = tab'[t]]
      /\ IsTab(tab'[t]) /\ tab'[t].busy = FALSE
      /\ tab'[t].doc = "enroll-form" => page.doc = "enroll-form"
  BY <1>1, Delivered
<1> QED BY <1>2, <1>3, <1>4, <1>5, Moves

LEMMA Visits ==
    ASSUME IInv, NEW t \in Tabs, NEW url, Visit(t, url)
    PROVE  IInv'
<1>1. /\ tab' = [tab EXCEPT ![t] = tab'[t]]
      /\ IsTab(tab'[t]) /\ tab'[t].busy = FALSE /\ tab'[t].doc = "loading"
  BY Loads DEF Visit
<1>2. /\ UNCHANGED <<access, session, codes, seen, lost>> /\ excused \subseteq excused'
      /\ tab[t].busy => tab[t].factor \in excused'
  BY DEF Visit, Overtake, Answering, world
<1> QED BY <1>1, <1>2, Moves

LEMMA Lists ==
    ASSUME IInv, NEW t \in Tabs,
           \/ QueryRows(t) \/ QueryTotal(t)
           \/ \E search \in Searches : SearchInput(t, search)
           \/ NextLink(t) \/ PreviousLink(t)
    PROVE  IInv'
<1>1. UNCHANGED <<access, session, codes, seen, excused, lost>>
  BY DEF QueryRows, QueryTotal, SearchInput, NextLink, PreviousLink, TurnTo, world,
         observed
<1>2. tab[t].doc # "enroll-form"
  BY DEF QueryRows, QueryTotal, SearchInput, NextLink, PreviousLink, TurnTo
<1>3. ASSUME NEW search, NEW number, TurnTo(t, search, number) PROVE IInv'
  BY <1>1, <1>2, <1>3, Turns DEF TurnTo, Put
<1>4. CASE QueryRows(t)
  BY <1>1, <1>2, <1>4, Turns DEF QueryRows, Put
<1>5. CASE QueryTotal(t)
  BY <1>1, <1>2, <1>5, Turns DEF QueryTotal, Put
<1> QED BY <1>3, <1>4, <1>5 DEF SearchInput, NextLink, PreviousLink

\* A login, by which every answer that is due is overtaken.
LEMMA LogsIn ==
    ASSUME IInv, NEW t \in Tabs, LoginForm(t)
    PROVE  IInv'
<1>1. /\ tab' = [tab EXCEPT ![t] = tab'[t]]
      /\ IsTab(tab'[t]) /\ tab'[t].busy = FALSE /\ tab'[t].doc = "loading"
  BY Loads DEF LoginForm
<1>2. /\ UNCHANGED <<access, codes, seen, lost>> /\ excused \subseteq excused'
      /\ \A u \in Tabs : tab[u].busy => tab[u].factor \in excused'
  BY DEF LoginForm, Overtake, Answering
<1>3. tab' = [u \in Tabs |-> tab'[u]]
  BY DEF LoginForm, Load, Put, IInv, AllTabs
<1>4. ASSUME NEW u \in Tabs PROVE TabInv(tab'[u], excused', access', session')
  <2>1. CASE u = t
    BY <1>1, <2>1 DEF TabInv
  <2>2. CASE u # t
    <3>1. tab'[u] = tab[u]
      BY <1>1, <2>2 DEF IInv, AllTabs
    <3> QED BY <1>2, <3>1, TabFacts DEF TabInv
  <2> QED BY <2>1, <2>2
<1>5. CodesWereSeen'
  BY <1>2, CodesStay
<1> QED BY <1>3, <1>4, <1>5 DEF IInv, AllTabs

\* An invitation is accepted, or a challenge met: neither is at the form.
LEMMA Enters ==
    ASSUME IInv, NEW t \in Tabs, AcceptForm(t) \/ ChallengeForm(t)
    PROVE  IInv'
<1>1. /\ tab' = [tab EXCEPT ![t] = tab'[t]]
      /\ IsTab(tab'[t]) /\ tab'[t].busy = FALSE /\ tab'[t].doc = "loading"
  BY Loads DEF AcceptForm, ChallengeForm
<1>2. /\ UNCHANGED <<codes, seen, excused, lost>> /\ (access => access')
      /\ session = "aal2" => session' = "aal2"
  BY DEF AcceptForm, ChallengeForm, observed
<1>3. ~ tab[t].busy
  BY TabFacts DEF AcceptForm, ChallengeForm
<1> QED BY <1>1, <1>2, <1>3, Moves

\* The codes are stored, and the answer with them is due, or nothing is.
LEMMA Confirms ==
    ASSUME IInv, NEW t \in Tabs, confirmEnrollmentAction(t)
    PROVE  IInv'
<1>1. tab[t].doc = "enroll-form" /\ UNCHANGED <<access, seen, excused>>
  BY DEF confirmEnrollmentAction
<1>2. IsTab(tab[t]) /\ TabInv(tab[t], excused, access, session)
  BY TabFacts
<1>3. CASE /\ session' = "aal2" /\ codes' = tab[t].factor
           /\ Put(t, [tab[t] EXCEPT !.busy = TRUE])
  <2> DEFINE x == [tab[t] EXCEPT !.busy = TRUE]
  <2>1. IsTab(x) /\ x.busy = TRUE /\ x.doc = tab[t].doc /\ x.factor = tab[t].factor
    BY <1>2, Edits
  <2>2. tab'[t] = x /\ tab' = [tab EXCEPT ![t] = tab'[t]]
    BY <1>3 DEF Put, IInv, AllTabs
  <2> HIDE DEF x
  <2>3. TabInv(tab'[t], excused', access', session')
    BY <1>1, <1>2, <1>3, <2>1, <2>2 DEF TabInv
  <2>4. AllTabs(tab, excused, access, session)'
    BY <1>1, <1>3, <2>2, <2>3, OneTab
  <2>5. CodesWereSeen'
    BY <1>3, <2>1, <2>2 DEF CodesWereSeen
  <2> QED BY <2>4, <2>5 DEF IInv
<1>4. CASE session' \in {session, "aal2"} /\ UNCHANGED <<codes, tab, lost>>
  <2>1. AllTabs(tab, excused, access, session)'
    BY <1>1, <1>4, NoTab
  <2>2. CodesWereSeen'
    BY <1>1, <1>4, CodesStay
  <2> QED BY <2>1, <2>2 DEF IInv
<1> QED BY <1>3, <1>4 DEF confirmEnrollmentAction

\* An answer that is lost is on record as such.
LEMMA Loses ==
    ASSUME IInv, NEW t \in Tabs, LoseAnswer(t)
    PROVE  IInv'
<1> DEFINE x == [tab[t] EXCEPT !.busy = FALSE]
<1>1. /\ UNCHANGED <<access, codes, seen, excused>> /\ lost' = lost \cup {tab[t].factor}
      /\ tab' = [tab EXCEPT ![t] = x] /\ tab[t].busy
  BY DEF LoseAnswer, Put, Answering
<1>2. IsTab(tab[t]) /\ TabInv(tab[t], excused, access, session)
  BY TabFacts
<1>3. IsTab(x) /\ x.busy = FALSE /\ x.doc = tab[t].doc /\ x.factor = tab[t].factor
  BY <1>2, Edits
<1>4. tab'[t] = x /\ \A u \in Tabs : u # t => tab'[u] = tab[u]
  BY <1>1 DEF IInv, AllTabs
<1>5. tab' = [u \in Tabs |-> tab'[u]]
  BY <1>1 DEF IInv, AllTabs
<1> HIDE DEF x
<1>6. ASSUME NEW u \in Tabs PROVE TabInv(tab'[u], excused', access', session')
  <2>1. CASE u = t
    BY <1>1, <1>2, <1>3, <1>4, <2>1 DEF TabInv
  <2>2. CASE u # t
    <3>1. tab'[u] = tab[u] /\ TabInv(tab[u], excused, access, session)
      BY <1>4, <2>2, TabFacts
    <3>2. tab[u].busy => session' = session
      BY <2>2 DEF LoseAnswer, Answering
    <3> QED BY <1>1, <3>1, <3>2 DEF TabInv
  <2> QED BY <2>1, <2>2
<1>7. CodesWereSeen'
  BY <1>1, <1>4, CodesStay
<1> QED BY <1>5, <1>6, <1>7 DEF IInv, AllTabs

\* An answer that nobody has excused finds the gate open, and shows its codes.
LEMMA Answers ==
    ASSUME IInv, NEW t \in Tabs, EnrollForm(t)
    PROVE  IInv'
<1> DEFINE shows == EnrollPage.doc \in {"enrolled", "enroll-form"}
           doc == IF shows THEN "codes" ELSE EnrollPage.doc
<1>1. /\ tab[t].busy /\ Deliver(t, EnrollPage, doc)
      /\ seen' = IF tab'[t].doc = "codes" THEN seen \cup {tab[t].factor} ELSE seen
      /\ UNCHANGED <<access, session, codes, excused, lost>>
  BY DEF EnrollForm, Answering
<1>2. doc # "enroll-form"
  OBVIOUS
<1>3. /\ tab' = [tab EXCEPT ![t] = tab'[t]]
      /\ IsTab(tab'[t]) /\ tab'[t].busy = FALSE
      /\ tab'[t].doc # "enroll-form"
  <2> HIDE DEF doc
  <2> QED BY <1>1, <1>2, Delivered
<1>4. tab[t].factor \in seen' \cup excused'
  <2>1. CASE tab[t].factor \in excused
    BY <1>1, <2>1
  <2>2. CASE tab[t].factor \notin excused
    <3>1. session = "aal2" /\ access
      BY <1>1, <2>2, TabFacts DEF TabInv
    <3>2. EnrollPage.doc = "enrolled" /\ EnrollPage.to = ""
      BY <3>1 DEF EnrollPage, gateAdmin, Render
    <3>3. tab' = [tab EXCEPT ![t] = Tab(tab[t].at, "codes", 0)]
      BY <1>1, <3>2 DEF Deliver, Put
    <3>4. tab'[t] = Tab(tab[t].at, "codes", 0)
      BY <3>3 DEF IInv, AllTabs
    <3>5. tab'[t].doc = "codes"
      BY <3>4 DEF Tab
    <3> QED BY <1>1, <3>5
  <2> QED BY <2>1, <2>2
<1>5. seen \subseteq seen'
  BY <1>1
<1> QED BY <1>1, <1>3, <1>4, <1>5, Moves

\* The tables' buttons and the form to invite, on a page that is no form.
LEMMA Refuses ==
    ASSUME IInv, NEW t \in Tabs, Refuse(t), tab[t].doc # "enroll-form"
    PROVE  IInv'
<1>1. /\ Deliver(t, requireOperator("index"), "404")
      /\ UNCHANGED <<access, session, codes, seen, excused, lost>>
  BY DEF Refuse, observed
<1>2. /\ tab' = [tab EXCEPT ![t] = tab'[t]]
      /\ IsTab(tab'[t]) /\ tab'[t].busy = FALSE
      /\ tab'[t].doc # "enroll-form"
  <2>1. "404" # "enroll-form"
    OBVIOUS
  <2> QED BY <1>1, <2>1, Delivered
<1>3. ~ tab[t].busy
  BY TabFacts
<1> QED BY <1>1, <1>2, <1>3, Moves

LEMMA Buttons ==
    ASSUME IInv, NEW t \in Tabs,
           \/ OperatorsTable(t) \/ PendingInvitationsTable(t) \/ CompsPanel(t)
           \/ InviteOperatorForm(t)
    PROVE  IInv'
<1>1. tab[t].doc # "enroll-form"
  BY DEF OperatorsTable, PendingInvitationsTable, CompsPanel, InviteOperatorForm
<1>2. CASE Refuse(t)
  BY <1>1, <1>2, Refuses
<1>3. CASE Put(t, [tab[t] EXCEPT !.doc = "loading"]) /\ UNCHANGED <<world, observed>>
  <2>1. [tab[t] EXCEPT !.doc = "loading"]
            = [tab[t] EXCEPT !.doc = "loading", !.list = tab[t].list]
    <3>1. IsTab(tab[t])
      BY TabFacts
    <3> QED BY <3>1 DEF IsTab
  <2>2. UNCHANGED <<access, session, codes, seen, excused, lost>>
    BY <1>3 DEF world, observed
  <2> QED BY <1>1, <1>3, <2>1, <2>2, Turns DEF Put
<1> QED BY <1>2, <1>3 DEF OperatorsTable, PendingInvitationsTable, CompsPanel,
                         InviteOperatorForm, TableButton

\* What is done elsewhere overtakes the forms and answers it concerns.
LEMMA Elsewhere ==
    ASSUME IInv, \/ Revoked \/ Invited \/ MfaReset \/ SessionEnds
                 \/ \E text \in Texts : OrganizationCreated(text)
    PROVE  IInv'
<1> USE DEF Revoked, Invited, MfaReset, SessionEnds, OrganizationCreated
<1>1. UNCHANGED <<tab, seen, lost>> /\ excused \subseteq excused'
  BY DEF Overtake, observed
<1>2. \A u \in Tabs : tab[u].doc = "enroll-form" /\ tab[u].factor \notin excused'
                          => (access => access')
  BY DEF Overtake, observed
<1>3. \A u \in Tabs : tab[u].busy /\ tab[u].factor \notin excused'
                          => (session = "aal2" => session' = "aal2")
  BY DEF Overtake, Answering, observed
<1>4. AllTabs(tab, excused, access, session)'
  BY <1>1, <1>2, <1>3, NoTab
<1>5. CASE codes' = codes
  <2>1. CodesWereSeen'
    BY <1>1, <1>5, CodesStay
  <2> QED BY <1>4, <2>1 DEF IInv
<1>6. CASE codes' = 0
  BY <1>4, <1>6 DEF IInv, CodesWereSeen
<1> QED BY <1>5, <1>6

\* A change of name touches no form.
LEMMA Renames ==
    ASSUME IInv, NEW text \in Texts, NEW o \in DOMAIN organizations,
           OrganizationRenamed(o, text)
    PROVE  IInv'
<1>1. UNCHANGED <<access, session, codes, seen, excused, lost>>
  BY DEF OrganizationRenamed, observed
<1>2. tab' = [t \in Tabs |-> tab'[t]]
  BY DEF OrganizationRenamed
<1>3. ASSUME NEW t \in Tabs
      PROVE  /\ IsTab(tab'[t]) /\ tab'[t].doc = tab[t].doc
             /\ tab'[t].busy = tab[t].busy /\ tab'[t].factor = tab[t].factor
  <2> DEFINE x == tab[t]  l == WithoutLeft(x.list, o, text)
  <2>1. tab'[t] = [x EXCEPT !.list = l]
    BY DEF OrganizationRenamed
  <2>2. IsTab(x)
    BY TabFacts
  <2> HIDE DEF x, l
  <2>3. /\ [x EXCEPT !.list = l] \in [at : {x.at}, doc : {x.doc}, factor : {x.factor},
                                      busy : {x.busy}, list : {l}]
    BY <2>2 DEF IsTab
  <2>4. /\ IsTab([x EXCEPT !.list = l]) /\ [x EXCEPT !.list = l].doc = x.doc
        /\ [x EXCEPT !.list = l].busy = x.busy /\ [x EXCEPT !.list = l].factor = x.factor
    <3> DEFINE y == [x EXCEPT !.list = l]
    <3>1. y.at = x.at /\ y.doc = x.doc /\ y.factor = x.factor /\ y.busy = x.busy
          /\ y.list = l
      BY <2>2 DEF IsTab
    <3>2. y \in [at : {x.at}, doc : {x.doc}, factor : {x.factor}, busy : {x.busy},
                 list : {l}]
      BY <2>3
    <3> HIDE DEF y
    <3> QED BY <3>1, <3>2 DEF IsTab, y
  <2> QED BY <2>1, <2>4 DEF x
<1>4. ASSUME NEW t \in Tabs PROVE TabInv(tab'[t], excused', access', session')
  <2>1. TabInv(tab[t], excused, access, session)
    BY TabFacts
  <2> QED BY <1>1, <1>3, <2>1 DEF TabInv
<1>5. CodesWereSeen'
  BY <1>1, <1>3, CodesStay
<1> QED BY <1>2, <1>4, <1>5 DEF IInv, AllTabs

LEMMA NextIInv == IInv /\ [Next]_vars => IInv'
<1>1. CASE UNCHANGED vars
  BY <1>1 DEF vars, world, observed, IInv, AllTabs, CodesWereSeen
<1> QED BY <1>1, Serves, Visits, Lists, LogsIn, Enters, Confirms, Answers, Loses,
           Buttons, Elsewhere, Renames
        DEF Next

-----------------------------------------------------------------------------
(* Induction.  The induction theorems of the library take an operator, which *)
(* the provers cannot instantiate; a set they can.                           *)

LEMMA NatMin ==
    ASSUME NEW T \in SUBSET Nat, T # {}
    PROVE  \E x \in T : \A y \in T : x <= y
<1> DEFINE R == OpToRel(<, Nat)
<1>1. IsWellFoundedOn(R, Nat)
  BY NatLessThanWellFounded
<1>2. \A x, y \in Nat : ~(<<y, x>> \in R) => x <= y
  BY DEF OpToRel
<1> HIDE DEF R
<1>3. \E x \in T : \A y \in T : ~(<<y, x>> \in R)
  BY <1>1, WFMin
<1> QED BY <1>2, <1>3

LEMMA Induction ==
    ASSUME NEW B \in SUBSET Nat, 0 \in B, \A n \in B : n + 1 \in B
    PROVE  B = Nat
<1> SUFFICES ASSUME Nat \ B # {} PROVE FALSE
  OBVIOUS
<1>1. PICK n \in Nat \ B : \A m \in Nat \ B : n <= m
  BY NatMin
<1>2. n - 1 \in Nat /\ ~ (n <= n - 1) /\ (n - 1) + 1 = n
  BY <1>1
<1> QED BY <1>1, <1>2

\* A function may be defined from its value for the number before.
Stepping(N, D, F) == F \in [1 .. N -> [D -> D]]
Run(N, D, d, F, g) ==
    /\ g \in [0 .. N -> D] /\ g[0] = d
    /\ \A k \in 1 .. N : g[k] = F[k][g[k - 1]]

LEMMA Recursion ==
    ASSUME NEW N \in Nat, NEW D, NEW d \in D, NEW F, Stepping(N, D, F)
    PROVE  \E g : Run(N, D, d, F, g)
<1> USE DEF Stepping
<1> DEFINE Upto(n, g) == g[0] = d /\ \A k \in 1 .. n : g[k] = F[k][g[k - 1]]
           B == {n \in Nat : n <= N => \E g \in [0 .. n -> D] : Upto(n, g)}
<1>1. 0 \in B
  <2>1. [k \in 0 .. 0 |-> d] \in [0 .. 0 -> D] /\ Upto(0, [k \in 0 .. 0 |-> d])
    OBVIOUS
  <2> QED BY <2>1
<1>2. ASSUME NEW n \in B PROVE n + 1 \in B
  <2> SUFFICES ASSUME n + 1 <= N PROVE \E g \in [0 .. n + 1 -> D] : Upto(n + 1, g)
    OBVIOUS
  <2>1. PICK g \in [0 .. n -> D] : Upto(n, g)
    BY <1>2
  <2> DEFINE h == [k \in 0 .. n + 1 |-> IF k = n + 1 THEN F[n + 1][g[n]] ELSE g[k]]
  <2>2. n + 1 \in 1 .. N /\ n \in 0 .. n
    BY <1>2
  <2>3. h \in [0 .. n + 1 -> D]
    BY <2>2
  <2>4. ASSUME NEW k \in 1 .. n + 1 PROVE h[k] = F[k][h[k - 1]]
    <3>1. k - 1 \in 0 .. n /\ h[k - 1] = g[k - 1]
      BY <2>2
    <3>2. CASE k = n + 1
      BY <3>1, <3>2
    <3>3. CASE k # n + 1
      <4>1. k \in 1 .. n /\ h[k] = g[k]
        BY <2>2, <3>3
      <4> QED BY <2>1, <3>1, <4>1
    <3> QED BY <3>2, <3>3
  <2>5. h[0] = d
    BY <2>1, <2>2
  <2> QED BY <2>3, <2>4, <2>5
<1>3. B = Nat
  <2>1. B \in SUBSET Nat
    OBVIOUS
  <2> HIDE DEF B
  <2> QED BY <1>1, <1>2, <2>1, Induction
<1>4. N \in B
  BY <1>3
<1> QED BY <1>4 DEF Run

-----------------------------------------------------------------------------
(* The pattern of a search.                                                 *)

\* What texts are made of.
Chars == STRING \cup Wildcards

Escapes(s, g) ==
    /\ g \in [0 .. Len(s) -> Seq(Chars)] /\ g[0] = <<>>
    /\ \A k \in 1 .. Len(s) : g[k] = g[k - 1] \o Escape(s[k])

LEMMA CharsHas == "\\" \in Chars
BY DEF Chars, Wildcards

LEMMA EscapeIs ==
    ASSUME NEW char \in Chars
    PROVE  Escape(char) \in Seq(Chars)
<1>1. <<char>> \in Seq(Chars)
  OBVIOUS
<1>2. <<"\\", char>> \in Seq(Chars)
  BY CharsHas
<1> QED BY <1>1, <1>2 DEF Escape

\* escapeLike is what the escapes make of the whole search.
LEMMA EscapesExist ==
    ASSUME NEW s \in Seq(Chars)
    PROVE  \E g : Escapes(s, g) /\ escapeLike(s) = g[Len(s)]
<1> DEFINE Is(g) == g = [k \in 0 .. Len(s) |-> IF k = 0 THEN <<>>
                                               ELSE g[k - 1] \o Escape(s[k])]
           D == Seq(Chars)
           F == [k \in 1 .. Len(s) |-> [x \in D |-> x \o Escape(s[k])]]
<1>1. Len(s) \in Nat /\ \A k \in 1 .. Len(s) : s[k] \in Chars
  OBVIOUS
<1>2. F \in [1 .. Len(s) -> [D -> D]]
  <2>1. \A k \in 1 .. Len(s) : \A x \in D : x \o Escape(s[k]) \in D
    BY <1>1, EscapeIs, ConcatProperties
  <2> QED BY <2>1
<1>3. <<>> \in D
  OBVIOUS
<1>4. PICK g \in [0 .. Len(s) -> D] :
         g[0] = <<>> /\ \A k \in 1 .. Len(s) : g[k] = F[k][g[k - 1]]
  <2> DEFINE d == <<>>
  <2>1. d \in D /\ Stepping(Len(s), D, F)
    BY <1>2, <1>3 DEF Stepping
  <2>2. \E g : Run(Len(s), D, d, F, g)
    <3> HIDE DEF F, D, d
    <3> QED BY <1>1, <2>1, Recursion
  <2> QED BY <2>2 DEF Run
<1>5. Is(g)
  <2>1. \A k \in 0 .. Len(s) : g[k] = IF k = 0 THEN <<>> ELSE g[k - 1] \o Escape(s[k])
    <3> SUFFICES ASSUME NEW k \in 0 .. Len(s), k # 0 PROVE g[k] = g[k - 1] \o Escape(s[k])
      BY <1>4
    <3>1. k \in 1 .. Len(s) /\ k - 1 \in 0 .. Len(s) /\ g[k - 1] \in D
      BY <1>1
    <3>2. F[k][g[k - 1]] = g[k - 1] \o Escape(s[k])
      BY <3>1
    <3> QED BY <1>4, <3>1, <3>2
  <2> QED BY <2>1
<1> DEFINE h == CHOOSE f : Is(f)
<1>6. Is(h)
  BY <1>5
<1>7. escapeLike(s) = h[Len(s)]
  BY DEF escapeLike
<1> HIDE DEF h
<1>8. h[0] = <<>> /\ \A k \in 1 .. Len(s) : h[k] = h[k - 1] \o Escape(s[k])
  <2>1. \A k \in 0 .. Len(s) : h[k] = IF k = 0 THEN <<>> ELSE h[k - 1] \o Escape(s[k])
    BY <1>6
  <2>2. h[0] = <<>>
    BY <1>1, <2>1
  <2>3. ASSUME NEW k \in 1 .. Len(s) PROVE h[k] = h[k - 1] \o Escape(s[k])
    <3>1. k \in 0 .. Len(s) /\ k # 0
      BY <1>1
    <3> QED BY <2>1, <3>1
  <2> QED BY <2>2, <2>3
<1>9. \A k \in 0 .. Len(s) : h[k] \in D
  <2> DEFINE B == {n \in Nat : n <= Len(s) => h[n] \in D}
  <2>1. 0 \in B
    BY <1>8
  <2>2. ASSUME NEW n \in B PROVE n + 1 \in B
    <3> SUFFICES ASSUME n + 1 <= Len(s) PROVE h[n + 1] \in D
      OBVIOUS
    <3>1. h[n] \in D /\ n + 1 \in 1 .. Len(s) /\ (n + 1) - 1 = n
      BY <1>1, <2>2
    <3>2. h[n + 1] = h[n] \o Escape(s[n + 1]) /\ Escape(s[n + 1]) \in D
      BY <1>1, <1>8, <3>1, EscapeIs
    <3> QED BY <3>1, <3>2, ConcatProperties
  <2>3. B = Nat
    <3>1. B \in SUBSET Nat
      OBVIOUS
    <3> HIDE DEF B
    <3> QED BY <2>1, <2>2, <3>1, Induction
  <2> QED BY <1>1, <2>3
<1>10. h \in [0 .. Len(s) -> D]
  BY <1>6, <1>9
<1> QED BY <1>7, <1>8, <1>10 DEF Escapes

LEMMA Concat ==
    ASSUME NEW S, NEW x \in Seq(S), NEW y \in Seq(S)
    PROVE  /\ x \o y \in Seq(S) /\ Len(x) \in Nat /\ Len(y) \in Nat
           /\ Len(x \o y) = Len(x) + Len(y)
           /\ \A i \in 1 .. Len(x) : (x \o y)[i] = x[i]
           /\ \A j \in 1 .. Len(y) : (x \o y)[Len(x) + j] = y[j]
<1>1. /\ x \o y \in Seq(S) /\ Len(x \o y) = Len(x) + Len(y)
      /\ \A i \in 1 .. Len(x) + Len(y) : (x \o y)[i] = IF i <= Len(x) THEN x[i]
                                                       ELSE y[i - Len(x)]
  BY ConcatProperties
<1>2. Len(x) \in Nat /\ Len(y) \in Nat
  OBVIOUS
<1>3. ASSUME NEW i \in 1 .. Len(x) PROVE (x \o y)[i] = x[i]
  BY <1>1, <1>2
<1>4. ASSUME NEW j \in 1 .. Len(y) PROVE (x \o y)[Len(x) + j] = y[j]
  <2>1. /\ Len(x) + j \in 1 .. Len(x) + Len(y) /\ ~ (Len(x) + j <= Len(x))
        /\ (Len(x) + j) - Len(x) = j
    BY <1>2
  <2> QED BY <1>1, <2>1
<1> QED BY <1>1, <1>2, <1>3, <1>4

\* What is escaped first stays at the front.
StartsWith(z, x) == Len(x) <= Len(z) /\ \A j \in 1 .. Len(x) : z[j] = x[j]

LEMMA Fronts ==
    ASSUME NEW s \in Seq(Chars), NEW g, Escapes(s, g), NEW k \in 0 .. Len(s),
           NEW m \in k .. Len(s)
    PROVE  StartsWith(g[m], g[k])
<1> DEFINE B == {d \in Nat : k + d <= Len(s) => StartsWith(g[k + d], g[k])}
<1>1. Len(s) \in Nat
  OBVIOUS
<1>2. ASSUME NEW i \in 0 .. Len(s) PROVE g[i] \in Seq(Chars) /\ Len(g[i]) \in Nat
  <2>1. g[i] \in Seq(Chars)
    BY DEF Escapes
  <2> QED BY <2>1
<1>3. 0 \in B
  <2>1. k + 0 = k /\ Len(g[k]) \in Nat
    BY <1>2
  <2> QED BY <2>1 DEF StartsWith
<1>4. ASSUME NEW d \in B PROVE d + 1 \in B
  <2> SUFFICES ASSUME k + (d + 1) <= Len(s) PROVE StartsWith(g[k + (d + 1)], g[k])
    OBVIOUS
  <2> DEFINE at == k + d
  <2>1. /\ at \in 0 .. Len(s) /\ at + 1 \in 1 .. Len(s) /\ at + 1 = k + (d + 1)
        /\ (at + 1) - 1 = at /\ StartsWith(g[at], g[k])
    BY <1>1, <1>4
  <2> HIDE DEF at
  <2>2. g[at + 1] = g[at] \o Escape(s[at + 1])
    BY <2>1 DEF Escapes
  <2>3. Escape(s[at + 1]) \in Seq(Chars) /\ g[at] \in Seq(Chars) /\ Len(g[k]) \in Nat
    BY <1>2, <2>1, EscapeIs
  <2>4. StartsWith(g[at + 1], g[at])
    <3> DEFINE u == g[at]  v == Escape(s[at + 1])
    <3>1. u \in Seq(Chars) /\ v \in Seq(Chars) /\ g[at + 1] = u \o v
      BY <2>2, <2>3
    <3> HIDE DEF u, v
    <3>2. /\ Len(u) \in Nat /\ Len(v) \in Nat /\ Len(u \o v) = Len(u) + Len(v)
          /\ \A i \in 1 .. Len(u) : (u \o v)[i] = u[i]
      BY <3>1, Concat
    <3>3. StartsWith(u \o v, u)
      BY <3>2 DEF StartsWith
    <3> QED BY <3>1, <3>3 DEF u
  <2>5. Len(g[at]) \in Nat /\ Len(g[at + 1]) \in Nat
    BY <1>2, <2>1
  <2>6. StartsWith(g[at + 1], g[k])
    <3> DEFINE x == g[k]  y == g[at]  z == g[at + 1]
    <3>1. StartsWith(y, x) /\ StartsWith(z, y)
      BY <2>1, <2>4
    <3>2. Len(x) \in Nat /\ Len(y) \in Nat /\ Len(z) \in Nat
      BY <2>3, <2>5
    <3> HIDE DEF x, y, z
    <3>3. StartsWith(z, x)
      BY <3>1, <3>2 DEF StartsWith
    <3> QED BY <3>3 DEF x, z
  <2> QED BY <2>1, <2>6
<1>5. B = Nat
  <2>1. B \in SUBSET Nat
    OBVIOUS
  <2> HIDE DEF B
  <2> QED BY <1>3, <1>4, <2>1, Induction
<1>6. m - k \in Nat /\ k + (m - k) = m
  BY <1>1
<1>7. m - k \in B
  BY <1>5, <1>6
<1> QED BY <1>1, <1>6, <1>7

\* The pattern, from where the search's character k is in it.
PatternOf(e) == <<"%">> \o e \o <<"%">>

LEMMA PatternIs ==
    ASSUME NEW e \in Seq(Chars)
    PROVE  /\ PatternOf(e) \in Seq(Chars)
           /\ Len(PatternOf(e)) = Len(e) + 2 /\ Len(e) \in Nat
           /\ PatternOf(e)[1] = "%" /\ PatternOf(e)[Len(e) + 2] = "%"
           /\ \A j \in 1 .. Len(e) : PatternOf(e)[j + 1] = e[j]
<1> DEFINE one == <<"%">>  front == one \o e  all == front \o one
<1>1. one \in Seq(Chars) /\ Len(one) = 1 /\ one[1] = "%"
  <2>1. "%" \in Chars
    BY DEF Chars, Wildcards
  <2>2. \A char \in Chars : <<char>> \in Seq(Chars)
    OBVIOUS
  <2> QED BY <2>1, <2>2
<1>2. Len(e) \in Nat
  OBVIOUS
<1> HIDE DEF one
<1>3. /\ front \in Seq(Chars) /\ Len(front) = 1 + Len(e) /\ front[1] = one[1]
      /\ \A j \in 1 .. Len(e) : front[1 + j] = e[j]
  BY <1>1, <1>2, Concat
<1> HIDE DEF front
<1>4. /\ all \in Seq(Chars) /\ Len(all) = Len(front) + 1
      /\ \A i \in 1 .. Len(front) : all[i] = front[i]
      /\ all[Len(front) + 1] = one[1]
  <2>1. /\ front \o one \in Seq(Chars) /\ Len(front \o one) = Len(front) + Len(one)
        /\ \A i \in 1 .. Len(front) : (front \o one)[i] = front[i]
        /\ \A j \in 1 .. Len(one) : (front \o one)[Len(front) + j] = one[j]
    <3>1. front \in Seq(Chars) /\ one \in Seq(Chars)
      BY <1>1, <1>3
    <3> QED BY <3>1, Concat
  <2>2. 1 \in 1 .. Len(one)
    BY <1>1
  <2> QED BY <1>1, <2>1, <2>2
<1>5. PatternOf(e) = all
  BY DEF PatternOf, front, one
<1> HIDE DEF all
<1>6. Len(all) = Len(e) + 2 /\ all[1] = "%" /\ all[Len(e) + 2] = "%"
  BY <1>1, <1>2, <1>3, <1>4
<1>7. ASSUME NEW j \in 1 .. Len(e) PROVE all[j + 1] = e[j]
  <2>1. j + 1 = 1 + j /\ j + 1 \in 1 .. Len(front)
    BY <1>2, <1>3
  <2> QED BY <1>3, <1>4, <2>1
<1> QED BY <1>2, <1>4, <1>5, <1>6, <1>7

PatternAt(s, g, k) ==
    LET pattern == PatternOf(g[Len(s)])
        p == Len(g[k - 1]) + 2
        next == Len(g[k]) + 2
    IN /\ p \in 2 .. Len(pattern) - 1 /\ next \in 2 .. Len(pattern)
       /\ IF s[k] \in Wildcards
          THEN pattern[p] = "\\" /\ pattern[p + 1] = s[k] /\ next = p + 2
          ELSE pattern[p] = s[k] /\ next = p + 1

LEMMA Characters ==
    ASSUME NEW s \in Seq(Chars), NEW g, Escapes(s, g), NEW k \in 1 .. Len(s)
    PROVE  PatternAt(s, g, k)
<1> DEFINE n == Len(s)  e == g[n]  f == g[k - 1]  h == g[k]  x == Escape(s[k])
<1>1. n \in Nat /\ k - 1 \in 0 .. n /\ k \in 0 .. n /\ n \in k .. n /\ n \in 0 .. n
  OBVIOUS
<1>2. f \in Seq(Chars) /\ h \in Seq(Chars) /\ e \in Seq(Chars)
  <2>1. \A i \in 0 .. Len(s) : g[i] \in Seq(Chars)
    BY DEF Escapes
  <2> QED BY <1>1, <2>1
<1>3. s[k] \in Chars /\ h = f \o x
  <2>1. s[k] \in Chars
    OBVIOUS
  <2>2. g[k] = g[k - 1] \o Escape(s[k])
    BY DEF Escapes
  <2> QED BY <2>1, <2>2
<1>4. x \in Seq(Chars)
  BY <1>3, EscapeIs
<1>5. IF s[k] \in Wildcards THEN Len(x) = 2 /\ x[1] = "\\" /\ x[2] = s[k]
                            ELSE Len(x) = 1 /\ x[1] = s[k]
  BY DEF Escape
<1>6. StartsWith(e, h)
  BY <1>1, Fronts
<1> HIDE DEF x, f, h, e
<1>7. /\ Len(f) \in Nat /\ Len(x) \in Nat /\ Len(h) = Len(f) + Len(x)
      /\ \A j \in 1 .. Len(x) : h[Len(f) + j] = x[j]
  BY <1>2, <1>3, <1>4, Concat
<1>8. /\ Len(PatternOf(e)) = Len(e) + 2 /\ Len(e) \in Nat
      /\ \A j \in 1 .. Len(e) : PatternOf(e)[j + 1] = e[j]
  BY <1>2, PatternIs
<1> DEFINE Here(j) == PatternOf(e)[(Len(f) + j) + 1] = x[j]
<1>9. ASSUME NEW j \in 1 .. Len(x) PROVE Here(j)
  <2>1. Len(f) + j \in 1 .. Len(h) /\ Len(f) + j \in 1 .. Len(e)
    BY <1>6, <1>7, <1>8 DEF StartsWith
  <2>2. e[Len(f) + j] = x[j]
    BY <1>6, <1>7, <2>1 DEF StartsWith
  <2> QED BY <1>8, <2>1, <2>2
<1>10. Len(h) <= Len(e)
  BY <1>6 DEF StartsWith
<1>11. /\ Len(f) + 2 \in 2 .. Len(PatternOf(e)) - 1 /\ Len(h) + 2 \in 2 .. Len(PatternOf(e))
  BY <1>5, <1>7, <1>8, <1>10
<1>12. IF s[k] \in Wildcards
       THEN /\ PatternOf(e)[Len(f) + 2] = "\\" /\ PatternOf(e)[(Len(f) + 2) + 1] = s[k]
            /\ Len(h) + 2 = (Len(f) + 2) + 2
       ELSE PatternOf(e)[Len(f) + 2] = s[k] /\ Len(h) + 2 = (Len(f) + 2) + 1
  <2>1. CASE s[k] \in Wildcards
    <3>1. /\ Len(x) = 2 /\ x[1] = "\\" /\ x[2] = s[k]
          /\ 1 \in 1 .. Len(x) /\ 2 \in 1 .. Len(x)
      <4>1. Len(x) = 2 /\ x[1] = "\\" /\ x[2] = s[k]
        BY <1>5, <2>1
      <4> QED BY <4>1
    <3>2. Here(1) /\ Here(2)
      <4> HIDE DEF Here
      <4> QED BY <1>9, <3>1
    <3>3. (Len(f) + 1) + 1 = Len(f) + 2
      BY <1>7
    <3>4. (Len(f) + 2) + 1 = Len(f) + 3
      BY <1>7
    <3>5. Len(h) + 2 = (Len(f) + 2) + 2
      BY <1>7, <3>1
    <3> QED BY <2>1, <3>1, <3>2, <3>3, <3>5
  <2>2. CASE s[k] \notin Wildcards
    <3>1. Len(x) = 1 /\ x[1] = s[k] /\ 1 \in 1 .. Len(x)
      <4>1. Len(x) = 1 /\ x[1] = s[k]
        BY <1>5, <2>2
      <4> QED BY <4>1
    <3>2. Here(1)
      <4> HIDE DEF Here
      <4> QED BY <1>9, <3>1
    <3>3. (Len(f) + 1) + 1 = Len(f) + 2
      BY <1>7
    <3>5. Len(h) + 2 = (Len(f) + 2) + 1
      BY <1>7, <3>1
    <3> QED BY <2>2, <3>1, <3>2, <3>3, <3>5
  <2> QED BY <2>1, <2>2
<1> QED BY <1>11, <1>12 DEF PatternAt, e, f, h

-----------------------------------------------------------------------------
(* Matching it.                                                             *)

\* What ILike's Like is at p, from what it is at p + 1 and p + 2.
Match(text, pattern, p, next, after) ==
    IF p > Len(pattern) THEN {Len(text) + 1}
    ELSE IF pattern[p] = "%"
    THEN {i \in 1 .. Len(text) + 1 : \E j \in next : i <= j}
    ELSE IF pattern[p] = "\\"
    THEN {i \in 1 .. Len(text) : /\ p < Len(pattern) /\ pattern[p + 1] = text[i]
                                 /\ i + 1 \in after}
    ELSE {i \in 1 .. Len(text) : /\ pattern[p] \in {"_", text[i]}
                                 /\ i + 1 \in next}

Matches(text, pattern, g) ==
    \A p \in 1 .. Len(pattern) + 2 : g[p] = Match(text, pattern, p, g[p + 1], g[p + 2])

LEMMA MatchesExist ==
    ASSUME NEW text \in Seq(Chars), NEW pattern \in Seq(Chars)
    PROVE  \E g : Matches(text, pattern, g) /\ (ILike(text, pattern) <=> 1 \in g[1])
<1> DEFINE n == Len(pattern) + 2
           P == SUBSET (1 .. Len(text) + 1)
           D == P \X P
           d == <<{}, {}>>
           F == [r \in 1 .. n |-> [x \in D |->
                    <<Match(text, pattern, n + 1 - r, x[1], x[2]), x[1]>>]]
           Is(g) == g = [p \in 1 .. Len(pattern) + 2 |->
                            IF p > Len(pattern) THEN {Len(text) + 1}
                            ELSE IF pattern[p] = "%"
                            THEN {i \in 1 .. Len(text) + 1 : \E j \in g[p + 1] : i <= j}
                            ELSE IF pattern[p] = "\\"
                            THEN {i \in 1 .. Len(text) :
                                     /\ p < Len(pattern) /\ pattern[p + 1] = text[i]
                                     /\ i + 1 \in g[p + 2]}
                            ELSE {i \in 1 .. Len(text) :
                                     /\ pattern[p] \in {"_", text[i]}
                                     /\ i + 1 \in g[p + 1]}]
<1>1. Len(text) \in Nat /\ Len(pattern) \in Nat /\ n \in Nat
  OBVIOUS
<1>2. ASSUME NEW p \in 1 .. n, NEW next \in P, NEW after \in P
      PROVE  Match(text, pattern, p, next, after) \in P
  <2> SUFFICES ASSUME NEW i \in Match(text, pattern, p, next, after)
               PROVE  i \in 1 .. Len(text) + 1
    OBVIOUS
  <2>1. CASE p > Len(pattern)
    BY <1>1, <2>1 DEF Match
  <2>2. CASE p <= Len(pattern)
    <3>1. ~ (p > Len(pattern))
      BY <1>1, <2>2
    <3>2. CASE pattern[p] = "%"
      BY <3>1, <3>2 DEF Match
    <3>3. CASE pattern[p] # "%" /\ pattern[p] = "\\"
      <4>1. i \in 1 .. Len(text)
        BY <3>1, <3>3 DEF Match
      <4> QED BY <1>1, <4>1
    <3>4. CASE pattern[p] # "%" /\ pattern[p] # "\\"
      <4>1. i \in 1 .. Len(text)
        BY <3>1, <3>4 DEF Match
      <4> QED BY <1>1, <4>1
    <3> QED BY <3>2, <3>3, <3>4
  <2> QED BY <1>1, <2>1, <2>2
<1>3. Stepping(n, D, F)
  <2>1. ASSUME NEW r \in 1 .. n, NEW x \in D
        PROVE  <<Match(text, pattern, n + 1 - r, x[1], x[2]), x[1]>> \in D
    <3>1. n + 1 - r \in 1 .. n
      BY <1>1
    <3>2. x[1] \in P /\ x[2] \in P
      OBVIOUS
    <3>3. Match(text, pattern, n + 1 - r, x[1], x[2]) \in P
      BY <1>2, <3>1, <3>2
    <3> HIDE DEF P
    <3> QED BY <3>2, <3>3
  <2> HIDE DEF D
  <2> QED BY <2>1 DEF Stepping
<1>4. PICK f : Run(n, D, d, F, f)
  <2>1. d \in D
    OBVIOUS
  <2> HIDE DEF n, D, d, F
  <2> QED BY <1>1, <1>3, <2>1, Recursion
<1>5. /\ f \in [0 .. n -> D]
      /\ \A t \in 1 .. n : f[t] = <<Match(text, pattern, n + 1 - t, f[t - 1][1], f[t - 1][2]),
                                    f[t - 1][1]>>
  <2>1. f \in [0 .. n -> D] /\ \A t \in 1 .. n : f[t] = F[t][f[t - 1]]
    BY <1>4 DEF Run
  <2>2. ASSUME NEW t \in 1 .. n
        PROVE  f[t] = <<Match(text, pattern, n + 1 - t, f[t - 1][1], f[t - 1][2]),
                        f[t - 1][1]>>
    <3>1. t - 1 \in 0 .. n /\ f[t - 1] \in D
      <4>1. t - 1 \in 0 .. n
        BY <1>1
      <4> HIDE DEF D, n
      <4> QED BY <2>1, <4>1
    <3> HIDE DEF D
    <3> QED BY <2>1, <3>1
  <2> QED BY <2>1, <2>2
<1> DEFINE w == [p \in 1 .. n |-> f[n + 1 - p][1]]
<1>6. ASSUME NEW p \in 1 .. n
      PROVE  w[p] = Match(text, pattern, p, w[p + 1], w[p + 2])
  <2> DEFINE t == n + 1 - p
  <2>1. t \in 1 .. n /\ n + 1 - t = p
    BY <1>1
  <2>2. w[p] = Match(text, pattern, p, f[t - 1][1], f[t - 1][2])
    <3>1. w[p] = f[t][1]
      OBVIOUS
    <3>2. f[t] = <<Match(text, pattern, n + 1 - t, f[t - 1][1], f[t - 1][2]), f[t - 1][1]>>
      BY <1>5, <2>1
    <3> HIDE DEF t, n, w
    <3> QED BY <2>1, <3>1, <3>2
  <2>3. CASE p > Len(pattern)
    BY <2>2, <2>3 DEF Match
  <2>4. CASE p <= Len(pattern)
    <3>1. p + 1 \in 1 .. n /\ p + 2 \in 1 .. n /\ t - 1 \in 1 .. n
      BY <1>1, <2>4
    <3>2. n + 1 - (p + 1) = t - 1 /\ n + 1 - (p + 2) = (t - 1) - 1
      BY <1>1
    <3>3. f[t - 1][1] = w[p + 1]
      BY <3>1, <3>2
    <3>4. f[t - 1][2] = f[(t - 1) - 1][1]
      <4> HIDE DEF t, n
      <4> QED BY <1>5, <3>1
    <3>5. w[p + 2] = f[(t - 1) - 1][1]
      BY <3>1, <3>2
    <3> HIDE DEF t, n, w
    <3> QED BY <2>2, <3>3, <3>4, <3>5
  <2> QED BY <1>1, <2>3, <2>4
<1>7. Is(w)
  <2>1. \A p \in 1 .. n : w[p] = Match(text, pattern, p, w[p + 1], w[p + 2])
    BY <1>6
  <2>2. w = [p \in 1 .. n |-> w[p]]
    OBVIOUS
  <2> HIDE DEF w
  <2>3. w = [p \in 1 .. n |-> Match(text, pattern, p, w[p + 1], w[p + 2])]
    BY <2>1, <2>2
  <2> QED BY <2>3 DEF Match
<1> DEFINE h == CHOOSE g : Is(g)
<1>8. Is(h)
  BY <1>7
<1>9. ILike(text, pattern) <=> 1 \in h[1]
  BY DEF ILike
<1> HIDE DEF h
<1>10. Matches(text, pattern, h)
  BY <1>8 DEF Matches, Match
<1> QED BY <1>9, <1>10

\* Where the text has the search's characters from the kth one on.
Rest(text, s, k) ==
    {i \in 1 .. Len(text) + 1 :
        /\ i + (Len(s) + 1 - k) <= Len(text) + 1
        /\ \A j \in k .. Len(s) : text[i + j - k] = s[j]}

\* What is left to match once the search's characters before k are.
From(s, g, w, k) == w[Len(g[k - 1]) + 2]

LEMMA RestStep ==
    ASSUME NEW text \in Seq(Chars), NEW s \in Seq(Chars), NEW k \in 1 .. Len(s)
    PROVE  Rest(text, s, k) = {i \in 1 .. Len(text) : /\ s[k] = text[i]
                                                      /\ i + 1 \in Rest(text, s, k + 1)}
<1>1. Len(text) \in Nat /\ Len(s) \in Nat
  OBVIOUS
<1>2. ASSUME NEW i \in Rest(text, s, k)
      PROVE  i \in 1 .. Len(text) /\ s[k] = text[i] /\ i + 1 \in Rest(text, s, k + 1)
  <2>1. /\ i \in 1 .. Len(text) + 1 /\ i + (Len(s) + 1 - k) <= Len(text) + 1
        /\ \A j \in k .. Len(s) : text[i + j - k] = s[j]
    BY <1>2 DEF Rest
  <2>2. i \in 1 .. Len(text) /\ k \in k .. Len(s) /\ i + k - k = i
    BY <1>1, <2>1
  <2>3. s[k] = text[i]
    BY <2>1, <2>2
  <2>4. ASSUME NEW j \in k + 1 .. Len(s) PROVE text[(i + 1) + j - (k + 1)] = s[j]
    <3>1. j \in k .. Len(s) /\ (i + 1) + j - (k + 1) = i + j - k
      BY <1>1, <2>2
    <3> QED BY <2>1, <3>1
  <2>5. i + 1 \in 1 .. Len(text) + 1 /\ (i + 1) + (Len(s) + 1 - (k + 1)) <= Len(text) + 1
    BY <1>1, <2>1, <2>2
  <2> QED BY <2>2, <2>3, <2>4, <2>5 DEF Rest
<1>3. ASSUME NEW i \in 1 .. Len(text), s[k] = text[i], i + 1 \in Rest(text, s, k + 1)
      PROVE  i \in Rest(text, s, k)
  <2>1. /\ (i + 1) + (Len(s) + 1 - (k + 1)) <= Len(text) + 1
        /\ \A j \in k + 1 .. Len(s) : text[(i + 1) + j - (k + 1)] = s[j]
    BY <1>3 DEF Rest
  <2>2. ASSUME NEW j \in k .. Len(s) PROVE text[i + j - k] = s[j]
    <3>1. CASE j = k
      <4>1. i + j - k = i
        BY <1>1, <3>1
      <4> QED BY <1>3, <3>1, <4>1
    <3>2. CASE j # k
      <4>1. j \in k + 1 .. Len(s) /\ (i + 1) + j - (k + 1) = i + j - k
        BY <1>1, <3>2
      <4> QED BY <2>1, <4>1
    <3> QED BY <3>1, <3>2
  <2>3. i \in 1 .. Len(text) + 1 /\ i + (Len(s) + 1 - k) <= Len(text) + 1
    BY <1>1, <2>1
  <2> QED BY <2>2, <2>3 DEF Rest
<1> QED BY <1>2, <1>3

LEMMA FromStep ==
    ASSUME NEW text \in Seq(Chars), NEW s \in Seq(Chars), NEW g, Escapes(s, g),
           NEW w, Matches(text, PatternOf(g[Len(s)]), w), NEW k \in 1 .. Len(s)
    PROVE  From(s, g, w, k) = {i \in 1 .. Len(text) : /\ s[k] = text[i]
                                                      /\ i + 1 \in From(s, g, w, k + 1)}
<1> DEFINE pattern == PatternOf(g[Len(s)])  p == Len(g[k - 1]) + 2  next == Len(g[k]) + 2
<1>1. /\ p \in 2 .. Len(pattern) - 1 /\ next \in 2 .. Len(pattern)
      /\ IF s[k] \in Wildcards
         THEN pattern[p] = "\\" /\ pattern[p + 1] = s[k] /\ next = p + 2
         ELSE pattern[p] = s[k] /\ next = p + 1
  BY Characters DEF PatternAt
<1>2. From(s, g, w, k) = w[p] /\ From(s, g, w, k + 1) = w[next]
  <2>1. (k + 1) - 1 = k
    OBVIOUS
  <2> QED BY <2>1 DEF From
<1>3. Len(pattern) \in Nat
  <2>1. g[Len(s)] \in Seq(Chars)
    <3>1. Len(s) \in 0 .. Len(s)
      OBVIOUS
    <3> QED BY <3>1 DEF Escapes
  <2> QED BY <2>1, PatternIs
<1> HIDE DEF pattern, p, next
<1>4. p \in 1 .. Len(pattern) + 2 /\ ~ (p > Len(pattern)) /\ p < Len(pattern)
  BY <1>1, <1>3
<1>5. w[p] = Match(text, pattern, p, w[p + 1], w[p + 2])
  BY <1>4 DEF Matches, pattern
<1>6. CASE s[k] \in Wildcards
  <2>1. pattern[p] = "\\" /\ pattern[p + 1] = s[k] /\ next = p + 2
    BY <1>1, <1>6
  <2>2. pattern[p] # "%"
    BY <2>1
  <2>3. w[p] = {i \in 1 .. Len(text) : /\ p < Len(pattern) /\ pattern[p + 1] = text[i]
                                       /\ i + 1 \in w[p + 2]}
    BY <1>4, <1>5, <2>1, <2>2 DEF Match
  <2> QED BY <1>2, <1>4, <2>1, <2>3
<1>7. CASE s[k] \notin Wildcards
  <2>1. pattern[p] = s[k] /\ next = p + 1
    BY <1>1, <1>7
  <2>2. pattern[p] # "%" /\ pattern[p] # "\\" /\ s[k] # "_"
    BY <1>7, <2>1 DEF Wildcards
  <2>3. w[p] = {i \in 1 .. Len(text) : pattern[p] \in {"_", text[i]} /\ i + 1 \in w[p + 1]}
    BY <1>4, <1>5, <2>2 DEF Match
  <2> QED BY <1>2, <2>1, <2>2, <2>3
<1> QED BY <1>6, <1>7

LEMMA FromIsRest ==
    ASSUME NEW text \in Seq(Chars), NEW s \in Seq(Chars), NEW g, Escapes(s, g),
           NEW w, Matches(text, PatternOf(g[Len(s)]), w)
    PROVE  \A k \in 1 .. Len(s) + 1 : From(s, g, w, k) = Rest(text, s, k)
<1> DEFINE n == Len(s)
           Same(k) == From(s, g, w, k) = Rest(text, s, k)
           B == {d \in Nat : d <= n => Same(n + 1 - d)}
<1>1. n \in Nat /\ Len(text) \in Nat
  OBVIOUS
<1>2. 0 \in B
  <2> DEFINE pattern == PatternOf(g[n])  m == Len(pattern)
  <2>1. m = Len(g[n]) + 2 /\ Len(g[n]) \in Nat /\ pattern[Len(g[n]) + 2] = "%"
    <3>1. g[n] \in Seq(Chars)
      <4>1. n \in 0 .. n
        BY <1>1
      <4> QED BY <4>1 DEF Escapes
    <3> QED BY <3>1, PatternIs
  <2> HIDE DEF pattern, m
  <2>2. m \in 1 .. m + 2 /\ m + 1 \in 1 .. m + 2 /\ m + 1 > m /\ ~ (m > m) /\ pattern[m] = "%"
    BY <2>1
  <2>3. /\ w[m] = Match(text, pattern, m, w[m + 1], w[m + 2])
        /\ w[m + 1] = Match(text, pattern, m + 1, w[(m + 1) + 1], w[(m + 1) + 2])
    <3> USE DEF m
    <3>1. \A p \in 1 .. m + 2 : w[p] = Match(text, pattern, p, w[p + 1], w[p + 2])
      BY DEF Matches, pattern
    <3> HIDE DEF m
    <3> QED BY <2>2, <3>1
  <2>4. w[m + 1] = {Len(text) + 1}
    BY <2>2, <2>3 DEF Match, m
  <2>5. w[m] = {i \in 1 .. Len(text) + 1 : \E j \in w[m + 1] : i <= j}
    BY <2>2, <2>3 DEF Match, m
  <2>6. w[m] = 1 .. Len(text) + 1
    BY <1>1, <2>4, <2>5
  <2>7. From(s, g, w, n + 1) = w[m]
    <3>1. (n + 1) - 1 = n
      BY <1>1
    <3> QED BY <2>1, <3>1 DEF From
  <2>8. Rest(text, s, n + 1) = 1 .. Len(text) + 1
    BY <1>1 DEF Rest
  <2>9. n + 1 - 0 = n + 1
    BY <1>1
  <2> QED BY <2>6, <2>7, <2>8, <2>9
<1>3. ASSUME NEW d \in B PROVE d + 1 \in B
  <2> SUFFICES ASSUME d + 1 <= n PROVE Same(n + 1 - (d + 1))
    OBVIOUS
  <2> DEFINE k == n + 1 - (d + 1)
  <2>1. k \in 1 .. Len(s) /\ k + 1 = n + 1 - d /\ Same(k + 1)
    BY <1>1, <1>3
  <2> HIDE DEF k
  <2>2. Same(k)
    <3>1. Rest(text, s, k) = {i \in 1 .. Len(text) : /\ s[k] = text[i]
                                                     /\ i + 1 \in Rest(text, s, k + 1)}
      BY <2>1, RestStep
    <3>2. From(s, g, w, k) = {i \in 1 .. Len(text) : /\ s[k] = text[i]
                                                     /\ i + 1 \in From(s, g, w, k + 1)}
      BY <2>1, FromStep
    <3> QED BY <2>1, <3>1, <3>2
  <2> QED BY <2>2 DEF k
<1>4. B = Nat
  <2>1. B \in SUBSET Nat
    OBVIOUS
  <2> HIDE DEF B
  <2> QED BY <1>2, <1>3, <2>1, Induction
<1>5. ASSUME NEW k \in 1 .. n + 1 PROVE Same(k)
  <2>1. n + 1 - k \in Nat /\ n + 1 - k <= n /\ n + 1 - (n + 1 - k) = k
    BY <1>1
  <2>2. n + 1 - k \in B
    BY <1>4, <2>1
  <2> HIDE DEF Same
  <2> QED BY <2>1, <2>2
<1> QED BY <1>5

LEMMA PartsAre ==
    ASSUME NEW text \in Seq(Chars), NEW s \in Seq(Chars)
    PROVE  HasPart(text, s) <=> Rest(text, s, 1) # {}
<1>1. Len(text) \in Nat /\ Len(s) \in Nat
  OBVIOUS
<1>2. ASSUME NEW i \in 0 .. Len(text) - Len(s)
      PROVE  /\ SubSeq(text, i + 1, i + Len(s)) \in Seq(Chars)
             /\ Len(SubSeq(text, i + 1, i + Len(s))) = Len(s)
             /\ \A j \in 1 .. Len(s) : SubSeq(text, i + 1, i + Len(s))[j] = text[(i + 1) + j - 1]
  <2> DEFINE from == i + 1  to == i + Len(s)
  <2>1. from \in Int /\ to \in Int /\ to - from + 1 = Len(s) /\ (~ (from <= to) => Len(s) = 0)
    BY <1>1
  <2>2. \A m \in from .. to : text[m] \in Chars
    BY <1>1
  <2> HIDE DEF from, to
  <2>3. /\ SubSeq(text, from, to) \in Seq(Chars)
        /\ Len(SubSeq(text, from, to)) = IF from <= to THEN to - from + 1 ELSE 0
        /\ \A j \in 1 .. to - from + 1 : SubSeq(text, from, to)[j] = text[from + j - 1]
    BY <2>1, <2>2, SubSeqProperties
  <2>4. /\ SubSeq(text, from, to) \in Seq(Chars)
        /\ Len(SubSeq(text, from, to)) = Len(s)
        /\ \A j \in 1 .. Len(s) : SubSeq(text, from, to)[j] = text[from + j - 1]
    BY <2>1, <2>3
  <2> QED BY <2>4 DEF from, to
<1>3. ASSUME HasPart(text, s) PROVE Rest(text, s, 1) # {}
  <2>1. PICK i \in 0 .. Len(text) - Len(s) : SubSeq(text, i + 1, i + Len(s)) = s
    BY <1>3 DEF HasPart
  <2>2. \A j \in 1 .. Len(s) : text[(i + 1) + j - 1] = s[j]
    BY <1>2, <2>1
  <2>3. i + 1 \in 1 .. Len(text) + 1 /\ (i + 1) + (Len(s) + 1 - 1) <= Len(text) + 1
    BY <1>1
  <2>4. i + 1 \in Rest(text, s, 1)
    BY <2>2, <2>3 DEF Rest
  <2> QED BY <2>4
<1>4. ASSUME Rest(text, s, 1) # {} PROVE HasPart(text, s)
  <2>1. PICK h \in Rest(text, s, 1) : TRUE
    BY <1>4
  <2>2. /\ h \in 1 .. Len(text) + 1 /\ h + (Len(s) + 1 - 1) <= Len(text) + 1
        /\ \A j \in 1 .. Len(s) : text[h + j - 1] = s[j]
    BY DEF Rest
  <2> DEFINE i == h - 1
  <2>3. i \in 0 .. Len(text) - Len(s) /\ i + 1 = h
    BY <1>1, <2>2
  <2> DEFINE part == SubSeq(text, i + 1, i + Len(s))
  <2>4. /\ part \in Seq(Chars) /\ Len(part) = Len(s)
        /\ \A j \in 1 .. Len(s) : part[j] = text[(i + 1) + j - 1]
    <3> HIDE DEF i
    <3> QED BY <1>2, <2>3
  <2>5. \A j \in 1 .. Len(s) : part[j] = s[j]
    <3> HIDE DEF i, part
    <3> QED BY <2>2, <2>3, <2>4
  <2>6. part = s
    <3> HIDE DEF i, part
    <3> QED BY <2>4, <2>5, SeqEqual
  <2> QED BY <2>3, <2>6 DEF HasPart
<1> QED BY <1>3, <1>4

\* A search's pattern finds what has the search in it, letter by letter.
LEMMA LikeIsPart ==
    ASSUME NEW text \in Seq(Chars), NEW s \in Seq(Chars)
    PROVE  ILike(text, PatternOf(escapeLike(s))) <=> HasPart(text, s)
<1>1. PICK g : Escapes(s, g) /\ escapeLike(s) = g[Len(s)]
  BY EscapesExist
<1> DEFINE e == g[Len(s)]  pattern == PatternOf(e)
<1>2. e \in Seq(Chars) /\ g[0] = <<>> /\ Len(s) \in Nat
  <2>1. Len(s) \in 0 .. Len(s)
    OBVIOUS
  <2> QED BY <1>1, <2>1 DEF Escapes
<1>3. pattern \in Seq(Chars) /\ Len(pattern) \in Nat /\ Len(pattern) >= 2 /\ pattern[1] = "%"
  <2> HIDE DEF e
  <2>1. /\ PatternOf(e) \in Seq(Chars) /\ Len(PatternOf(e)) = Len(e) + 2
        /\ Len(e) \in Nat /\ PatternOf(e)[1] = "%"
    BY <1>2, PatternIs
  <2> QED BY <2>1
<1>4. PICK w : Matches(text, pattern, w) /\ (ILike(text, pattern) <=> 1 \in w[1])
  <2> HIDE DEF pattern
  <2> QED BY <1>3, MatchesExist
<1>5. From(s, g, w, 1) = Rest(text, s, 1)
  <2>1. 1 \in 1 .. Len(s) + 1
    BY <1>2
  <2> QED BY <1>1, <1>4, <2>1, FromIsRest
<1>6. From(s, g, w, 1) = w[2]
  BY <1>2 DEF From
<1>7. w[1] = {i \in 1 .. Len(text) + 1 : \E j \in w[2] : i <= j}
  <2> HIDE DEF pattern
  <2>1. w[1] = Match(text, pattern, 1, w[1 + 1], w[1 + 2])
    BY <1>3, <1>4 DEF Matches
  <2>2. ~ (1 > Len(pattern))
    BY <1>3
  <2> QED BY <1>3, <2>1, <2>2 DEF Match
<1>8. \A i \in Rest(text, s, 1) : i \in Nat /\ 1 <= i
  BY DEF Rest
<1>9. 1 \in w[1] <=> Rest(text, s, 1) # {}
  BY <1>5, <1>6, <1>7, <1>8
<1> QED BY <1>1, <1>4, <1>9, PartsAre

-----------------------------------------------------------------------------
(* What the list has.                                                       *)

LEMMA RowsTyped ==
    ASSUME NEW row \in Texts
    PROVE  row.name \in Seq(Chars) /\ row.slug \in Seq(Chars)
<1>1. row \in [name : Seq(STRING), slug : Seq(STRING)]
  BY OrganizationListAssumption
<1>2. STRING \subseteq Chars
  BY DEF Chars
<1>3. Seq(STRING) \subseteq Seq(Chars)
  <2> HIDE DEF Chars
  <2> QED BY <1>2, SeqMonotonic
<1>4. row.name \in Seq(STRING) /\ row.slug \in Seq(STRING)
  BY <1>1
<1> QED BY <1>3, <1>4

LEMMA WhereIsHas ==
    ASSUME NEW row \in Texts, NEW s \in Seq(Chars)
    PROVE  Where(row, s) <=> Has(row, s)
<1>1. row.name \in Seq(Chars) /\ row.slug \in Seq(Chars)
  BY RowsTyped
<1>2. /\ ILike(row.name, PatternOf(escapeLike(s))) <=> HasPart(row.name, s)
      /\ ILike(row.slug, PatternOf(escapeLike(s))) <=> HasPart(row.slug, s)
  BY <1>1, LikeIsPart
<1>3. ASSUME s = <<>> PROVE HasPart(row.name, s)
  <2>1. Rest(row.name, s, 1) # {}
    <3>1. Len(s) = 0 /\ Len(row.name) \in Nat
      BY <1>1, <1>3
    <3>2. 1 \in Rest(row.name, s, 1)
      BY <3>1 DEF Rest
    <3> QED BY <3>2
  <2> QED BY <1>1, <2>1, PartsAre
<1>4. Where(row, s) <=> \/ s = <<>>
                        \/ ILike(row.name, PatternOf(escapeLike(s)))
                        \/ ILike(row.slug, PatternOf(escapeLike(s)))
  BY DEF Where, PatternOf
<1>5. Has(row, s) <=> HasPart(row.name, s) \/ HasPart(row.slug, s)
  BY DEF Has
<1> QED BY <1>2, <1>3, <1>4, <1>5

\* Row m of w before what a search has of the earlier ones.
Before(w, s, m, rows) == IF Where(w[m], s) THEN <<m>> \o rows ELSE rows

\* g[m] is what a search has of the first m rows of w.
Listed(w, s, n, g) ==
    /\ g[0] = <<>> /\ \A m \in 0 .. n : g[m] \in Seq(1 .. m)
    /\ \A m \in 1 .. n : g[m] = Before(w, s, m, g[m - 1])

LEMMA BeforeIs ==
    ASSUME NEW w, NEW s, NEW m \in Nat
    PROVE  /\ \A rows \in Seq(Nat) : Before(w, s, m, rows) \in Seq(Nat)
           /\ \A rows \in Seq(1 .. m) : Before(w, s, m + 1, rows) \in Seq(1 .. m + 1)
<1>1. ASSUME NEW rows \in Seq(Nat) PROVE Before(w, s, m, rows) \in Seq(Nat)
  <2>1. <<m>> \in Seq(Nat)
    OBVIOUS
  <2>2. <<m>> \o rows \in Seq(Nat)
    BY <2>1, ConcatProperties
  <2> QED BY <2>2 DEF Before
<1>2. ASSUME NEW rows \in Seq(1 .. m)
      PROVE  Before(w, s, m + 1, rows) \in Seq(1 .. m + 1)
  <2> DEFINE k == m + 1
  <2>1. k \in 1 .. k /\ 1 .. m \subseteq 1 .. k
    OBVIOUS
  <2> HIDE DEF k
  <2>2. <<k>> \in Seq(1 .. k) /\ rows \in Seq(1 .. k)
    BY <2>1, SeqMonotonic
  <2>3. <<k>> \o rows \in Seq(1 .. k)
    BY <2>2, ConcatProperties
  <2>4. Before(w, s, k, rows) \in Seq(1 .. k)
    BY <2>2, <2>3 DEF Before
  <2> QED BY <2>4 DEF k
<1> QED BY <1>1, <1>2

LEMMA ListedExist ==
    ASSUME NEW w, Len(w) \in Nat, NEW s
    PROVE  \E g : Listed(w, s, Len(w), g) /\ Found(w, s) = g[Len(w)]
<1> DEFINE n == Len(w)
           Is(g) == g = [m \in 0 .. Len(w) |-> IF m = 0 THEN <<>>
                                ELSE IF Where(w[m], s) THEN <<m>> \o g[m - 1]
                                ELSE g[m - 1]]
           D == Seq(Nat)
           d == <<>>
           F == [m \in 1 .. n |-> [x \in D |-> Before(w, s, m, x)]]
<1>1. Stepping(n, D, F)
  <2>1. \A m \in 1 .. n : m \in Nat
    OBVIOUS
  <2>2. \A m \in 1 .. n : \A x \in D : Before(w, s, m, x) \in D
    BY <2>1, BeforeIs
  <2> HIDE DEF D, n
  <2> QED BY <2>2 DEF Stepping
<1>2. d \in D
  OBVIOUS
<1>3. PICK f : Run(n, D, d, F, f)
  <2>1. n \in Nat
    OBVIOUS
  <2> HIDE DEF D, d, F, n
  <2> QED BY <1>1, <1>2, <2>1, Recursion
<1>4. /\ f \in [0 .. n -> D] /\ f[0] = <<>>
      /\ \A m \in 1 .. n : f[m] = Before(w, s, m, f[m - 1])
  <2>1. f \in [0 .. n -> D] /\ f[0] = <<>> /\ \A m \in 1 .. n : f[m] = F[m][f[m - 1]]
    BY <1>3 DEF Run
  <2>2. ASSUME NEW m \in 1 .. n PROVE f[m] = Before(w, s, m, f[m - 1])
    <3>1. f[m - 1] \in D
      <4>1. m - 1 \in 0 .. n
        OBVIOUS
      <4> HIDE DEF D, n
      <4> QED BY <2>1, <4>1
    <3> HIDE DEF D, n
    <3> QED BY <2>1, <3>1
  <2> QED BY <2>1, <2>2
<1>5. Is(f)
  <2>1. ASSUME NEW m \in 0 .. n
        PROVE  f[m] = IF m = 0 THEN <<>>
                      ELSE IF Where(w[m], s) THEN <<m>> \o f[m - 1] ELSE f[m - 1]
    <3>1. CASE m = 0
      BY <1>4, <3>1
    <3>2. CASE m # 0
      <4>1. m \in 1 .. n
        BY <3>2
      <4>2. f[m] = Before(w, s, m, f[m - 1])
        BY <1>4, <4>1
      <4> QED BY <3>2, <4>2 DEF Before
    <3> QED BY <3>1, <3>2
  <2>2. f = [m \in 0 .. n |-> f[m]]
    BY <1>4
  <2> QED BY <2>1, <2>2
<1> DEFINE h == CHOOSE g : Is(g)
<1>6. Is(h)
  BY <1>5
<1>7. Found(w, s) = h[n]
  BY DEF Found
<1> HIDE DEF h
<1>8. h[0] = <<>> /\ \A m \in 1 .. n : h[m] = Before(w, s, m, h[m - 1])
  <2>1. \A m \in 0 .. n : h[m] = IF m = 0 THEN <<>>
                      ELSE IF Where(w[m], s) THEN <<m>> \o h[m - 1] ELSE h[m - 1]
    BY <1>6
  <2>2. h[0] = <<>>
    <3>1. 0 \in 0 .. n
      OBVIOUS
    <3> HIDE DEF n
    <3> QED BY <2>1, <3>1, Zenon
  <2>3. ASSUME NEW m \in 1 .. n PROVE h[m] = Before(w, s, m, h[m - 1])
    <3>1. m \in 0 .. n /\ m # 0
      OBVIOUS
    <3> HIDE DEF n
    <3> QED BY <2>1, <3>1 DEF Before
  <2> QED BY <2>2, <2>3
<1>9. n \in Nat
  OBVIOUS
<1> HIDE DEF n
<1>10. \A m \in 0 .. n : h[m] \in Seq(1 .. m)
  <2> DEFINE B == {m \in Nat : m <= n => h[m] \in Seq(1 .. m)}
  <2>1. 0 \in B
    <3>1. <<>> \in Seq(1 .. 0)
      OBVIOUS
    <3> QED BY <1>8, <3>1
  <2>2. ASSUME NEW m \in B PROVE m + 1 \in B
    <3> SUFFICES ASSUME m + 1 <= n PROVE h[m + 1] \in Seq(1 .. m + 1)
      OBVIOUS
    <3>1. h[m] \in Seq(1 .. m) /\ m + 1 \in 1 .. n /\ (m + 1) - 1 = m /\ m \in Nat
      BY <1>9, <2>2
    <3>2. h[m + 1] = Before(w, s, m + 1, h[m])
      BY <1>8, <3>1
    <3> QED BY <3>1, <3>2, BeforeIs
  <2>3. B = Nat
    <3>1. B \in SUBSET Nat
      OBVIOUS
    <3> HIDE DEF B
    <3> QED BY <2>1, <2>2, <3>1, Induction
  <2> QED BY <2>3
<1>11. Listed(w, s, n, h)
  BY <1>8, <1>10 DEF Listed
<1> QED BY <1>7, <1>11 DEF n

\* One more, in front.
Onto(m, x) == <<m>> \o x

\* Organization o is in a list after its first q.
After(x, q, o) == \E i \in 1 .. Len(x) : q < i /\ x[i] = o

LEMMA OneMore ==
    ASSUME NEW m \in Nat, NEW x \in Seq(Nat), NEW q \in Nat, NEW o
    PROVE  /\ After(Onto(m, x), q + 1, o) <=> After(x, q, o)
           /\ After(Onto(m, x), 0, o) <=> o = m \/ After(x, 0, o)
           /\ After(x, q + 1, o) => After(x, q, o)
           /\ After(x, q, o) => After(x, 0, o)
<1> DEFINE y == <<m>> \o x
<1>1. /\ Len(x) \in Nat /\ Len(y) = 1 + Len(x) /\ y[1] = m
      /\ \A j \in 1 .. Len(x) : y[1 + j] = x[j]
  <2>1. <<m>> \in Seq(Nat) /\ Len(<<m>>) = 1 /\ <<m>>[1] = m
    OBVIOUS
  <2>2. /\ Len(x) \in Nat /\ Len(y) = Len(<<m>>) + Len(x)
        /\ \A i \in 1 .. Len(<<m>>) : y[i] = <<m>>[i]
        /\ \A j \in 1 .. Len(x) : y[Len(<<m>>) + j] = x[j]
    BY <2>1, Concat
  <2> HIDE DEF y
  <2> QED BY <2>1, <2>2
<1> HIDE DEF y
<1>2. ASSUME NEW p \in Nat, After(x, p, o) PROVE After(y, p + 1, o)
  <2>1. PICK i \in 1 .. Len(x) : p < i /\ x[i] = o
    BY <1>2 DEF After
  <2>2. 1 + i \in 1 .. Len(y) /\ p + 1 < 1 + i /\ y[1 + i] = o
    BY <1>1, <1>2, <2>1
  <2> QED BY <2>2 DEF After
<1>3. ASSUME NEW p \in Nat, After(y, p, o), o # m \/ p # 0
      PROVE  \E i \in 1 .. Len(x) : p < 1 + i /\ x[i] = o
  <2>1. PICK i \in 1 .. Len(y) : p < i /\ y[i] = o
    BY <1>3 DEF After
  <2>2. i # 1
    BY <1>1, <1>3, <2>1
  <2>3. i - 1 \in 1 .. Len(x) /\ 1 + (i - 1) = i
    BY <1>1, <2>1, <2>2
  <2>4. x[i - 1] = o
    BY <1>1, <2>1, <2>3
  <2> QED BY <2>1, <2>3, <2>4
<1>4. After(y, q + 1, o) => After(x, q, o)
  <2> SUFFICES ASSUME After(y, q + 1, o) PROVE After(x, q, o)
    OBVIOUS
  <2>1. q + 1 \in Nat /\ q + 1 # 0
    OBVIOUS
  <2>2. PICK i \in 1 .. Len(x) : q + 1 < 1 + i /\ x[i] = o
    BY <1>3, <2>1
  <2> QED BY <2>2 DEF After
<1>5. After(y, 0, o) => o = m \/ After(x, 0, o)
  <2> SUFFICES ASSUME After(y, 0, o), o # m PROVE After(x, 0, o)
    OBVIOUS
  <2>1. PICK i \in 1 .. Len(x) : 0 < 1 + i /\ x[i] = o
    BY <1>3
  <2> QED BY <2>1 DEF After
<1>6. o = m => After(y, 0, o)
  BY <1>1 DEF After
<1>7. /\ After(x, q + 1, o) => After(x, q, o)
      /\ After(x, q, o) => After(x, 0, o)
  BY <1>1 DEF After
<1>8. After(x, 0, o) => After(y, 0, o)
  <2>1. After(y, 1, o) => After(y, 0, o)
    BY <1>1 DEF After
  <2> QED BY <1>2, <2>1
<1> QED BY <1>2, <1>4, <1>5, <1>6, <1>7, <1>8 DEF y, Onto

LEMMA AtFront ==
    ASSUME NEW m \in Nat, NEW x \in Seq(Nat), NEW o
    PROVE  After(Onto(m, x), 0, o) <=> o = m \/ After(x, 0, o)
<1>1. 0 \in Nat
  OBVIOUS
<1> QED BY <1>1, OneMore

\* What comes after the first q of a longer list.
LEMMA MoreAfter ==
    ASSUME NEW m \in Nat, NEW x \in Seq(Nat), NEW y \in Seq(Nat), NEW q \in Nat, NEW o,
           \A r \in Nat : After(x, r, o) => After(y, r, o)
    PROVE  /\ After(Onto(m, x), q, o) => After(Onto(m, y), q, o)
           /\ After(x, q, o) => After(Onto(m, y), q, o)
<1>1. CASE q = 0
  <2>1. After(x, 0, o) => After(y, 0, o)
    OBVIOUS
  <2> QED BY <1>1, <2>1, AtFront
<1>2. CASE q # 0
  <2>1. PICK r \in Nat : q = r + 1
    <3>1. q - 1 \in Nat /\ q = (q - 1) + 1
      BY <1>2
    <3> QED BY <3>1
  <2>2. After(x, r, o) => After(y, r, o)
    OBVIOUS
  <2>3. After(Onto(m, x), r + 1, o) <=> After(x, r, o)
    BY OneMore
  <2>4. After(Onto(m, y), r + 1, o) <=> After(y, r, o)
    BY OneMore
  <2>5. After(x, r + 1, o) => After(x, r, o)
    BY OneMore
  <2> QED BY <2>1, <2>2, <2>3, <2>4, <2>5
<1> QED BY <1>1, <1>2

LEMMA Shorter ==
    ASSUME NEW w, NEW s, NEW n \in Nat, NEW g, Listed(w, s, n, g), NEW m \in 0 .. n
    PROVE  Listed(w, s, m, g)
<1>1. 0 .. m \subseteq 0 .. n /\ 1 .. m \subseteq 1 .. n
  OBVIOUS
<1> QED BY <1>1, Zenon DEF Listed

\* The list up to row k, and the one before it.
NextRow(w, s, n, g) ==
    \A k \in 1 .. n :
        /\ g[k - 1] \in Seq(Nat)
        /\ Where(w[k], s) => g[k] = Onto(k, g[k - 1])
        /\ ~ Where(w[k], s) => g[k] = g[k - 1]

LEMMA ListedStep ==
    ASSUME NEW w, NEW s, NEW n \in Nat, NEW g, Listed(w, s, n, g)
    PROVE  NextRow(w, s, n, g)
<1> SUFFICES ASSUME NEW k \in 1 .. n
             PROVE  /\ g[k - 1] \in Seq(Nat)
                    /\ Where(w[k], s) => g[k] = Onto(k, g[k - 1])
                    /\ ~ Where(w[k], s) => g[k] = g[k - 1]
  BY DEF NextRow
<1>1. k - 1 \in 0 .. n
  OBVIOUS
<1>2. g[k - 1] \in Seq(1 .. k - 1)
  BY <1>1, Zenon DEF Listed
<1>3. g[k - 1] \in Seq(Nat)
  <2> DEFINE S == 1 .. k - 1  x == g[k - 1]
  <2>1. x \in Seq(S) /\ S \subseteq Nat
    BY <1>2
  <2> HIDE DEF S, x
  <2>2. x \in Seq(Nat)
    BY <2>1, SeqMonotonic
  <2> QED BY <2>2 DEF x
<1>4. g[k] = Before(w, s, k, g[k - 1])
  BY Zenon DEF Listed
<1> QED BY <1>3, <1>4 DEF Before, Onto

\* What is found is not nearer to the front where at least as much is.
LEMMA Pushed ==
    ASSUME NEW s, NEW n \in Nat, NEW w, NEW z, NEW g, NEW h,
           Listed(w, s, n, g), Listed(z, s, n, h),
           \A m \in 1 .. n : Where(w[m], s) => Where(z[m], s)
    PROVE  \A q \in Nat : \A o : After(g[n], q, o) => After(h[n], q, o)
<1> DEFINE Is(m) == \A o : \A q \in Nat : After(g[m], q, o) => After(h[m], q, o)
           B == {m \in Nat : m <= n => Is(m)}
<1>0. NextRow(w, s, n, g) /\ NextRow(z, s, n, h)
  BY ListedStep
<1>1. 0 \in B
  BY DEF Listed
<1>2. ASSUME NEW m \in B PROVE m + 1 \in B
  <2> SUFFICES ASSUME m + 1 <= n PROVE Is(m + 1)
    OBVIOUS
  <2>1. m \in Nat /\ Is(m)
    BY <1>2
  <2> HIDE DEF Is
  <2>2. PICK k \in 1 .. n : k = m + 1
    BY <2>1
  <2>3. PICK x : x = g[m]
    OBVIOUS
  <2>4. PICK y : y = h[m]
    OBVIOUS
  <2>5. x = g[k - 1] /\ y = h[k - 1] /\ k \in Nat
    BY <2>1, <2>2, <2>3, <2>4
  <2>6. /\ x \in Seq(Nat) /\ (Where(w[k], s) => g[k] = Onto(k, x))
        /\ (~ Where(w[k], s) => g[k] = x)
    BY <1>0, <2>2, <2>5 DEF NextRow
  <2>7. /\ y \in Seq(Nat) /\ (Where(z[k], s) => h[k] = Onto(k, y))
        /\ (~ Where(z[k], s) => h[k] = y)
    BY <1>0, <2>2, <2>5 DEF NextRow
  <2>8. ASSUME NEW o, NEW q \in Nat, After(g[k], q, o) PROVE After(h[k], q, o)
    <3>1. \A r \in Nat : After(x, r, o) => After(y, r, o)
      BY <2>1, <2>3, <2>4 DEF Is
    <3>2. /\ After(Onto(k, x), q, o) => After(Onto(k, y), q, o)
          /\ After(x, q, o) => After(Onto(k, y), q, o)
      BY <2>5, <2>6, <2>7, <3>1, MoreAfter
    <3>3. Where(w[k], s) => Where(z[k], s)
      OBVIOUS
    <3> QED BY <2>6, <2>7, <2>8, <3>1, <3>2, <3>3
  <2>9. Is(k)
    BY <2>8 DEF Is
  <2> QED BY <2>2, <2>9
<1>3. B = Nat
  <2>1. B \in SUBSET Nat
    OBVIOUS
  <2> HIDE DEF B
  <2> QED BY <1>1, <1>2, <2>1, Induction
<1>4. Is(n)
  BY <1>3
<1> QED BY <1>4

\* Where row k alone is found no more, the others come nearer by one at most.
LEMMA Pulled ==
    ASSUME NEW s, NEW n \in Nat, NEW w, NEW z, NEW g, NEW h, NEW k \in 1 .. n,
           Listed(w, s, n, g), Listed(z, s, n, h),
           Where(w[k], s), ~ Where(z[k], s),
           \A m \in 1 .. n : m # k => (Where(w[m], s) <=> Where(z[m], s))
    PROVE  \A q \in Nat : \A o : o # k /\ After(g[n], q + 1, o) => After(h[n], q, o)
<1> DEFINE Is(m) == \A o : o # k =>
                       /\ \A q \in Nat : After(g[m], q + 1, o) => After(h[m], q, o)
                       /\ After(g[m], 0, o) => After(h[m], 0, o)
           B == {m \in Nat : m <= n => Is(m)}
<1>0. NextRow(w, s, n, g) /\ NextRow(z, s, n, h)
  BY ListedStep
<1>1. 0 \in B
  <2>1. g[0] = <<>> /\ h[0] = <<>>
    BY DEF Listed
  <2>2. \A q, o : ~ After(<<>>, q, o)
    BY DEF After
  <2>3. Is(0)
    BY <2>1, <2>2
  <2> HIDE DEF Is
  <2> QED BY <2>3
<1>2. ASSUME NEW m \in B PROVE m + 1 \in B
  <2> SUFFICES ASSUME m + 1 <= n PROVE Is(m + 1)
    OBVIOUS
  <2>1. m \in Nat /\ Is(m)
    BY <1>2
  <2> HIDE DEF Is
  <2>2. PICK j \in 1 .. n : j = m + 1
    BY <2>1
  <2>3. PICK x : x = g[m]
    OBVIOUS
  <2>4. PICK y : y = h[m]
    OBVIOUS
  <2>5. x = g[j - 1] /\ y = h[j - 1] /\ j \in Nat /\ m \in 0 .. n
    BY <2>1, <2>2, <2>3, <2>4
  <2>6. /\ x \in Seq(Nat) /\ (Where(w[j], s) => g[j] = Onto(j, x))
        /\ (~ Where(w[j], s) => g[j] = x)
    BY <1>0, <2>2, <2>5 DEF NextRow
  <2>7. /\ y \in Seq(Nat) /\ (Where(z[j], s) => h[j] = Onto(j, y))
        /\ (~ Where(z[j], s) => h[j] = y)
    BY <1>0, <2>2, <2>5 DEF NextRow
  <2>8. ASSUME j = k PROVE \A q \in Nat : \A o : After(x, q, o) => After(y, q, o)
    <3>1. \A i \in 1 .. m : i \in 1 .. n /\ i # k
      BY <2>1, <2>2, <2>8
    <3>2. Listed(w, s, m, g) /\ Listed(z, s, m, h)
      BY <2>5, Shorter
    <3>3. \A i \in 1 .. m : Where(w[i], s) => Where(z[i], s)
      BY <3>1
    <3> QED BY <2>1, <2>3, <2>4, <3>2, <3>3, Pushed
  <2>9. ASSUME NEW o, o # k
        PROVE  /\ \A q \in Nat : After(g[j], q + 1, o) => After(h[j], q, o)
               /\ After(g[j], 0, o) => After(h[j], 0, o)
    <3>1. /\ \A q \in Nat : After(x, q + 1, o) => After(y, q, o)
          /\ After(x, 0, o) => After(y, 0, o)
      BY <2>1, <2>3, <2>4, <2>9 DEF Is
    <3>2. \A q \in Nat : After(Onto(j, x), q + 1, o) <=> After(x, q, o)
      BY <2>5, <2>6, OneMore
    <3>3. \A q \in Nat : After(Onto(j, y), q + 1, o) <=> After(y, q, o)
      BY <2>5, <2>7, OneMore
    <3>4. /\ After(Onto(j, x), 0, o) <=> o = j \/ After(x, 0, o)
          /\ After(Onto(j, y), 0, o) <=> o = j \/ After(y, 0, o)
      BY <2>5, <2>6, <2>7, AtFront
    <3>5. CASE j = k
      <4>1. g[j] = Onto(j, x) /\ h[j] = y
        BY <2>6, <2>7, <3>5
      <4>2. \A q \in Nat : After(x, q, o) => After(y, q, o)
        BY <2>8, <3>5
      <4> QED BY <2>9, <3>1, <3>2, <3>4, <3>5, <4>1, <4>2
    <3>6. CASE j # k /\ Where(w[j], s)
      <4>1. g[j] = Onto(j, x) /\ h[j] = Onto(j, y)
        BY <2>6, <2>7, <3>6
      <4>2. ASSUME NEW q \in Nat, After(x, q, o) PROVE After(Onto(j, y), q, o)
        <5>1. CASE q = 0
          BY <3>1, <3>4, <4>2, <5>1
        <5>2. CASE q # 0
          <6>1. PICK r \in Nat : q = r + 1
            <7>1. q - 1 \in Nat /\ q = (q - 1) + 1
              BY <5>2
            <7> QED BY <7>1
          <6>2. After(y, r, o)
            BY <3>1, <4>2, <6>1
          <6>3. After(Onto(j, y), r + 1, o)
            BY <3>3, <6>2
          <6> QED BY <6>1, <6>3
        <5> QED BY <5>1, <5>2
      <4> QED BY <3>1, <3>2, <3>4, <4>1, <4>2
    <3>7. CASE j # k /\ ~ Where(w[j], s)
      <4>1. g[j] = x /\ h[j] = y
        BY <2>6, <2>7, <3>7
      <4> QED BY <3>1, <4>1
    <3> QED BY <3>5, <3>6, <3>7
  <2>10. Is(j)
    BY <2>9 DEF Is
  <2> QED BY <2>2, <2>10
<1>3. B = Nat
  <2>1. B \in SUBSET Nat
    OBVIOUS
  <2> HIDE DEF B
  <2> QED BY <1>1, <1>2, <2>1, Induction
<1>4. Is(n)
  BY <1>3
<1> QED BY <1>4

\* Organization o is in what the search has, after its first q rows.
Beyond(w, s, q, o) == After(Found(w, s), q, o)

LEMMA FoundIs ==
    ASSUME NEW w, Len(w) \in Nat, NEW s
    PROVE  /\ Found(w, s) \in Seq(1 .. Len(w))
           /\ \A o \in 1 .. Len(w) : Where(w[o], s) => Beyond(w, s, 0, o)
<1> DEFINE n == Len(w)
<1>1. PICK g : Listed(w, s, n, g) /\ Found(w, s) = g[n]
  BY ListedExist
<1>2. n \in Nat
  OBVIOUS
<1> HIDE DEF n
<1>3. g[n] \in Seq(1 .. n)
  <2>1. n \in 0 .. n
    BY <1>2
  <2> QED BY <1>1, <2>1 DEF Listed
<1> DEFINE Is(m) == \A o \in 1 .. m : Where(w[o], s) => After(g[m], 0, o)
           B == {m \in Nat : m <= n => Is(m)}
<1>0. NextRow(w, s, n, g)
  BY <1>1, <1>2, ListedStep
<1>4. 0 \in B
  OBVIOUS
<1>5. ASSUME NEW m \in B PROVE m + 1 \in B
  <2> SUFFICES ASSUME m + 1 <= n PROVE Is(m + 1)
    OBVIOUS
  <2>1. m \in Nat /\ Is(m)
    BY <1>2, <1>5
  <2> HIDE DEF Is
  <2>2. PICK k \in 1 .. n : k = m + 1
    BY <1>2, <2>1
  <2>3. PICK x : x = g[k - 1]
    OBVIOUS
  <2>4. /\ x \in Seq(Nat) /\ (Where(w[k], s) => g[k] = Onto(k, x))
        /\ (~ Where(w[k], s) => g[k] = x)
    BY <1>0, <2>2, <2>3 DEF NextRow
  <2>5. ASSUME NEW o \in 1 .. k, Where(w[o], s) PROVE After(g[k], 0, o)
    <3>1. x = g[m] /\ k \in Nat /\ (o = k \/ o \in 1 .. m)
      BY <2>1, <2>2, <2>3
    <3>2. o = k \/ After(x, 0, o)
      BY <2>1, <2>5, <3>1 DEF Is
    <3>3. After(Onto(k, x), 0, o)
      BY <2>4, <3>1, <3>2, AtFront
    <3> QED BY <2>4, <2>5, <3>2, <3>3
  <2>6. Is(k)
    BY <2>5 DEF Is
  <2> QED BY <2>2, <2>6
<1>6. B = Nat
  <2>1. B \in SUBSET Nat
    OBVIOUS
  <2> HIDE DEF B
  <2> QED BY <1>4, <1>5, <2>1, Induction
<1>7. Is(n)
  BY <1>2, <1>6
<1> QED BY <1>1, <1>3, <1>7 DEF Beyond, n

\* An organization that is created, or renamed into the search, puts none of
\* the others nearer to the front.
LEMMA BeyondStays ==
    ASSUME NEW s, NEW w, Len(w) \in Nat, NEW z, Len(z) \in {Len(w), Len(w) + 1},
           \A m \in 1 .. Len(w) : Where(w[m], s) => Where(z[m], s),
           NEW q \in Nat, NEW o, Beyond(w, s, q, o)
    PROVE  Beyond(z, s, q, o)
<1>1. PICK n \in Nat : n = Len(w)
  OBVIOUS
<1>2. PICK e \in Nat : e = Len(z)
  OBVIOUS
<1>3. PICK g : Listed(w, s, n, g) /\ Found(w, s) = g[n]
  BY <1>1, ListedExist
<1>4. PICK h : Listed(z, s, e, h) /\ Found(z, s) = h[e]
  BY <1>2, ListedExist
<1>0. NextRow(z, s, e, h)
  BY <1>2, <1>4, ListedStep
<1>5. n \in 0 .. e /\ e \in {n, n + 1} /\ \A m \in 1 .. n : Where(w[m], s) => Where(z[m], s)
  BY <1>1, <1>2
<1>6. Listed(z, s, n, h)
  BY <1>4, <1>5, Shorter
<1>7. After(h[n], q, o)
  BY <1>3, <1>5, <1>6, Pushed DEF Beyond
<1>8. CASE e = n
  BY <1>4, <1>7, <1>8 DEF Beyond
<1>9. CASE e = n + 1
  <2>1. PICK y : y = h[n]
    OBVIOUS
  <2>2. y = h[e - 1] /\ e \in 1 .. e
    BY <1>9, <2>1
  <2>3. /\ y \in Seq(Nat) /\ (Where(z[e], s) => h[e] = Onto(e, y))
        /\ (~ Where(z[e], s) => h[e] = y)
    BY <1>0, <1>2, <2>2 DEF NextRow
  <2>4. After(y, q, o) => After(Onto(e, y), q, o)
    BY <2>3, MoreAfter
  <2> QED BY <1>4, <1>7, <2>1, <2>3, <2>4 DEF Beyond
<1> QED BY <1>5, <1>8, <1>9

\* One that is renamed out of it moves one of the others, the first of the next
\* page, to a page that has been shown.
LEMMA BeyondBut ==
    ASSUME NEW s, NEW w, Len(w) \in Nat, NEW z, Len(z) = Len(w), NEW k \in 1 .. Len(w),
           Where(w[k], s), ~ Where(z[k], s),
           \A m \in 1 .. Len(w) : m # k => (Where(w[m], s) <=> Where(z[m], s)),
           NEW q \in Nat, NEW o, o # k, Beyond(w, s, q, o), o # Found(w, s)[q + 1]
    PROVE  Beyond(z, s, q, o)
<1>1. PICK n \in Nat : n = Len(w)
  OBVIOUS
<1>2. PICK g : Listed(w, s, n, g) /\ Found(w, s) = g[n]
  BY <1>1, ListedExist
<1>3. PICK h : Listed(z, s, n, h) /\ Found(z, s) = h[n]
  BY <1>1, ListedExist
<1>4. k \in 1 .. n /\ \A m \in 1 .. n : m # k => (Where(w[m], s) <=> Where(z[m], s))
  BY <1>1
<1>5. After(g[n], q + 1, o)
  <2>1. PICK i \in 1 .. Len(g[n]) : q < i /\ g[n][i] = o
    BY <1>2 DEF Beyond, After
  <2>2. i # q + 1
    BY <1>2, <2>1
  <2>3. q + 1 < i
    <3>1. Len(g[n]) \in Nat
      <4>1. n \in 0 .. n
        OBVIOUS
      <4>2. g[n] \in Seq(1 .. n)
        BY <1>2, <4>1, Zenon DEF Listed
      <4> QED BY <4>2
    <3>2. i \in Nat
      BY <2>1, <3>1
    <3> QED BY <2>1, <2>2, <3>2
  <2> QED BY <2>1, <2>3 DEF After
<1>6. After(h[n], q, o)
  BY <1>2, <1>3, <1>4, <1>5, Pulled
<1> QED BY <1>3, <1>6 DEF Beyond

\* What a page does not have of the rows from its offset on is after it.
LEMMA PageHas ==
    ASSUME NEW s, NEW w, Len(w) \in Nat, NEW page \in Nat \ {0}
    PROVE  LET rows == listOrganizations(w, s, page)
           IN /\ rows \in Seq(1 .. Len(w))
              /\ \A o : Beyond(w, s, Offset(page), o) =>
                    o \in ToSet(rows) \/ Beyond(w, s, page * PageSize, o)
<1> DEFINE R == 1 .. Len(w)  found == Found(w, s)  q == Offset(page)  size == PageSize  end == page * PageSize
           rest == SubSeq(found, q + 1, Len(found))
           rows == SubSeq(rest, 1, IF Len(rest) < size THEN Len(rest) ELSE size)
<1>1. found \in Seq(R)
  BY FoundIs
<1>2. q \in Nat /\ size \in Nat \ {0} /\ end = q + size
  BY OrganizationListAssumption DEF Offset
<1>3. rows = listOrganizations(w, s, page)
  BY DEF listOrganizations
<1> HIDE DEF R, found, q, size, end
<1> DEFINE len == Len(found)
<1>4. len \in Nat /\ \A i \in 1 .. len : found[i] \in R
  BY <1>1
<1>5. /\ rest \in Seq(R) /\ Len(rest) = IF q < len THEN len - q ELSE 0
      /\ \A i \in 1 .. len - q : rest[i] = found[q + i]
  <2> DEFINE from == q + 1
  <2>1. from \in Int /\ len \in Int /\ \A i \in from .. len : found[i] \in R
    BY <1>2, <1>4
  <2> HIDE DEF from, len
  <2>2. /\ SubSeq(found, from, len) \in Seq(R)
        /\ Len(SubSeq(found, from, len)) = IF from <= len THEN len - from + 1 ELSE 0
        /\ \A i \in 1 .. len - from + 1 : SubSeq(found, from, len)[i] = found[from + i - 1]
    BY <2>1, SubSeqProperties
  <2>3. rest = SubSeq(found, from, len)
    BY DEF len, from
  <2>4. len - from + 1 = len - q /\ (from <= len <=> q < len)
    BY <1>2, <1>4 DEF from, len
  <2>5. ASSUME NEW i \in 1 .. len - q PROVE rest[i] = found[q + i]
    <3>1. from + i - 1 = q + i
      BY <1>2 DEF from
    <3> QED BY <2>2, <2>3, <2>4, <3>1
  <2> QED BY <2>2, <2>3, <2>4, <2>5
<1> DEFINE last == IF Len(rest) < size THEN Len(rest) ELSE size
<1>6. last \in Nat /\ last <= Len(rest) /\ Len(rest) \in Nat
  BY <1>2, <1>4, <1>5
<1> HIDE DEF rest, len
<1>7. /\ rows \in Seq(R) /\ Len(rows) = last
      /\ \A i \in 1 .. last : rows[i] = rest[i]
  <2>1. 1 \in Int /\ last \in Int /\ \A i \in 1 .. last : rest[i] \in R
    BY <1>5, <1>6
  <2> HIDE DEF last
  <2>2. /\ SubSeq(rest, 1, last) \in Seq(R)
        /\ Len(SubSeq(rest, 1, last)) = IF 1 <= last THEN last - 1 + 1 ELSE 0
        /\ \A i \in 1 .. last - 1 + 1 : SubSeq(rest, 1, last)[i] = rest[1 + i - 1]
    BY <2>1, SubSeqProperties
  <2>3. last - 1 + 1 = last /\ \A i \in 1 .. last : 1 + i - 1 = i
    BY <1>6
  <2>4. rows = SubSeq(rest, 1, last)
    BY DEF last
  <2>5. Len(rows) = last
    <3> DEFINE part == SubSeq(rest, 1, last)
    <3>1. Len(part) = IF 1 <= last THEN last - 1 + 1 ELSE 0
      BY <2>2
    <3>2. last \in Nat
      BY <1>6
    <3> HIDE DEF part
    <3>3. Len(part) = last
      BY <3>1, <3>2
    <3> QED BY <2>4, <3>3 DEF part
  <2> QED BY <2>2, <2>3, <2>4, <2>5
<1>8. ASSUME NEW o, Beyond(w, s, q, o), ~ Beyond(w, s, end, o)
      PROVE  o \in ToSet(rows)
  <2>1. PICK i \in 1 .. len : q < i /\ found[i] = o
    BY <1>8 DEF Beyond, After, found, len
  <2>2. i <= end
    <3>1. ~ (end < i)
      BY <1>8, <2>1 DEF Beyond, After, found, len
    <3> QED BY <1>2, <3>1
  <2> DEFINE j == i - q
  <2>3. j \in 1 .. len - q /\ j <= size /\ q + j = i /\ q < len
    BY <1>2, <1>4, <2>1, <2>2
  <2>4. j \in 1 .. last
    BY <1>2, <1>4, <1>5, <2>3
  <2>5. rows[j] = o
    <3> HIDE DEF j, last, rows
    <3> QED BY <1>5, <1>7, <2>1, <2>3, <2>4
  <2>6. j \in DOMAIN rows
    <3> HIDE DEF rows, last, j
    <3> QED BY <1>7, <2>4
  <2> HIDE DEF rows, j
  <2> QED BY <2>5, <2>6 DEF ToSet
<1> QED BY <1>3, <1>7, <1>8 DEF R, q, end

ListType ==
    [search : Searches, page : Nat \ {0}, rows : Seq(Created), total : Nat,
     begun : SUBSET Created, met : SUBSET Created, left : Nat]
TabType ==
    [at : Urls, doc : Documents, factor : Factors, busy : BOOLEAN, list : ListType]

\* What a list has not shown, and will not after its first q rows.
Missed(list, w, q) == {o \in list.begun \ list.met : ~ Beyond(w, list.search, q, o)}

\* Of what the list in a tab at doc has not shown, no more is missing from the
\* rows of w that are to come than have left the search.
ListFits(list, doc, w) ==
    /\ doc \in {"counting", "organizations"} =>
          Cardinality(Missed(list, w, list.page * PageSize)) <= list.left
    /\ doc = "loading" /\ list.page # 1 =>
          Cardinality(Missed(list, w, Offset(list.page))) <= list.left
    /\ doc \notin {"loading", "counting", "organizations"} => list.page = 1
    /\ doc = "organizations" /\ ~ hasNext(list.page, list.total) =>
          Cardinality(list.begun \ list.met) <= list.left

TabFits(x, w) == x \in TabType /\ ListFits(x.list, x.doc, w)

TableOK ==
    /\ organizations \in Seq(Texts) /\ Len(organizations) <= MaxOrganizations
    /\ renames \in 0 .. MaxRenames
WorldOK ==
    /\ access \in BOOLEAN /\ invited \in BOOLEAN /\ elevated \in BOOLEAN
    /\ session \in {"none", "aal1", "aal2"}
    /\ factor \in [unverified : Factors, verified : Factors]
    /\ codes \in Factors /\ enrolled \in Factors
    /\ seen \subseteq Factors /\ excused \subseteq Factors /\ lost \subseteq Factors
TabsFit ==
    /\ tab \in [Tabs -> TabType]
    /\ \A t \in Tabs : TabFits(tab[t], organizations)
ListInv == WorldOK /\ TableOK /\ TabsFit

LEMMA SearchesAre == Searches \subseteq Seq(Chars)
<1>1. STRING \subseteq Chars
  BY DEF Chars
<1>2. Seq(STRING) \subseteq Seq(Chars)
  <2> HIDE DEF Chars
  <2> QED BY <1>1, SeqMonotonic
<1> QED BY <1>2, AdminPagesAssumption

LEMMA NoFactor == 0 \in Factors /\ \A f \in Factors : f \in Nat
BY AdminPagesAssumption DEF Factors

\* The numbers of organizations are few enough to be counted.
LEMMA Counted ==
    ASSUME NEW S \in SUBSET Created, NEW T, NEW x
    PROVE  /\ Cardinality(S) \in Nat
           /\ T \subseteq S => Cardinality(T) \in Nat /\ Cardinality(T) <= Cardinality(S)
           /\ T \subseteq S \cup {x} => /\ Cardinality(T) \in Nat
                                       /\ Cardinality(T) <= Cardinality(S) + 1
           /\ T = {} => Cardinality(T) = 0
<1>1. IsFiniteSet(S)
  <2>1. IsFiniteSet(Created)
    BY OrganizationListAssumption, FS_Interval DEF Created
  <2> QED BY <2>1, FS_Subset
<1>2. Cardinality(S) \in Nat
  BY <1>1, FS_CardinalityType
<1>3. ASSUME T \subseteq S PROVE Cardinality(T) \in Nat /\ Cardinality(T) <= Cardinality(S)
  <2>1. IsFiniteSet(T) /\ Cardinality(T) <= Cardinality(S)
    BY <1>1, <1>3, FS_Subset
  <2> QED BY <2>1, FS_CardinalityType
<1>4. ASSUME T \subseteq S \cup {x}
      PROVE  Cardinality(T) \in Nat /\ Cardinality(T) <= Cardinality(S) + 1
  <2> DEFINE U == S \cup {x}
  <2>1. IsFiniteSet(U) /\ (Cardinality(U) = Cardinality(S) \/ Cardinality(U) = Cardinality(S) + 1)
    BY <1>1, FS_AddElement
  <2>2. T \in SUBSET U
    BY <1>4
  <2> HIDE DEF U
  <2>3. IsFiniteSet(T) /\ Cardinality(T) <= Cardinality(U)
    BY <2>1, <2>2, FS_Subset
  <2>4. Cardinality(T) \in Nat
    BY <2>3, FS_CardinalityType
  <2> QED BY <1>2, <2>1, <2>3, <2>4
<1> QED BY <1>2, <1>3, <1>4, FS_EmptySet

-----------------------------------------------------------------------------
(* The list.                                                                *)

\* A tab without a list has nothing to show.
LEMMA EmptyFits ==
    ASSUME NEW url \in Urls, NEW doc \in Documents, NEW f \in Factors, NEW w
    PROVE  TabFits(Tab(url, doc, f), w)
<1>1. EmptyList \in ListType
  <2>1. <<>> \in Seq(Created) /\ <<>> \in Searches
    BY AdminPagesAssumption
  <2> QED BY <2>1 DEF EmptyList, ListType
<1>2. EmptyList.page = 1 /\ EmptyList.begun = {} /\ EmptyList.left = 0
  BY DEF EmptyList
<1>3. Tab(url, doc, f) \in TabType /\ Tab(url, doc, f).list = EmptyList
  <2> HIDE DEF EmptyList
  <2> QED BY <1>1 DEF Tab, TabType
<1>4. Cardinality({}) = 0
  BY FS_EmptySet
<1>5. \A q : Missed(EmptyList, w, q) = {}
  BY <1>2 DEF Missed
<1>6. EmptyList.begun \ EmptyList.met = {}
  BY <1>2
<1>7. ListFits(EmptyList, Tab(url, doc, f).doc, w)
  BY <1>2, <1>4, <1>5, <1>6 DEF ListFits
<1> QED BY <1>3, <1>7 DEF TabFits

LEMMA Pages ==
    ASSUME NEW page \in Nat \ {0}
    PROVE  /\ Offset(page) \in Nat /\ page * PageSize \in Nat
           /\ page * PageSize = Offset(page) + PageSize
           /\ Offset(page + 1) = page * PageSize /\ Offset(1) = 0
           /\ PageSize \in Nat \ {0}
BY OrganizationListAssumption DEF Offset

LEMMA Ordered ==
    ASSUME NEW p \in Nat \ {0}, NEW page \in Nat \ {0}, p - 1 <= page
    PROVE  Offset(p) <= page * PageSize
<1> DEFINE m == p - 1  size == PageSize
<1>1. m \in Nat /\ size \in Nat /\ m <= page
  BY OrganizationListAssumption
<1> HIDE DEF m, size
<1>2. m * size <= page * size
  <2>1. PICK d \in Nat : page = m + d
    <3>1. page - m \in Nat /\ page = m + (page - m)
      BY <1>1
    <3> QED BY <3>1
  <2>2. page * size = m * size + d * size /\ d * size \in Nat /\ m * size \in Nat
    BY <1>1, <2>1
  <2> QED BY <2>2
<1> QED BY <1>2 DEF Offset, m, size

LEMMA Earlier ==
    ASSUME NEW w, Len(w) \in Nat, NEW s, NEW q \in Nat, NEW r \in Nat, r <= q, NEW o,
           Beyond(w, s, q, o)
    PROVE  Beyond(w, s, r, o)
<1>1. Len(Found(w, s)) \in Nat
  BY FoundIs
<1> QED BY <1>1 DEF Beyond, After

LEMMA TheTable ==
    ASSUME TableOK
    PROVE  /\ Len(organizations) \in Nat /\ 1 .. Len(organizations) \subseteq Created
           /\ DOMAIN organizations = 1 .. Len(organizations)
           /\ \A o \in 1 .. Len(organizations) : organizations[o] \in Texts
BY OrganizationListAssumption DEF TableOK, Created

\* The first page is loaded.
LEMMA RowsFirst ==
    ASSUME TableOK, NEW s \in Searches, NEW o \in Named(organizations, s)
    PROVE  \/ o \in ToSet(listOrganizations(organizations, s, 1))
           \/ Beyond(organizations, s, 1 * PageSize, o)
<1> DEFINE w == organizations
<1>1. /\ Len(w) \in Nat /\ o \in 1 .. Len(w) /\ w[o] \in Texts /\ s \in Seq(Chars)
      /\ Has(w[o], s)
  BY TheTable, SearchesAre DEF Named
<1> HIDE DEF w
<1>2. Where(w[o], s)
  BY <1>1, WhereIsHas
<1>3. Beyond(w, s, Offset(1), o)
  <2>1. Beyond(w, s, 0, o)
    BY <1>1, <1>2, FoundIs
  <2> QED BY <2>1, Pages
<1>4. o \in ToSet(listOrganizations(w, s, 1)) \/ Beyond(w, s, 1 * PageSize, o)
  BY <1>1, <1>3, PageHas
<1> QED BY <1>4 DEF w

LEMMA RowsFit ==
    ASSUME ListInv, NEW t \in Tabs, QueryRows(t)
    PROVE  TabFits(tab'[t], organizations) /\ tab' = [tab EXCEPT ![t] = tab'[t]]
<1> DEFINE x == tab[t]  list == x.list  w == organizations
           rows == listOrganizations(organizations, list.search, list.page)
           first == list.page = 1
           begun == IF first THEN Named(organizations, list.search) ELSE list.begun
           met == ToSet(rows) \cup IF first THEN {} ELSE list.met
           left == IF first THEN 0 ELSE list.left
           l == [list EXCEPT !.rows = rows, !.begun = begun, !.met = met, !.left = left]
           y == [x EXCEPT !.doc = "counting", !.list = l]
<1>1. x \in TabType /\ x.doc = "loading" /\ ListFits(list, "loading", w)
  BY DEF ListInv, TabsFit, TabFits, QueryRows
<1>2. TableOK /\ Len(w) \in Nat /\ 1 .. Len(w) \subseteq Created
      /\ DOMAIN w = 1 .. Len(w)
  BY TheTable DEF ListInv
<1>3. tab' = [tab EXCEPT ![t] = y]
  BY DEF QueryRows, Put
<1>4. list \in ListType
  BY <1>1 DEF TabType
<1>5. list.search \in Searches /\ list.page \in Nat \ {0} /\ list.left \in Nat
      /\ list.begun \subseteq Created /\ list.met \subseteq Created
  BY <1>4 DEF ListType
<1>6. /\ rows \in Seq(1 .. Len(w))
      /\ \A o : Beyond(w, list.search, Offset(list.page), o) =>
            o \in ToSet(rows) \/ Beyond(w, list.search, list.page * PageSize, o)
  BY <1>2, <1>5, PageHas
<1>7. rows \in Seq(Created) /\ ToSet(rows) \subseteq Created
  <2> HIDE DEF rows
  <2>1. rows \in Seq(Created)
    BY <1>2, <1>6, SeqMonotonic
  <2>2. \A i \in DOMAIN rows : rows[i] \in Created
    BY <2>1
  <2> QED BY <2>1, <2>2 DEF ToSet
<1>8. ASSUME first, NEW o \in begun \ met
      PROVE  Beyond(w, list.search, list.page * PageSize, o)
  <2>1. o \notin ToSet(rows)
    OBVIOUS
  <2>2. o \in Named(organizations, list.search) /\ list.page = 1
    BY <1>8
  <2> QED BY <1>2, <1>5, <2>1, <2>2, RowsFirst
<1>9. begun \subseteq Created /\ met \subseteq Created /\ left \in Nat
  <2>1. Named(organizations, list.search) \subseteq Created
    BY <1>2 DEF Named
  <2> HIDE DEF rows
  <2> QED BY <1>2, <1>5, <1>7, <2>1
<1>10. ASSUME ~ first, NEW o \in begun \ met,
              ~ Beyond(w, list.search, list.page * PageSize, o)
       PROVE  o \in Missed(list, w, Offset(list.page))
  <2>1. o \in list.begun \ list.met /\ o \notin ToSet(rows)
    BY <1>10
  <2>2. ~ Beyond(w, list.search, Offset(list.page), o)
    BY <1>6, <1>10, <2>1
  <2> QED BY <2>1, <2>2 DEF Missed
<1>11. /\ first => left = 0
       /\ ~ first => left = list.left
  OBVIOUS
<1> HIDE DEF rows, begun, met, left
<1>12. /\ l \in ListType
       /\ l.search = list.search /\ l.page = list.page /\ l.begun = begun /\ l.met = met
       /\ l.left = left
  <2> HIDE DEF list
  <2> QED BY <1>4, <1>7, <1>9 DEF ListType
<1> HIDE DEF l
<1>13. y \in TabType /\ y.doc = "counting" /\ y.list = l
  <2> HIDE DEF x
  <2> QED BY <1>1, <1>12 DEF TabType, Documents
<1> HIDE DEF y
<1> DEFINE M == Missed(l, w, list.page * PageSize)
<1>14. Cardinality(M) <= left
  <2>1. CASE first
    <3>1. M = {}
      BY <1>8, <1>12, <2>1 DEF Missed
    <3> HIDE DEF M
    <3> QED BY <1>11, <2>1, <3>1, FS_EmptySet
  <2>2. CASE ~ first
    <3> DEFINE N == Missed(list, w, Offset(list.page))
    <3>1. M \subseteq N
      BY <1>10, <1>12, <2>2 DEF Missed
    <3>2. N \in SUBSET Created
      BY <1>5 DEF Missed
    <3>3. Cardinality(N) <= list.left
      BY <1>1, <2>2 DEF ListFits
    <3> HIDE DEF M, N
    <3>4. Cardinality(M) \in Nat /\ Cardinality(M) <= Cardinality(N) /\ Cardinality(N) \in Nat
      BY <3>1, <3>2, Counted
    <3> QED BY <1>5, <1>11, <2>2, <3>3, <3>4
  <2> QED BY <2>1, <2>2
<1>15. ListFits(l, "counting", w)
  BY <1>12, <1>14 DEF ListFits
<1>16. TabFits(y, w)
  BY <1>13, <1>15 DEF TabFits
<1>17. tab'[t] = y
  BY <1>3 DEF ListInv, TabsFit
<1> QED BY <1>3, <1>16, <1>17

LEMMA TotalFits ==
    ASSUME ListInv, NEW t \in Tabs, QueryTotal(t)
    PROVE  TabFits(tab'[t], organizations) /\ tab' = [tab EXCEPT ![t] = tab'[t]]
<1> DEFINE x == tab[t]  list == x.list  w == organizations
           found == Found(organizations, list.search)
           total == Len(found)
           l == [list EXCEPT !.total = total]
           y == [x EXCEPT !.doc = "organizations", !.list = l]
<1>1. x \in TabType /\ x.doc = "counting" /\ ListFits(list, "counting", w)
  BY DEF ListInv, TabsFit, TabFits, QueryTotal
<1>2. Len(w) \in Nat
  BY TheTable DEF ListInv
<1>3. tab' = [tab EXCEPT ![t] = y]
  BY DEF QueryTotal, Put
<1>4. list \in ListType
  BY <1>1 DEF TabType
<1>5. list.page \in Nat \ {0}
  BY <1>4 DEF ListType
<1>6. total \in Nat
  BY <1>2, FoundIs
<1>7. Cardinality(Missed(list, w, list.page * PageSize)) <= list.left
  BY <1>1 DEF ListFits
<1>8. ASSUME ~ hasNext(list.page, total)
      PROVE  Missed(list, w, list.page * PageSize) = list.begun \ list.met
  <2>1. list.page * PageSize \in Nat /\ ~ (list.page * PageSize < total)
    BY <1>5, <1>8, Pages DEF hasNext
  <2>2. \A o : ~ Beyond(w, list.search, list.page * PageSize, o)
    <3> SUFFICES ASSUME NEW o, Beyond(w, list.search, list.page * PageSize, o)
                 PROVE  FALSE
      OBVIOUS
    <3>1. PICK i \in 1 .. total : list.page * PageSize < i
      BY DEF Beyond, After
    <3> HIDE DEF total
    <3> QED BY <1>6, <2>1, <3>1
  <2> QED BY <2>2 DEF Missed
<1> HIDE DEF total
<1>9. /\ l \in ListType
      /\ l.search = list.search /\ l.page = list.page /\ l.begun = list.begun
      /\ l.met = list.met /\ l.total = total /\ l.left = list.left
  <2> HIDE DEF list
  <2> QED BY <1>4, <1>6 DEF ListType
<1> HIDE DEF l
<1>10. y \in TabType /\ y.doc = "organizations" /\ y.list = l
  <2> HIDE DEF x
  <2> QED BY <1>1, <1>9 DEF TabType, Documents
<1> HIDE DEF y
<1>11. Missed(l, w, list.page * PageSize) = Missed(list, w, list.page * PageSize)
  BY <1>9 DEF Missed
<1>12. ListFits(l, "organizations", w)
  BY <1>7, <1>8, <1>9, <1>11 DEF ListFits
<1>13. TabFits(y, w)
  BY <1>10, <1>12 DEF TabFits
<1>14. tab'[t] = y
  BY <1>3 DEF ListInv, TabsFit
<1> QED BY <1>3, <1>13, <1>14

\* Another search, from its first page, or another page of this one that is
\* not later than the next.
LEMMA TurnFits ==
    ASSUME ListInv, NEW t \in Tabs, NEW search \in Searches, NEW page \in Int,
           TurnTo(t, search, page),
           \/ page = 1
           \/ search = tab[t].list.search /\ page - 1 <= tab[t].list.page
    PROVE  TabFits(tab'[t], organizations) /\ tab' = [tab EXCEPT ![t] = tab'[t]]
<1> DEFINE x == tab[t]  list == x.list  w == organizations  p == PageNumber(page)
           l == [list EXCEPT !.search = search, !.page = p]
           y == [x EXCEPT !.doc = "loading", !.list = l]
<1>1. x \in TabType /\ x.doc = "organizations" /\ ListFits(list, "organizations", w)
  BY DEF ListInv, TabsFit, TabFits, TurnTo
<1>2. Len(w) \in Nat
  BY TheTable DEF ListInv
<1>3. tab' = [tab EXCEPT ![t] = y]
  BY DEF TurnTo, Put
<1>4. list \in ListType
  BY <1>1 DEF TabType
<1>5. list.page \in Nat \ {0} /\ list.left \in Nat /\ list.begun \subseteq Created
  BY <1>4 DEF ListType
<1>6. p \in Nat \ {0} /\ (page = 1 => p = 1) /\ (p = 1 \/ p = page)
  BY DEF PageNumber
<1>7. ASSUME p # 1 PROVE Cardinality(Missed(l, w, Offset(p))) <= list.left
  <2> DEFINE M == Missed(l, w, Offset(p))  N == Missed(list, w, list.page * PageSize)
  <2>1. search = list.search /\ p - 1 <= list.page
    BY <1>6, <1>7
  <2>2. Offset(p) <= list.page * PageSize
    <3> HIDE DEF p, list
    <3> QED BY <1>5, <1>6, <2>1, Ordered
  <2>3. Offset(p) \in Nat /\ list.page * PageSize \in Nat
    <3> HIDE DEF p, list
    <3> QED BY <1>5, <1>6, Pages
  <2>4. l.search = search /\ l.begun = list.begun /\ l.met = list.met
    <3> HIDE DEF list, p
    <3> QED BY <1>4 DEF ListType
  <2>5. M \subseteq N
    <3> SUFFICES ASSUME NEW o \in M PROVE o \in N
      OBVIOUS
    <3>1. o \in list.begun \ list.met /\ ~ Beyond(w, list.search, Offset(p), o)
      <4> HIDE DEF l, p, list
      <4> QED BY <2>1, <2>4 DEF Missed
    <3>2. ~ Beyond(w, list.search, list.page * PageSize, o)
      <4> HIDE DEF p, list, w
      <4> QED BY <1>2, <2>2, <2>3, <3>1, Earlier
    <3> QED BY <3>1, <3>2 DEF Missed
  <2>6. N \in SUBSET Created
    BY <1>5 DEF Missed
  <2>7. Cardinality(N) <= list.left
    BY <1>1 DEF ListFits
  <2> HIDE DEF M, N
  <2>8. Cardinality(M) \in Nat /\ Cardinality(M) <= Cardinality(N) /\ Cardinality(N) \in Nat
    BY <2>5, <2>6, Counted
  <2>9. Cardinality(M) <= list.left
    BY <1>5, <2>7, <2>8
  <2> QED BY <2>9 DEF M
<1> HIDE DEF p
<1>8. /\ l \in ListType
      /\ l.search = search /\ l.page = p /\ l.begun = list.begun /\ l.met = list.met
      /\ l.left = list.left
  <2> HIDE DEF list
  <2> QED BY <1>4, <1>6 DEF ListType
<1> HIDE DEF l
<1>9. y \in TabType /\ y.doc = "loading" /\ y.list = l
  <2> HIDE DEF x
  <2> QED BY <1>1, <1>8 DEF TabType, Documents
<1> HIDE DEF y
<1>10. ListFits(l, "loading", w)
  BY <1>7, <1>8 DEF ListFits
<1>11. TabFits(y, w)
  BY <1>9, <1>10 DEF TabFits
<1>12. tab'[t] = y
  BY <1>3 DEF ListInv, TabsFit
<1> QED BY <1>3, <1>11, <1>12

\* Where no row leaves a search, nothing more of it is missed.
LEMMA StillFits ==
    ASSUME NEW x \in TabType, NEW w, Len(w) \in Nat, TabFits(x, w),
           NEW z, Len(z) \in {Len(w), Len(w) + 1},
           \A m \in 1 .. Len(w) : Where(w[m], x.list.search) => Where(z[m], x.list.search)
    PROVE  TabFits(x, z)
<1> DEFINE list == x.list  s == list.search
<1>1. ListFits(list, x.doc, w) /\ list \in ListType
  BY DEF TabFits, TabType
<1>2. list.page \in Nat \ {0} /\ list.left \in Nat /\ list.begun \in SUBSET Created
  BY <1>1 DEF ListType
<1>3. /\ list.page * PageSize \in Nat /\ Offset(list.page) \in Nat
      /\ \A m \in 1 .. Len(w) : Where(w[m], s) => Where(z[m], s)
  BY <1>2, Pages
<1> HIDE DEF list
<1>4. ASSUME NEW q \in Nat, Cardinality(Missed(list, w, q)) <= list.left
      PROVE  Cardinality(Missed(list, z, q)) <= list.left
  <2> DEFINE M == Missed(list, z, q)  N == Missed(list, w, q)
  <2>1. \A o : Beyond(w, s, q, o) => Beyond(z, s, q, o)
    BY <1>3, BeyondStays
  <2>2. M \subseteq N
    BY <2>1 DEF Missed
  <2>3. N \in SUBSET Created
    BY <1>2 DEF Missed
  <2>4. Cardinality(N) <= list.left
    BY <1>4
  <2> HIDE DEF M, N
  <2>5. Cardinality(M) \in Nat /\ Cardinality(M) <= Cardinality(N) /\ Cardinality(N) \in Nat
    BY <2>2, <2>3, Counted
  <2>6. Cardinality(M) <= list.left
    BY <1>2, <2>4, <2>5
  <2> QED BY <2>6 DEF M
<1>5. ListFits(list, x.doc, z)
  BY <1>1, <1>3, <1>4 DEF ListFits
<1> QED BY <1>5 DEF TabFits, list

WithList(x, list) == [x EXCEPT !.list = list]
Without(list, k) == [list EXCEPT !.begun = list.begun \ {k}, !.left = list.left + 1]

\* Where one does, it is missed itself no more, and one of the others may be.
LEMMA LeftFits ==
    ASSUME NEW x \in TabType, NEW w, Len(w) \in Nat, TabFits(x, w),
           NEW z, Len(z) = Len(w), NEW k \in 1 .. Len(w),
           Where(w[k], x.list.search), ~ Where(z[k], x.list.search),
           \A m \in 1 .. Len(w) :
               m # k => (Where(w[m], x.list.search) <=> Where(z[m], x.list.search))
    PROVE  TabFits(WithList(x, Without(x.list, k)), z)
<1> DEFINE list == x.list  s == list.search  l == Without(list, k)
           y == [x EXCEPT !.list = l]
<1>1. ListFits(list, x.doc, w) /\ list \in ListType
  BY DEF TabFits, TabType
<1>2. list.page \in Nat \ {0} /\ list.left \in Nat /\ list.begun \in SUBSET Created
  BY <1>1 DEF ListType
<1>3. /\ list.page * PageSize \in Nat /\ Offset(list.page) \in Nat
      /\ Where(w[k], s) /\ ~ Where(z[k], s)
      /\ \A m \in 1 .. Len(w) : m # k => (Where(w[m], s) <=> Where(z[m], s))
  BY <1>2, Pages
<1>4. l = [list EXCEPT !.begun = list.begun \ {k}, !.left = list.left + 1]
  BY DEF Without
<1> HIDE DEF list, l
<1>5. /\ l \in ListType
      /\ l.search = s /\ l.page = list.page /\ l.begun = list.begun \ {k}
      /\ l.met = list.met /\ l.total = list.total /\ l.left = list.left + 1
  <2>1. list.begun \ {k} \in SUBSET Created /\ list.left + 1 \in Nat
    BY <1>2
  <2>2. /\ l.search = list.search /\ l.page = list.page /\ l.begun = list.begun \ {k}
        /\ l.met = list.met /\ l.total = list.total /\ l.left = list.left + 1
    BY <1>1, <1>4 DEF ListType
  <2>3. l \in ListType
    <3> DEFINE b == list.begun \ {k}  f == list.left + 1
    <3>1. l = [list EXCEPT !.begun = b, !.left = f] /\ b \in SUBSET Created /\ f \in Nat
      BY <1>4, <2>1
    <3> HIDE DEF b, f
    <3> QED BY <1>1, <3>1 DEF ListType
  <2> QED BY <2>2, <2>3
<1>6. ASSUME NEW q \in Nat, Cardinality(Missed(list, w, q)) <= list.left
      PROVE  Cardinality(Missed(l, z, q)) <= l.left
  <2> DEFINE M == Missed(l, z, q)  N == Missed(list, w, q)  e == Found(w, s)[q + 1]
  <2>1. ASSUME NEW o \in M, o # e PROVE o \in N
    <3>1. o \in list.begun \ list.met /\ o # k /\ ~ Beyond(z, s, q, o)
      BY <1>5, <2>1 DEF Missed
    <3>2. ~ Beyond(w, s, q, o)
      <4> SUFFICES ASSUME Beyond(w, s, q, o) PROVE FALSE
        OBVIOUS
      <4> QED BY <1>3, <2>1, <3>1, BeyondBut
    <3> QED BY <3>1, <3>2 DEF Missed
  <2>2. M \subseteq N \cup {e}
    BY <2>1
  <2>3. N \in SUBSET Created
    BY <1>2 DEF Missed
  <2>4. Cardinality(N) <= list.left
    BY <1>6
  <2> HIDE DEF M, N, e
  <2>5. Cardinality(M) \in Nat /\ Cardinality(M) <= Cardinality(N) + 1
        /\ Cardinality(N) \in Nat
    BY <2>2, <2>3, Counted
  <2>6. Cardinality(M) <= l.left
    BY <1>2, <1>5, <2>4, <2>5
  <2> QED BY <2>6 DEF M
<1>7. ASSUME Cardinality(list.begun \ list.met) <= list.left
      PROVE  Cardinality(l.begun \ l.met) <= l.left
  <2> DEFINE M == l.begun \ l.met  N == list.begun \ list.met
  <2>1. M \subseteq N
    BY <1>5
  <2>2. N \in SUBSET Created
    BY <1>2
  <2>3. Cardinality(N) <= list.left
    BY <1>7
  <2> HIDE DEF M, N
  <2>4. Cardinality(M) \in Nat /\ Cardinality(M) <= Cardinality(N) /\ Cardinality(N) \in Nat
    BY <2>1, <2>2, Counted
  <2>5. Cardinality(M) <= l.left
    BY <1>2, <1>5, <2>3, <2>4
  <2> QED BY <2>5 DEF M
<1>8. ListFits(l, x.doc, z)
  BY <1>1, <1>3, <1>5, <1>6, <1>7 DEF ListFits
<1>9. y \in TabType /\ y.doc = x.doc /\ y.list = l
  BY <1>5 DEF TabType
<1>10. TabFits(y, z)
  BY <1>8, <1>9 DEF TabFits
<1> QED BY <1>10 DEF WithList, y, l, list

\* An organization is created.
LEMMA CreatedFits ==
    ASSUME ListInv, NEW text \in Texts, OrganizationCreated(text)
    PROVE  TableOK' /\ TabsFit'
<1> DEFINE w == organizations  z == Append(organizations, text)
<1>1. /\ tab' = tab /\ organizations' = z /\ renames' = renames
      /\ Len(w) < MaxOrganizations
  BY DEF OrganizationCreated
<1>2. TableOK /\ w \in Seq(Texts) /\ Len(w) \in Nat
  BY TheTable DEF ListInv, TableOK
<1>3. /\ z \in Seq(Texts) /\ Len(z) = Len(w) + 1
      /\ \A m \in 1 .. Len(w) : z[m] = w[m]
  BY <1>2
<1>4. TableOK'
  <2>1. Len(z) <= MaxOrganizations
    BY <1>1, <1>2, <1>3, OrganizationListAssumption
  <2> HIDE DEF z
  <2> QED BY <1>1, <1>2, <1>3, <2>1 DEF TableOK
<1> HIDE DEF z
<1>5. ASSUME NEW t \in Tabs PROVE TabFits(tab[t], z)
  <2>1. tab[t] \in TabType /\ TabFits(tab[t], w)
    BY DEF ListInv, TabsFit, TabFits
  <2> QED BY <1>2, <1>3, <2>1, StillFits
<1> QED BY <1>1, <1>4, <1>5 DEF ListInv, TabsFit

\* One is renamed: the tabs whose search it leaves are the ones that change.
LEMMA RenamedFits ==
    ASSUME ListInv, NEW text \in Texts, NEW o \in DOMAIN organizations,
           OrganizationRenamed(o, text)
    PROVE  TableOK' /\ TabsFit'
<1> DEFINE w == organizations  z == [organizations EXCEPT ![o] = text]
<1>1. /\ organizations' = z /\ renames' = renames + 1 /\ renames < MaxRenames
      /\ tab' = [t \in Tabs |->
                   [tab[t] EXCEPT !.list = WithoutLeft(tab[t].list, o, text)]]
  BY DEF OrganizationRenamed
<1>2. /\ TableOK /\ w \in Seq(Texts) /\ Len(w) \in Nat /\ o \in 1 .. Len(w)
      /\ \A m \in 1 .. Len(w) : w[m] \in Texts
  BY TheTable DEF ListInv, TableOK
<1>3. /\ z \in Seq(Texts) /\ Len(z) = Len(w) /\ z[o] = text
      /\ \A m \in 1 .. Len(w) : m # o => z[m] = w[m]
  BY <1>2
<1>4. TableOK'
  <2>1. renames' \in 0 .. MaxRenames
    BY <1>1, <1>2, AdminPagesAssumption DEF TableOK
  <2>2. Len(w) <= MaxOrganizations
    BY <1>2 DEF TableOK
  <2> HIDE DEF z, w
  <2>3. organizations' \in Seq(Texts) /\ Len(organizations') <= MaxOrganizations
    BY <1>1, <1>3, <2>2
  <2> QED BY <2>1, <2>3 DEF TableOK
<1> HIDE DEF z
<1>5. ASSUME NEW t \in Tabs
      PROVE  TabFits([tab[t] EXCEPT !.list = WithoutLeft(tab[t].list, o, text)], z)
  <2> DEFINE x == tab[t]  list == x.list  s == list.search
             l == WithoutLeft(list, o, text)
  <2>1. x \in TabType /\ TabFits(x, w)
    BY DEF ListInv, TabsFit, TabFits
  <2>2. s \in Seq(Chars)
    <3>1. list \in ListType
      BY <2>1 DEF TabType
    <3>2. s \in Searches
      BY <3>1 DEF ListType
    <3> QED BY <3>2, SearchesAre
  <2>3. (Where(w[o], s) <=> Has(w[o], s)) /\ (Where(z[o], s) <=> Has(text, s))
    BY <1>2, <1>3, <2>2, WhereIsHas
  <2> HIDE DEF x
  <2>4. CASE Has(w[o], s) /\ ~ Has(text, s)
    <3>1. l = Without(list, o)
      BY <2>4 DEF WithoutLeft, Without
    <3>2. Where(w[o], s) /\ ~ Where(z[o], s)
      BY <2>3, <2>4
    <3>3. \A m \in 1 .. Len(w) : m # o => (Where(w[m], s) <=> Where(z[m], s))
      BY <1>3
    <3>4. TabFits(WithList(x, Without(x.list, o)), z)
      <4>1. /\ Len(w) \in Nat /\ Len(z) = Len(w) /\ o \in 1 .. Len(w)
            /\ x \in TabType /\ TabFits(x, w)
        BY <1>2, <1>3, <2>1
      <4>2. /\ Where(w[o], x.list.search) /\ ~ Where(z[o], x.list.search)
            /\ \A m \in 1 .. Len(w) :
                  m # o => (Where(w[m], x.list.search) <=> Where(z[m], x.list.search))
        BY <3>2, <3>3
      <4> HIDE DEF w
      <4> QED BY <4>1, <4>2, LeftFits
    <3> QED BY <3>1, <3>4 DEF WithList, x
  <2>5. CASE ~ (Has(w[o], s) /\ ~ Has(text, s))
    <3>1. l = list
      BY <2>5 DEF WithoutLeft
    <3>2. [x EXCEPT !.list = list] = x
      BY <2>1 DEF TabType
    <3>3. \A m \in 1 .. Len(w) : Where(w[m], s) => Where(z[m], s)
      BY <1>3, <2>3, <2>5
    <3>4. TabFits(x, z)
      <4> HIDE DEF w
      <4> QED BY <1>2, <1>3, <2>1, <3>3, StillFits
    <3> QED BY <3>1, <3>2, <3>4 DEF x
  <2> QED BY <2>4, <2>5
<1>6. ASSUME NEW t \in Tabs PROVE tab'[t] \in TabType /\ TabFits(tab'[t], z)
  BY <1>1, <1>5 DEF TabFits
<1>7. tab' \in [Tabs -> TabType]
  <2>1. tab' = [t \in Tabs |-> tab'[t]]
    BY <1>1
  <2> QED BY <1>6, <2>1
<1> QED BY <1>1, <1>4, <1>6, <1>7 DEF TabsFit

-----------------------------------------------------------------------------
(* The steps.                                                               *)

LEMMA TableStays ==
    ASSUME ListInv, UNCHANGED table
    PROVE  organizations' = organizations /\ TableOK'
BY DEF table, ListInv, TableOK

\* A step that changes one tab.
LEMMA OneFits ==
    ASSUME ListInv, NEW t \in Tabs, tab' = [tab EXCEPT ![t] = tab'[t]],
           TabFits(tab'[t], organizations), UNCHANGED table
    PROVE  TabsFit' /\ TableOK'
<1>1. tab \in [Tabs -> TabType] /\ tab'[t] \in TabType
  BY DEF ListInv, TabsFit, TabFits
<1>2. tab' \in [Tabs -> TabType]
  BY <1>1
<1>3. ASSUME NEW u \in Tabs PROVE TabFits(tab'[u], organizations')
  <2>1. CASE u = t
    BY <2>1, TableStays
  <2>2. CASE u # t
    BY <1>1, <2>2, TableStays DEF ListInv, TabsFit
  <2> QED BY <2>1, <2>2
<1> QED BY <1>2, <1>3, TableStays DEF TabsFit

LEMMA PutFits ==
    ASSUME ListInv, NEW t \in Tabs, NEW url \in Urls, NEW doc \in Documents,
           NEW f \in Factors, Put(t, Tab(url, doc, f)), UNCHANGED table
    PROVE  TabsFit' /\ TableOK'
<1> DEFINE x == Tab(url, doc, f)
<1>1. TabFits(x, organizations)
  BY EmptyFits
<1>2. tab' = [tab EXCEPT ![t] = x] /\ tab'[t] = x
  BY DEF Put, ListInv, TabsFit
<1> HIDE DEF x
<1> QED BY <1>1, <1>2, OneFits

LEMMA LoadFits ==
    ASSUME ListInv, NEW t \in Tabs, NEW url \in Urls, Load(t, url), UNCHANGED table
    PROVE  TabsFit' /\ TableOK'
<1>1. "loading" \in Documents
  BY DEF Documents
<1> QED BY <1>1, NoFactor, PutFits DEF Load

\* What a page makes of a request.
Answer(page) == page.to \in Urls \cup {""} /\ page.doc \in Documents

LEMMA PagesAnswer ==
    /\ \A url : Answer(Page(url))
    /\ Answer(EnrollPage) /\ Answer(requireOperator("index"))
<1> USE DEF Redirect, Render, notFound, requireOperator, AdminIndex, OperatorsPage,
            OrganizationsPage, OrganizationDetailPage, LoginPage, EnrollPage,
            ChallengePage, AcceptPage, Documents, Urls, Forms, Tables
<1>1. \A doc \in Documents : Answer(requireOperator(doc))
  BY DEF Answer
<1>2. /\ Answer(AdminIndex) /\ Answer(OperatorsPage) /\ Answer(OrganizationsPage)
      /\ Answer(notFound) /\ Answer(requireOperator("index"))
      /\ Answer(requireOperator("organization"))
  BY DEF Answer
<1>3. Answer(LoginPage)
  BY DEF Answer
<1>4. Answer(EnrollPage)
  BY DEF Answer
<1>5. Answer(ChallengePage)
  BY DEF Answer
<1>6. Answer(AcceptPage)
  BY DEF Answer
<1>7. Answer(OrganizationDetailPage)
  BY <1>2 DEF OrganizationDetailPage
<1> HIDE DEF requireOperator, AdminIndex, OperatorsPage, OrganizationsPage,
             OrganizationDetailPage, LoginPage, EnrollPage, ChallengePage, AcceptPage
<1> QED BY <1>2, <1>3, <1>4, <1>5, <1>6, <1>7 DEF Page

FactorOK == enrolled \in Factors /\ factor \in [unverified : Factors, verified : Factors]

LEMMA DeliverFits ==
    ASSUME ListInv, NEW t \in Tabs, NEW page, Answer(page), NEW doc \in Documents,
           Deliver(t, page, doc), UNCHANGED table
    PROVE  TabsFit' /\ TableOK' /\ FactorOK'
<1>1. tab[t].at \in Urls
  BY DEF ListInv, TabsFit, TabFits, TabType
<1>2. FactorOK
  BY DEF ListInv, WorldOK, FactorOK
<1>3. 0 \in Factors /\ factor.verified \in Factors /\ "404" \in Documents
  BY <1>2, NoFactor DEF FactorOK, Documents
<1>4. CASE /\ page.to # "" /\ Load(t, page.to) /\ UNCHANGED <<enrolled, factor>>
  <2>1. page.to \in Urls
    BY <1>4 DEF Answer
  <2> QED BY <1>2, <1>4, <2>1, LoadFits DEF FactorOK
<1>5. CASE /\ Put(t, Tab(tab[t].at, doc,
                        IF doc = "challenge-form" THEN factor.verified ELSE 0))
           /\ UNCHANGED <<enrolled, factor>>
  <2> DEFINE f == IF doc = "challenge-form" THEN factor.verified ELSE 0
  <2>1. f \in Factors /\ Put(t, Tab(tab[t].at, doc, f))
    BY <1>3, <1>5
  <2> HIDE DEF f
  <2>2. TabsFit' /\ TableOK'
    BY <1>1, <2>1, PutFits
  <2> QED BY <1>2, <1>5, <2>2 DEF FactorOK
<1>6. CASE Enroll /\ Put(t, Tab(tab[t].at, doc, enrolled'))
  <2>1. FactorOK'
    BY <1>2, <1>6, AdminPagesAssumption DEF FactorOK, Enroll, Factors
  <2>2. enrolled' \in Factors
    BY <2>1 DEF FactorOK
  <2>3. PICK f \in Factors : f = enrolled'
    BY <2>2
  <2>4. Put(t, Tab(tab[t].at, doc, f))
    BY <1>6, <2>3
  <2>5. TabsFit' /\ TableOK'
    BY <1>1, <2>4, PutFits
  <2> QED BY <2>1, <2>5
<1>7. CASE Put(t, Tab(tab[t].at, "404", 0)) /\ UNCHANGED <<enrolled, factor>>
  <2>1. TabsFit' /\ TableOK'
    BY <1>1, <1>3, <1>7, PutFits
  <2> QED BY <1>2, <1>7, <2>1 DEF FactorOK
<1> QED BY <1>4, <1>5, <1>6, <1>7 DEF Deliver

LEMMA FactorsShown ==
    ASSUME ListInv, NEW t \in Tabs
    PROVE  tab[t].factor \in Factors
BY DEF ListInv, TabsFit, TabFits, TabType

LEMMA Overtaken ==
    ASSUME ListInv, NEW some \in SUBSET Tabs, Overtake(some)
    PROVE  excused' \subseteq Factors
BY FactorsShown DEF Overtake, ListInv, WorldOK

LEMMA StepServe ==
    ASSUME ListInv, NEW t \in Tabs, Serve(t) PROVE ListInv'
<1> DEFINE page == Page(tab[t].at)
<1>1. Answer(page) /\ page.doc \in Documents
  BY PagesAnswer DEF Answer
<1>2. /\ Deliver(t, page, page.doc)
      /\ UNCHANGED <<access, invited, session, elevated, codes, table, seen, excused, lost>>
  BY DEF Serve, observed
<1>3. TabsFit' /\ TableOK' /\ FactorOK'
  <2> HIDE DEF page
  <2> QED BY <1>1, <1>2, DeliverFits
<1> QED BY <1>2, <1>3 DEF ListInv, WorldOK, FactorOK

LEMMA StepList ==
    ASSUME ListInv, NEW t \in Tabs,
           \/ QueryRows(t) \/ QueryTotal(t)
           \/ \E search \in Searches : SearchInput(t, search)
           \/ NextLink(t) \/ PreviousLink(t)
    PROVE  ListInv'
<1>1. UNCHANGED <<world, observed>>
  BY DEF QueryRows, QueryTotal, SearchInput, NextLink, PreviousLink, TurnTo
<1>2. WorldOK' /\ UNCHANGED table
  BY <1>1 DEF world, observed, ListInv, WorldOK
<1>3. tab[t].list.search \in Searches /\ tab[t].list.page \in Nat \ {0}
  <2>1. tab[t].list \in ListType
    BY DEF ListInv, TabsFit, TabFits, TabType
  <2> QED BY <2>1 DEF ListType
<1>4. TabFits(tab'[t], organizations) /\ tab' = [tab EXCEPT ![t] = tab'[t]]
  <2>1. CASE QueryRows(t)
    BY <2>1, RowsFit
  <2>2. CASE QueryTotal(t)
    BY <2>2, TotalFits
  <2>3. CASE \E search \in Searches : SearchInput(t, search)
    <3>1. PICK search \in Searches : TurnTo(t, search, 1)
      BY <2>3 DEF SearchInput
    <3> QED BY <3>1, TurnFits
  <2>4. CASE NextLink(t)
    <3> DEFINE page == tab[t].list.page + 1
    <3>1. TurnTo(t, tab[t].list.search, page) /\ page \in Int /\ page - 1 <= tab[t].list.page
      BY <1>3, <2>4 DEF NextLink
    <3> HIDE DEF page
    <3> QED BY <1>3, <3>1, TurnFits
  <2>5. CASE PreviousLink(t)
    <3> DEFINE page == tab[t].list.page - 1
    <3>1. TurnTo(t, tab[t].list.search, page) /\ page \in Int /\ page - 1 <= tab[t].list.page
      BY <1>3, <2>5 DEF PreviousLink
    <3> HIDE DEF page
    <3> QED BY <1>3, <3>1, TurnFits
  <2> QED BY <2>1, <2>2, <2>3, <2>4, <2>5
<1>5. TabsFit' /\ TableOK'
  BY <1>2, <1>4, OneFits
<1> QED BY <1>2, <1>5 DEF ListInv

LEMMA StepLoad ==
    ASSUME ListInv, NEW t \in Tabs,
           \/ \E url \in Urls : Visit(t, url)
           \/ AcceptForm(t) \/ LoginForm(t) \/ ChallengeForm(t)
    PROVE  ListInv'
<1>1. "/" \in Urls /\ "/login" \in Urls
  BY DEF Urls
<1>2. {t} \cap Answering \in SUBSET Tabs /\ Answering \in SUBSET Tabs
  BY DEF Answering
<1>3. CASE \E url \in Urls : Visit(t, url)
  <2>1. PICK url \in Urls : Visit(t, url)
    BY <1>3
  <2>2. Load(t, url) /\ UNCHANGED <<world, seen, lost>> /\ Overtake({t} \cap Answering)
    BY <2>1 DEF Visit
  <2>3. excused' \subseteq Factors
    BY <1>2, <2>2, Overtaken
  <2>4. WorldOK' /\ UNCHANGED table
    BY <2>2, <2>3 DEF world, ListInv, WorldOK
  <2> QED BY <2>2, <2>4, LoadFits DEF ListInv
<1>4. CASE AcceptForm(t)
  <2>1. WorldOK' /\ UNCHANGED table /\ Load(t, "/login")
    BY <1>4 DEF AcceptForm, observed, ListInv, WorldOK
  <2> QED BY <1>1, <2>1, LoadFits DEF ListInv
<1>5. CASE LoginForm(t)
  <2>1. excused' \subseteq Factors
    BY <1>2, <1>5, Overtaken DEF LoginForm
  <2>2. WorldOK' /\ UNCHANGED table /\ Load(t, "/")
    BY <1>5, <2>1 DEF LoginForm, ListInv, WorldOK
  <2> QED BY <1>1, <2>2, LoadFits DEF ListInv
<1>6. CASE ChallengeForm(t)
  <2>1. WorldOK' /\ UNCHANGED table /\ Load(t, "/")
    BY <1>6 DEF ChallengeForm, observed, ListInv, WorldOK
  <2> QED BY <1>1, <2>1, LoadFits DEF ListInv
<1> QED BY <1>3, <1>4, <1>5, <1>6

\* Only whether the tab waits for an answer changes.
LEMMA BusyFits ==
    ASSUME ListInv, NEW t \in Tabs, NEW b \in BOOLEAN,
           Put(t, [tab[t] EXCEPT !.busy = b]), UNCHANGED table
    PROVE  TabsFit' /\ TableOK'
<1> DEFINE x == tab[t]  y == [x EXCEPT !.busy = b]
<1>1. x \in TabType /\ TabFits(x, organizations)
  BY DEF ListInv, TabsFit, TabFits
<1>2. tab' = [tab EXCEPT ![t] = y] /\ tab'[t] = y
  BY DEF Put, ListInv, TabsFit
<1>3. y \in TabType /\ y.list = x.list /\ y.doc = x.doc
  <2> HIDE DEF x
  <2> QED BY <1>1 DEF TabType
<1> HIDE DEF y
<1>4. TabFits(y, organizations)
  BY <1>1, <1>3 DEF TabFits
<1> QED BY <1>2, <1>4, OneFits

LEMMA StepConfirm ==
    ASSUME ListInv, NEW t \in Tabs, confirmEnrollmentAction(t) PROVE ListInv'
<1>1. UNCHANGED table
  BY DEF confirmEnrollmentAction
<1>2. TabsFit' /\ TableOK'
  <2>1. CASE Put(t, [tab[t] EXCEPT !.busy = TRUE])
    BY <1>1, <2>1, BusyFits
  <2>2. CASE UNCHANGED tab
    BY <1>1, <2>2, TableStays DEF ListInv, TabsFit
  <2> QED BY <2>1, <2>2 DEF confirmEnrollmentAction
<1>3. tab[t].factor \in Factors
  BY FactorsShown
<1>4. factor' \in [unverified : Factors, verified : Factors] /\ codes' \in Factors
  BY <1>3, NoFactor DEF confirmEnrollmentAction, ListInv, WorldOK
<1>5. session' \in {"none", "aal1", "aal2"} /\ lost' \subseteq Factors
  BY DEF confirmEnrollmentAction, ListInv, WorldOK
<1>6. UNCHANGED <<access, invited, elevated, enrolled, seen, excused>>
  BY DEF confirmEnrollmentAction
<1>7. WorldOK'
  BY <1>4, <1>5, <1>6 DEF ListInv, WorldOK
<1> QED BY <1>2, <1>7 DEF ListInv

LEMMA StepLose ==
    ASSUME ListInv, NEW t \in Tabs, LoseAnswer(t) PROVE ListInv'
<1>1. Put(t, [tab[t] EXCEPT !.busy = FALSE]) /\ UNCHANGED table
  BY DEF LoseAnswer
<1>2. TabsFit' /\ TableOK'
  BY <1>1, BusyFits
<1>3. session' \in {"none", "aal1", "aal2"} /\ lost' \subseteq Factors
  BY FactorsShown DEF LoseAnswer, ListInv, WorldOK
<1>4. UNCHANGED <<access, invited, elevated, factor, codes, enrolled, seen, excused>>
  BY DEF LoseAnswer
<1>5. WorldOK'
  BY <1>3, <1>4 DEF ListInv, WorldOK
<1> QED BY <1>2, <1>5 DEF ListInv

LEMMA StepAnswer ==
    ASSUME ListInv, NEW t \in Tabs, EnrollForm(t) PROVE ListInv'
<1> DEFINE shows == EnrollPage.doc \in {"enrolled", "enroll-form"}
           doc == IF shows THEN "codes" ELSE EnrollPage.doc
<1>1. Deliver(t, EnrollPage, doc) /\ UNCHANGED table
  BY DEF EnrollForm
<1>2. Answer(EnrollPage) /\ doc \in Documents
  BY PagesAnswer DEF Answer, Documents
<1> HIDE DEF doc
<1>3. TabsFit' /\ TableOK' /\ FactorOK'
  BY <1>1, <1>2, DeliverFits
<1>4. seen' \subseteq Factors
  <2>1. seen' = seen \/ seen' = seen \cup {tab[t].factor}
    BY DEF EnrollForm
  <2> QED BY <2>1, FactorsShown DEF ListInv, WorldOK
<1>5. UNCHANGED <<access, invited, session, elevated, codes, table, excused, lost>>
  BY DEF EnrollForm
<1> QED BY <1>3, <1>4, <1>5 DEF ListInv, WorldOK, FactorOK

\* A page asked for again, where no list is.
LEMMA StepButton ==
    ASSUME ListInv, NEW t \in Tabs,
           \/ OperatorsTable(t) \/ PendingInvitationsTable(t) \/ CompsPanel(t)
           \/ InviteOperatorForm(t)
    PROVE  ListInv'
<1>1. tab[t].doc \in {"operators", "organization"}
  BY DEF OperatorsTable, PendingInvitationsTable, CompsPanel, InviteOperatorForm
<1>2. CASE Refuse(t)
  <2>1. /\ Deliver(t, requireOperator("index"), "404")
        /\ UNCHANGED <<access, invited, session, elevated, codes, table, seen, excused, lost>>
    BY <1>2 DEF Refuse, observed
  <2>2. "404" \in Documents
    BY DEF Documents
  <2>3. TabsFit' /\ TableOK' /\ FactorOK'
    BY <2>1, <2>2, PagesAnswer, DeliverFits
  <2> QED BY <2>1, <2>3 DEF ListInv, WorldOK, FactorOK
<1>3. CASE Put(t, [tab[t] EXCEPT !.doc = "loading"]) /\ UNCHANGED <<world, observed>>
  <2> DEFINE x == tab[t]  y == [x EXCEPT !.doc = "loading"]
  <2>1. x \in TabType /\ ListFits(x.list, x.doc, organizations)
    BY DEF ListInv, TabsFit, TabFits
  <2>2. tab' = [tab EXCEPT ![t] = y] /\ tab'[t] = y
    BY <1>3 DEF Put, ListInv, TabsFit
  <2>3. x.list.page = 1
    BY <1>1, <2>1 DEF ListFits
  <2>4. y \in TabType /\ y.list = x.list /\ y.doc = "loading"
    <3> HIDE DEF x
    <3> QED BY <2>1 DEF TabType, Documents
  <2> HIDE DEF y
  <2>5. ListFits(x.list, "loading", organizations)
    BY <2>3 DEF ListFits
  <2>6. TabFits(y, organizations)
    BY <2>4, <2>5 DEF TabFits
  <2>7. WorldOK' /\ UNCHANGED table
    BY <1>3 DEF world, observed, ListInv, WorldOK
  <2>8. TabsFit' /\ TableOK'
    BY <2>2, <2>6, <2>7, OneFits
  <2> QED BY <2>7, <2>8 DEF ListInv
<1> QED BY <1>2, <1>3 DEF OperatorsTable, PendingInvitationsTable, CompsPanel,
                         InviteOperatorForm, TableButton

LEMMA StepElsewhere ==
    ASSUME ListInv, Revoked \/ Invited \/ MfaReset \/ SessionEnds
    PROVE  ListInv'
<1>1. excused' \subseteq Factors
  <2>1. \A some : some \subseteq Tabs /\ Overtake(some) => excused' \subseteq Factors
    BY Overtaken
  <2>2. {t \in Tabs : tab[t].doc = "enroll-form"} \subseteq Tabs /\ Answering \subseteq Tabs
    BY DEF Answering
  <2>3. CASE UNCHANGED excused
    BY <2>3 DEF ListInv, WorldOK
  <2>4. CASE Overtake({t \in Tabs : tab[t].doc = "enroll-form"}) \/ Overtake(Answering)
    BY <2>1, <2>2, <2>4
  <2> QED BY <2>3, <2>4
          DEF Revoked, Invited, MfaReset, SessionEnds, observed
<1>2. UNCHANGED <<tab, table, enrolled, seen, lost>>
  BY DEF Revoked, Invited, MfaReset, SessionEnds, observed
<1>3. TabsFit' /\ TableOK'
  BY <1>2, TableStays DEF ListInv, TabsFit
<1>4. factor' \in [unverified : Factors, verified : Factors] /\ codes' \in Factors
  BY NoFactor DEF Revoked, Invited, MfaReset, SessionEnds, ListInv, WorldOK
<1>5. /\ access' \in BOOLEAN /\ invited' \in BOOLEAN /\ elevated' \in BOOLEAN
      /\ session' \in {"none", "aal1", "aal2"}
  BY DEF Revoked, Invited, MfaReset, SessionEnds, ListInv, WorldOK
<1>6. WorldOK'
  BY <1>1, <1>2, <1>4, <1>5 DEF ListInv, WorldOK
<1> QED BY <1>3, <1>6 DEF ListInv

LEMMA StepTable ==
    ASSUME ListInv, NEW text \in Texts,
           \/ OrganizationCreated(text)
           \/ \E o \in DOMAIN organizations : OrganizationRenamed(o, text)
    PROVE  ListInv'
<1>1. TableOK' /\ TabsFit'
  BY CreatedFits, RenamedFits
<1>2. WorldOK'
  BY DEF OrganizationCreated, OrganizationRenamed, observed, ListInv, WorldOK
<1> QED BY <1>1, <1>2 DEF ListInv

LEMMA InitFits == Init => ListInv
<1> SUFFICES ASSUME Init PROVE ListInv
  OBVIOUS
<1>1. "/" \in Urls /\ "loading" \in Documents
  BY DEF Urls, Documents
<1> DEFINE x == Tab("/", "loading", 0)
<1>2. TabFits(x, organizations)
  BY <1>1, NoFactor, EmptyFits
<1>3. tab = [t \in Tabs |-> x]
  BY DEF Init
<1> HIDE DEF x
<1>4. TabsFit
  BY <1>2, <1>3 DEF TabsFit, TabFits
<1>5. WorldOK
  <2>1. factor \in [unverified : Factors, verified : Factors]
    BY NoFactor DEF Init
  <2> QED BY <2>1, NoFactor DEF Init, WorldOK
<1>6. TableOK
  BY OrganizationListAssumption, AdminPagesAssumption DEF Init, TableOK
<1> QED BY <1>4, <1>5, <1>6 DEF ListInv

LEMMA NextFits == ListInv /\ [Next]_vars => ListInv'
<1>1. CASE UNCHANGED vars
  BY <1>1 DEF vars, world, table, observed, ListInv, WorldOK, TableOK, TabsFit
<1>2. CASE Next /\ ListInv
  BY <1>2, StepServe, StepList, StepLoad, StepConfirm, StepLose, StepAnswer, StepButton,
     StepElsewhere, StepTable
     DEF Next
<1> QED BY <1>1, <1>2

-----------------------------------------------------------------------------
(* The theorems.                                                            *)

\* In no state of session and factor do the guards of the admin's pages
\* redirect an address more than twice.
THEOREM RedirectsDoEnd == Spec => []RedirectsEnd
BY NoCircle, PTL

\* Stored recovery codes were on a screen, or are on the way to one, or their
\* form was left or overtaken, or the answer they were in was lost.
THEOREM CodesReachAScreen == Spec => []CodesWereSeen
<1>1. Init => IInv
  BY InitIInv
<1>2. IInv /\ [Next]_vars => IInv'
  BY NextIInv
<1>3. IInv => CodesWereSeen
  BY DEF IInv
<1> QED BY <1>1, <1>2, <1>3, PTL DEF Spec

\* The variables are of the types that TypeOK gives them.
THEOREM AdminPagesTypeCorrect == Spec => []TypeOK
<1>1. ListInv => TypeOK
  BY DEF ListInv, WorldOK, TableOK, TabsFit, TypeOK, TabType, ListType
<1> QED BY <1>1, InitFits, NextFits, PTL DEF Spec

\* A search finds the organizations that have it in the name or the slug,
\* letter by letter, whatever characters of a pattern are in it.
THEOREM SearchesAreLiteral ==
    \A s \in Seq(STRING) : \A row \in Texts : Where(row, s) <=> Has(row, s)
<1>1. STRING \subseteq Chars
  BY DEF Chars
<1>2. Seq(STRING) \subseteq Seq(Chars)
  <2> HIDE DEF Chars
  <2> QED BY <1>1, SeqMonotonic
<1> QED BY <1>2, WhereIsHas

\* Who is at the last page of a search, having followed Next, has seen every
\* organization that had it at the beginning and has it still, but for at most
\* as many as were renamed out of it on the way: for any number of operators'
\* tabs, of organizations, of new ones and of renames between the queries.
THEOREM ListDoesEnd == Spec => []ListIsComplete
<1>1. ListInv => ListIsComplete
  BY DEF ListInv, TabsFit, TabFits, ListFits, ListIsComplete
<1> QED BY <1>1, InitFits, NextFits, PTL DEF Spec
=============================================================================
