--------------------------- MODULE Organizations ----------------------------
(***************************************************************************)
(* How organizations come to be and who gets into them: the RPC             *)
(* create_organization with its slugs, the server action and form in front  *)
(* of it, what members may write under row-level security, and where a      *)
(* login lands.                                                             *)
(*                                                                         *)
(* The RPC is one transaction, but its statements take effect on the unique *)
(* index of slugs one by one: an insert that meets the slug of another open *)
(* transaction waits until that one commits or rolls back.  So a step of    *)
(* the RPC is an action.  A write a member sends to the database directly   *)
(* is one statement and one action.                                         *)
(***************************************************************************)
EXTENDS Naturals, Sequences, FiniteSets, Tenancy

CONSTANTS
    Users,
    NoUser,      \* the caller of a request whose session has ended
    Names,       \* what may be typed: two lengths and the slug's parts
    NewSlugs,    \* the slugs a member may write into an organization's row
    MaxRequests, \* bound: submissions of the form, by all users
    MaxWrites,   \* bound: writes of members under row-level security
    MaxFaults    \* bound: transactions rolled back and replies lost

\* A slug is a text and the numbers hyphenated to its end, so that "Acme 1"
\* and the first suffix of "Acme" are one slug.  A name has the length the
\* form counts (UTF-16 units, after trim()), the one Postgres counts
\* (characters, after btrim()), and what is left of it as a slug.
Slug == [text : STRING, numbers : Seq(Nat)]
Name == [zod : Nat, sql : Nat, base : Slug]
Bare(text) == [text |-> text, numbers |-> <<>>]

ASSUME OrganizationsAssumption ==
    /\ NoUser \notin Users
    /\ Names \subseteq Name
    /\ NewSlugs \subseteq Slug
    /\ MaxRequests \in Nat /\ MaxWrites \in Nat /\ MaxFaults \in Nat

\* True of TLA+ strings, but not known to the provers.
ASSUME StringsAssumption == {"", "org", "template-org"} \subseteq STRING

VARIABLES
    organizations,  \* committed rows
    memberships,    \* committed rows, each with the user who let it be
    request,        \* the submissions of the form, as server action and RPC
    cookie,         \* per user's browser: active_organization_id
    admins,         \* observed: who has been owner or manager of what
    lost,           \* observed: requests whose reply was lost
    writes, faults  \* the bounds used up

ghosts == <<admins, lost>>
vars == <<organizations, memberships, request, cookie, ghosts,
          writes, faults>>

\* Requests are numbered as they come, and an organization has the number of
\* the request that created it; the one of supabase/seed.sql has 0.
Requests == 1 .. MaxRequests
Orgs == 0 .. MaxRequests
Seeded == 0
Step == {"unused", "rpc", "insert", "membership", "commit", "reply", "done"}
Answer == {"none", "invalid-input", "unexpected", "created"}
Request == [pc : Step, user : Users \cup {NoUser}, name : Name, suffix : Nat,
            answer : Answer]
Organization == [id : Orgs, name : Name, slug : Slug, by : Users,
                 renamed : BOOLEAN]
Membership == [user : Users, org : Orgs, role : Roles, by : Users]
NoCookie == MaxRequests + 1
Malformed == MaxRequests + 2
NoName == [zod |-> 0, sql |-> 0, base |-> Bare("")]
Unused == [pc |-> "unused", user |-> NoUser, name |-> NoName, suffix |-> 0,
           answer |-> "none"]

TypeOK ==
    /\ organizations \subseteq Organization
    /\ memberships \subseteq Membership
    /\ request \in [Requests -> Request]
    /\ cookie \in [Users -> Orgs \cup {NoCookie, Malformed}]
    /\ admins \subseteq Users \X Orgs
    /\ lost \subseteq Requests
    /\ writes \in 0 .. MaxWrites
    /\ faults \in 0 .. MaxFaults

\* The rows of seed.sql: one organization, its owner and a member.
SeedRows(owner, member) ==
    /\ organizations =
           {[id |-> Seeded, slug |-> Bare("template-org"),
             name |-> [zod |-> 12, sql |-> 12, base |-> Bare("template-org")],
             by |-> owner, renamed |-> FALSE]}
    /\ memberships = {[user |-> owner, org |-> Seeded, role |-> "owner",
                       by |-> owner],
                      [user |-> member, org |-> Seeded, role |-> "member",
                       by |-> owner]}
    /\ admins = {<<owner, Seeded>>}

Init ==
    /\ \/ /\ organizations = {} /\ memberships = {}
          /\ admins = {}
       \/ \E owner, member \in Users :
              owner # member /\ SeedRows(owner, member)
    /\ request = [r \in Requests |-> Unused]
    /\ cookie = [u \in Users |-> Malformed]
    /\ lost = {}
    /\ writes = 0
    /\ faults = 0

-----------------------------------------------------------------------------
(* Slugs.                                                                   *)

\* The path segments the RPC keeps for the application, and those that are
\* routes of apps/web/app.
ReservedWords ==
    {"orgs", "onboarding", "account", "api", "auth", "design-system",
     "login", "signup", "logout", "forgot-password", "reset-password",
     "check-email", "admin", "dashboard", "settings", "new"}
AppRoutes ==
    {"orgs", "onboarding", "account", "api", "auth", "design-system",
     "login", "signup", "forgot-password", "reset-password", "check-email"}

\* A name of punctuation only leaves nothing and becomes "org".
BaseSlug(name) == IF name.base = Bare("") THEN Bare("org") ELSE name.base

FirstSuffix(name) ==
    IF \E w \in ReservedWords : BaseSlug(name) = Bare(w) THEN 2 ELSE 0

Candidate(name, suffix) ==
    IF suffix = 0 THEN BaseSlug(name)
    ELSE [BaseSlug(name) EXCEPT !.numbers = Append(@, suffix)]

SlugOf(r) == Candidate(request[r].name, request[r].suffix)
Committed == {o.slug : o \in organizations}
\* The transactions that have inserted their organization and are still open.
Open == {r \in Requests : request[r].pc \in {"membership", "commit"}}
Held == {SlugOf(r) : r \in Open}

-----------------------------------------------------------------------------
(* createOrganizationAction and the form in front of it.                    *)

\* readActiveOrgFromCookie in the middleware: what has not the shape of a
\* uuid is deleted; whether it names an organization of the user is not asked.
Repaired(u) ==
    [v \in Users |-> IF v = u /\ cookie[v] = Malformed THEN NoCookie
                     ELSE cookie[v]]

Put(r, q) == request' = [request EXCEPT ![r] = q]
GoTo(r, step) == Put(r, [request[r] EXCEPT !.pc = step])
Answers(r, answer) ==
    Put(r, [Unused EXCEPT !.pc = "done", !.answer = answer])

\* The form and the action validate with one schema.
createOrganizationSchema(name) == 2 <= name.zod /\ name.zod <= 50

\* NoUser: the session has ended since the page was rendered.
Submit(r, u, name) ==
    /\ request[r].pc = "unused"
    /\ \A q \in 1 .. r - 1 : request[q].pc # "unused"
    /\ cookie' = Repaired(u)
    /\ IF createOrganizationSchema(name)
       THEN Put(r, [Unused EXCEPT !.pc = "rpc", !.user = u, !.name = name])
       ELSE Answers(r, "invalid-input")
    /\ UNCHANGED <<organizations, memberships, ghosts, writes, faults>>

\* The RPC returns: the action sets the cookie and redirects.
Reply(r) ==
    /\ request[r].pc = "reply"
    /\ Answers(r, "created")
    /\ cookie' = [cookie EXCEPT ![request[r].user] = r]
    /\ UNCHANGED <<organizations, memberships, ghosts, writes, faults>>

\* The reply never arrives: the action answers as for any other error, and
\* the form stays as it was, for another try.
LoseReply(r) ==
    /\ request[r].pc = "reply"
    /\ faults < MaxFaults
    /\ faults' = faults + 1
    /\ Answers(r, "unexpected")
    /\ lost' = lost \cup {r}
    /\ UNCHANGED <<organizations, memberships, cookie, admins, writes>>

-----------------------------------------------------------------------------
(* create_organization.                                                     *)

\* A caller without a user id, or a name out of bounds, raises: nothing was
\* written.
BeginRpc(r) ==
    LET name == request[r].name IN
    /\ request[r].pc = "rpc"
    /\ IF request[r].user = NoUser \/ name.sql < 2 \/ name.sql > 50
       THEN Answers(r, "unexpected")
       ELSE Put(r, [request[r] EXCEPT !.pc = "insert",
                                      !.suffix = FirstSuffix(name)])
    /\ UNCHANGED <<organizations, memberships, cookie, ghosts, writes,
                   faults>>

NextSuffix(r) == request[r].suffix + 1

\* Deviation: the slug is looked up first and the index is not unique.
InsertOrganizationLookedUp(r) ==
    /\ request[r].pc = "insert"
    /\ IF SlugOf(r) \in Committed
       THEN Put(r, [request[r] EXCEPT !.suffix = NextSuffix(r)])
       ELSE GoTo(r, "membership")
    /\ UNCHANGED <<organizations, memberships, cookie, ghosts, writes,
                   faults>>

\* One turn of the loop.  While an open transaction holds the slug the insert
\* waits; a committed one is a unique_violation and the suffix goes up.
InsertOrganization(r) ==
    /\ request[r].pc = "insert"
    /\ SlugOf(r) \notin Held
    /\ IF SlugOf(r) \in Committed
       THEN Put(r, [request[r] EXCEPT !.suffix = NextSuffix(r)])
       ELSE GoTo(r, "membership")
    /\ UNCHANGED <<organizations, memberships, cookie, ghosts, writes,
                   faults>>

InsertMembership(r) ==
    /\ request[r].pc = "membership"
    /\ GoTo(r, "commit")
    /\ UNCHANGED <<organizations, memberships, cookie, ghosts, writes,
                   faults>>

\* The rows r's transaction has written.
NewOrganization(r) ==
    [id |-> r, name |-> request[r].name, slug |-> SlugOf(r),
     by |-> request[r].user, renamed |-> FALSE]

OwnerMembership(r) ==
    [user |-> request[r].user, org |-> r, role |-> "owner",
     by |-> request[r].user]

Commit(r) ==
    /\ request[r].pc = "commit"
    /\ organizations' = organizations \cup {NewOrganization(r)}
    /\ memberships' = memberships \cup {OwnerMembership(r)}
    /\ admins' = admins \cup {<<request[r].user, r>>}
    /\ GoTo(r, "reply")
    /\ UNCHANGED <<cookie, lost, writes, faults>>

\* Deviation: the organization is committed before the membership is
\* inserted, and stays when that fails.
RollbackMembershipOnly(r) ==
    /\ request[r].pc \in {"insert", "membership", "commit"}
    /\ faults < MaxFaults
    /\ faults' = faults + 1
    /\ Answers(r, "unexpected")
    /\ organizations' = organizations \cup
           {o \in {NewOrganization(r)} : request[r].pc = "membership"}
    /\ UNCHANGED <<memberships, cookie, ghosts, writes>>

\* The statement times out, or the connection or the database goes.
Rollback(r) ==
    /\ request[r].pc \in {"insert", "membership", "commit"}
    /\ faults < MaxFaults
    /\ faults' = faults + 1
    /\ Answers(r, "unexpected")
    /\ UNCHANGED <<organizations, memberships, cookie, ghosts, writes>>

-----------------------------------------------------------------------------
(* What members write under row-level security, past the application.       *)

\* What the writer u turns the membership rows into.
WriteMemberships(u, rows) ==
    /\ writes < MaxWrites
    /\ writes' = writes + 1
    /\ memberships' = rows
    /\ admins' = admins \cup
           {<<m.user, m.org>> : m \in {n \in rows : n.role # "member"}}
    /\ UNCHANGED <<organizations, request, cookie, lost, faults>>

\* unique (user_id, organization_id)
Fits(rows, new) ==
    \A m \in rows : m.user # new.user \/ m.org # new.org

AddMember(u, new) ==
    /\ memberships_insert(memberships, u, new)
    /\ Fits(memberships, new)
    /\ WriteMemberships(u, memberships \cup {new})

\* Any column may change; who let the row be changes with whom it lets where.
ChangeMember(u, old, new) ==
    /\ old # new
    /\ memberships_update(memberships, u, old, new)
    /\ Fits(memberships \ {old}, new)
    /\ WriteMemberships(u, (memberships \ {old}) \cup {new})

\* Deviation: who may see a row may remove it.
RemoveMemberSeen(u, old) ==
    /\ memberships_select(memberships, u, old)
    /\ WriteMemberships(u, memberships \ {old})

RemoveMember(u, old) ==
    /\ memberships_delete(memberships, u, old)
    /\ WriteMemberships(u, memberships \ {old})

\* organizations_update lets an owner or manager write any column, the slug
\* among them; the unique index holds, the reserved words are not looked at.
UpdateOrganization(u, o, slug) ==
    /\ writes < MaxWrites
    /\ organizations_update(memberships, u, o.id)
    /\ slug \notin Committed \cup Held
    /\ organizations' = (organizations \ {o}) \cup
           {[o EXCEPT !.slug = slug, !.renamed = TRUE]}
    /\ writes' = writes + 1
    /\ UNCHANGED <<memberships, request, cookie, admins, lost, faults>>

MemberWrites(u) ==
    \/ \E v \in Users, o \in organizations, role \in Roles :
          AddMember(u, [user |-> v, org |-> o.id, role |-> role, by |-> u])
    \/ \E old \in memberships, v \in Users, o \in organizations, role \in Roles :
          ChangeMember(u, old,
              [user |-> v, org |-> o.id, role |-> role,
               by |-> IF v = old.user /\ o.id = old.org THEN old.by ELSE u])
    \/ \E old \in memberships : RemoveMember(u, old)
    \/ \E o \in organizations, slug \in NewSlugs : UpdateOrganization(u, o, slug)

-----------------------------------------------------------------------------
(* Where a login lands, and what the pages list.                            *)

\* getMyOrganizations: every membership row the policy shows to u.
getMyOrganizations(u) ==
    {m \in memberships : memberships_select(memberships, u, m)}

\* One name and slug per row, for the picker and the switcher; the router
\* takes the slugs.  Rows of one organization give it several times.
RowsWithOrganization(u) ==
    {mo \in getMyOrganizations(u) \X organizations :
        mo[1].org = mo[2].id /\ organizations_select(memberships, u, mo[2].id)}
getMyOrgSummaries(u) ==
    {[row |-> mo[1], name |-> mo[2].name, slug |-> mo[2].slug] :
        mo \in RowsWithOrganization(u)}
getMyOrgRefs(u) ==
    {[row |-> mo[1], slug |-> mo[2].slug] : mo \in RowsWithOrganization(u)}

destinationForOrganizations(refs) ==
    CASE Cardinality(refs) = 0 -> "onboarding"
      [] Cardinality(refs) = 1 -> "dashboard"
      [] OTHER -> "picker"

\* Where routeAfterLoginAction redirects to.
routeAfterLoginAction(u) ==
    destinationForOrganizations(getMyOrgRefs(u))

-----------------------------------------------------------------------------
RpcStep(r) ==
    \/ BeginRpc(r)
    \/ InsertOrganization(r)
    \/ InsertMembership(r)
    \/ Commit(r)

Next ==
    \/ \E r \in Requests :
          \/ \E u \in Users \cup {NoUser}, name \in Names : Submit(r, u, name)
          \/ RpcStep(r)
          \/ Rollback(r)
          \/ Reply(r)
          \/ LoseReply(r)
    \/ \E u \in Users : MemberWrites(u)

Spec == Init /\ [][Next]_vars

-----------------------------------------------------------------------------
(* Properties.                                                              *)

\* The page /slug is one organization's: rows that are committed, and rows
\* that open transactions are about to commit, never share a slug, and no slug
\* that the RPC chose is a route of the application; only one that a member
\* wrote into the row himself can be.
SlugLeadsToOnePage ==
    /\ \A o, p \in organizations : o.slug = p.slug => o = p
    /\ \A r \in Open : SlugOf(r) \notin Committed
    /\ \A r, s \in Open : SlugOf(r) = SlugOf(s) => r = s
    /\ \A o \in organizations :
          o.slug \in {Bare(w) : w \in AppRoutes} => o.renamed

\* Creation is all or nothing, and what it did is what was answered: an
\* organization began with its creator as owner, and its creator was told so
\* unless the reply was lost; where none is left behind, none was announced.
CreationIsAccountedFor ==
    /\ \A o \in organizations :
          /\ <<o.by, o.id>> \in admins
          /\ o.id # Seeded =>
                \/ request[o.id].pc = "reply"
                \/ request[o.id].answer = "created"
                \/ o.id \in lost
    /\ \A r \in Requests :
          request[r].answer = "created" => \E o \in organizations : o.id = r

\* Nobody gets into an organization by himself: whoever is in, and did not
\* create it, was let in by somebody else, who was its owner or manager.
MembersWereAdmitted ==
    \A m \in memberships :
        \/ \E o \in organizations : o.id = m.org /\ o.by = m.user
        \/ m.by # m.user /\ <<m.by, m.org>> \in admins

\* What an owner may for can() and nobody may for the policies.
Withheld == {"org:delete", "billing:manage", "flag:override"}

\* The database and can() give the same answer about every organization,
\* whatever its members have made of their roles, but for four actions of
\* can.ts's table: those of an owner that no policy lets anybody do (to delete
\* the organization, to manage its billing, to override a flag), and the change
\* of a role, which can() leaves to an owner and memberships_update to whoever
\* may invite.
RlsAgreesWithCan ==
    \A u \in Users, o \in Orgs, action \in DOMAIN CanTable :
        \A answer \in RlsAnswers(memberships, u, o, action) :
            answer <=>
                /\ action \notin Withheld
                /\ can(memberships, u, o, IF action = "member:change-role"
                                          THEN "member:invite" ELSE action)

\* Whether m's user is in m's organization, in a set of rows.
IsIn(rows, m) == \E n \in rows : n.user = m.user /\ n.org = m.org

\* The rows a write of u brings and takes, and the role it changes.
RowsWithin(u) ==
    /\ \A m \in memberships' :
          ~IsIn(memberships, m) => can(memberships, u, m.org, "member:invite")
    /\ \A m \in memberships :
          ~IsIn(memberships', m) => can(memberships, u, m.org, "member:remove")
    /\ \A m \in memberships \ memberships', n \in memberships' \ memberships :
          m.user = n.user /\ m.org = n.org /\ m.role # n.role
          => can(memberships, u, m.org, "member:invite")

OrganizationsWithin(u) ==
    /\ \A o \in organizations' \ organizations :
          can(memberships, u, o.id, "org:update")
    /\ \A o \in organizations : \E p \in organizations' : p.id = o.id

\* Whatever a member writes, as one statement or by moving a row from one user
\* or organization to another, somebody gets in, goes, or an organization is
\* changed only where can() lets the writer invite, remove or update as the
\* memberships stood before it; no organization goes.  A role may change where
\* the writer may invite: the one place where can() asks for more.
WritesWithinCan ==
    [][\A u \in Users : MemberWrites(u) => RowsWithin(u) /\ OrganizationsWithin(u)]_vars

\* The routing the sign-in promises: none - onboarding, one - its dashboard,
\* more - the picker.
RoutedByCount ==
    \A u \in Users :
        routeAfterLoginAction(u) = destinationForOrganizations(
                         {o \in Orgs : is_member_of(memberships, u, o)})
=============================================================================
