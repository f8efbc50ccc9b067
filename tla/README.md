# template-saas in TLA+

Specifications of the parts of this repository whose correctness depends on the
order in which things happen: the background-job queue, the operators of the
backoffice and their second factor, the entitlement ledger, organizations and who
may see them, the accounts of customers with the mails and pages that lead to them,
the pages of both applications, and the scripts that set a developer's machine up.
Paths below are relative to the root of the repository.  `PROJECT.json` lists, in
machine-readable form, the components, the runs, the source lines every definition
stands for, the hazards the properties are aimed at and the theorems.

To run the checks: `tlc -config MCJobQueue_safety.cfg MCJobQueue` (and so on, see
the table of runs), and `tlapm JobQueue_proofs.tla` (and so on) for the proofs.

## 1. The system

Two Next.js applications (`apps/web` for customers, `apps/admin` for operators),
a Supabase project (Postgres with row-level security, pgmq queues, the GoTrue auth
service) and two worker services (`services/worker-node`, `services/worker-py`).
The applications run serverless: a server action is a request that awaits one SQL
statement or API call after the other, may stop between any two of them, and
hardly ever opens a transaction.  Nothing but the database and the auth service is
shared.  So almost everything that is hard here has one of two forms: *several
requests or workers, each a sequence of separately committed statements, interleave,
and some stop half way*; and *a page in one tab outlives what it was rendered from*.

| Component | State | Operations | Hard behaviours | Correct when |
|---|---|---|---|---|
| Job queue: `packages/jobs`, `services/worker-*`, `20260616180008_pgmq_setup.sql` | pgmq queue and archive tables, a loop per worker | enqueue, read with a visibility timeout, run, acknowledge, retry, dead-letter, SIGTERM drain | crashes, replies that are lost, leases that run out, two kinds of worker on one queue | no job is lost or run by two workers at once; attempts are counted right; every job settles |
| Operator access: `apps/admin/lib/{actions,data}/operator*.ts`, `packages/auth/src/flows/operator-invitations.ts` | `admin_users`, `operator_invitations`, `admin_audit_log`, accounts, mail | invite, re-send, accept, revoke an operator or an invitation | reads used statements later, requests that stop between a change and its log entry | a token works once; the log tells the truth; operators and invitations agree |
| Second factor: `apps/admin/lib/{actions,data}/mfa.ts`, `lib/auth/gate.ts`, `packages/auth/src/{admin-mfa,flows/admin-mfa}.ts` | TOTP factors, sessions and their level, recovery codes, the elevation cookie | enrol, confirm, challenge, redeem a code, reset by a peer, the gate | two tabs, a reset during an enrolment, a cookie that outlives what it stood for | nobody enters without a factor; codes and cookies die with what they belong to |
| Entitlements: `packages/billing/src/entitlements`, `apps/admin/lib/actions/comps.ts`, `20260711000002_entitlements_temporal_ledger.sql` | a row per organization, key and validity period | grant and revoke a Comp, `has()`, `list()`, `listActiveComps()` | statements that start and commit at different times, releases that change a plan meanwhile | the past is settled; revocations stick; what is listed is what is held |
| Organizations and tenancy: `20260708000001_create_organization_rpc.sql`, the RLS migrations, `packages/auth/src/can.ts`, `apps/web/lib/{actions,data}/org.ts` | organizations, memberships, the active-organization cookie | create an organization, route a login, write memberships and organizations under RLS | two creations of one name that wait for each other, a reply that is lost, two answers to "may he?" | a slug is one page; creation is all or nothing; nobody lets himself in; what the policies let a member write, `can()` allows |
| Accounts and web sessions: `packages/auth/src/flows`, `apps/web/lib/actions/auth.ts`, `apps/web/app/auth/confirm` | the auth service's users, one-time links, sessions | sign up, verify, sign in and out, reset, change password or email | flows of several calls while other browsers sign in, mails that are sent in part | a new password ends the other sessions; an address is proven by both mailboxes |
| Auth emails: `packages/email/src/hooks` | none | the send-email hook | the second of two mails fails, a secret that is stale | each token goes to the mailbox it is to prove |
| Local set-up: `scripts/{setup,write-env-local}.ts`, `packages/env` | `supabase/.env`, four `.env.local`, the stack that is up | `pnpm setup`, `pnpm env:local` | a run cut short, edits, pulls and restarts in between | all surfaces boot; the secret is shared; nothing is overwritten |
| Admin pages: `apps/admin/app`, `lib/data/organizations.ts` | what each tab shows | eight pages, their forms, search and paging | an answer that arrives on a page the state has left behind, guards that redirect to one another, an answer that is lost, organizations created and renamed between two pages | redirects end; recovery codes reach a screen; the list misses one organization at most for each that leaves the search |
| Web pages: `apps/web/app`, `apps/web/middleware.ts` | what each tab shows, the session of the browser | thirteen pages, their forms, the mailed links | a layout Next keeps, a link opened over another session, a session that ends elsewhere | no page without a session; links land where they ask to; a reset is of the link's account |

Not modelled, with the reason:

| Component | Reason |
|---|---|
| Sign-in with OAuth | every provider is disabled: no button, and the callback is never reached |
| Feature flags (`packages/flags`) | written, but nothing calls them: no page, action or job evaluates a flag, no provider is registered, nothing writes `flag_overrides` |
| Billing providers and webhook | the route verifies and normalizes an event, and its writer is a TODO (`apps/web/app/api/webhooks/billing/stripe/route.ts:39`) |
| User interface, observability | presentation, logging, tracing: no state the server relies on |
| Release and repository scripts | run by hand or in CI, over files of the repository |
| Database clients, generated schema | constructors, and files generated from the migrations the other components are modelled from |

How they meet.  An accepted invitation makes an operator, who then meets the gate
of the second factor; the gate guards the actions that grant Comps and that revoke
other operators; all of them write the one audit log.  What one of these takes from
another is a single fact (the actor passed the gate when the request began), and
each model lets that fact become false at once, so nothing is gained by composing
them beyond a larger state space.  Where components exchange more than that they are
composed: `Accounts` calls the hook of `AuthEmail` in the middle of a flow and only
what the hook sent can be opened; `Organizations` decides every read and write with
`Tenancy`; `AdminPages` serves the list of `OrganizationList`; `LocalSetup` is both
scripts over all four schemas and the one stack.  `AdminPages` and `WebPages` are
the other side of the same actions: there a request is one step, and what happens
between a request and its answer, or in another tab, is the subject.

## 2. Modules

| Module | Content |
|---|---|
| `JobQueue` | producers, pgmq, Node and Python workers; properties and fairness |
| `JobLease` | what the queue promises about one job: the abstract specification |
| `JobQueue_proofs` | 7 theorems, one of them that `JobQueue` implements `JobLease` |
| `OperatorAccess`, `OperatorAccess_proofs` | invitations, operators, audit log; 7 theorems |
| `AdminMfa`, `AdminMfa_proofs` | one operator's factor, codes, sessions and gate; 8 theorems |
| `Entitlements`, `Entitlements_proofs` | the ledger and its writers; 8 theorems, with those about the reads |
| `EntitlementReads` | `list()`, `listActiveComps()` and an organization's page over the ledgers `Entitlements` can reach |
| `Tenancy` | the policies of row-level security and the table of `can()`, as operators |
| `Organizations`, `Organizations_proofs` | the RPC, its action and form, members' writes, where a login lands; 5 theorems |
| `AuthEmail` | the send-email hook: a function of one call |
| `Accounts` | the flows of `packages/auth` over the auth service, in several browsers |
| `LocalSetup`, `LocalSetup_proofs` | schemas, scripts, files, stack and developer; 3 theorems |
| `OrganizationList` | search and paging of organizations, as operators |
| `AdminPages`, `AdminPages_proofs` | pages and forms of `apps/admin` in tabs; 5 theorems, with those about the list |
| `WebPages` | pages and forms of `apps/web` in tabs |
| `Web_proofs` | 7 theorems: 3 about `Accounts`, 4 about `WebPages` |
| `MC...` | one module of small instances for each that is run |

The unit of atomicity of the server is *one awaited statement or call, with the
synchronous code up to the next one*: that is one action (the page modules are the
exception, see below).  The `pc` of a
worker or request names the statement it will execute next, so any two requests
interleave exactly where the code lets them.  `Die` (`Crash`, `GraceExpires`) ends
a request between any two statements; a statement that fails, or one whose reply
is lost, ends it the same way.  Random identifiers (invitation keys, tokens,
session and factor ids) are the number of the request that drew them: they never
repeat.  A variable marked `observed` records something the properties speak of
and no guard reads.  A definition whose comment starts with `Deviation:` is not
part of the specification.  It shows what a plausible mistake in the code would
be, and `PROJECT.json` names the property that each one breaks.

### JobQueue

`pc[w]` follows `runWorker` and `handleMessage` (`packages/jobs/src/runWorker.ts`):
`idle` is the top of the queue loop, `reading` awaits `pgmq.read`, `running` the
handler, `acking`/`retrying`/`burying` the delete or archive, `resending` the send
that follows a retry's delete.  `main.py` has the same loop with three differences
the model keeps (`PyWorkers`): an envelope it cannot read ends the process, a
database error does too, and the grace period does not bound a drain (its wait comes
after the loop).  `hidden` is the visibility
timeout as a set: `BecomeVisible` lets a lease or delay run out.  `overruns` counts
leases that run out *under a live handler*, the case of a handler slower than 60 s;
`MaxOverruns = 0` is the assumption that handlers are fast enough.  A message carries,
observed, the delays it has waited (`waits`), which is what the schedule is checked by.

`JobLease` is the promise in one page: a job is in one place at a time (queued,
leased, being handed back, settled, or lost out of a lease or a hand-off), and an
attempt is counted only by a hand-off.  `JobQueue!Lease` instantiates it with
`PhaseOf` and `TriesOf`, and `LeaseProtocol` states the refinement.

### OperatorAccess

One request per server action: `inviteOperatorAction` (check, find, re-send or
create, email, audit), `acceptOperatorInvitationAction` (read the token, find or make the
account, grant, mark accepted, audit), `revokeOperatorAction`,
`revokeOperatorInvitationAction`.  `call[c]` holds what the request has read so far.  A
reading is used as the code uses it, however old it is by then.  `Expire` lets an
invitation pass its `expires_at` at any time.  `serial` remembers that so far no
two requests overlapped and none died.

### AdminMfa

One operator, several browsers.  The requests are the enrolment page
(`enrollAdminTotp`), `confirmEnrollmentAction`, the challenge page and
`verifyChallengeAction`, `redeemRecoveryCodeAction`, and a peer's
`resetOperatorMfaAction`.  `Gate` is `resolveAdminGate` with `gateAdmin`.  The auth
service is external and assumed to do what the code relies on: deleting a verified
factor ends every session of the user, removing one from within a session needs
level `aal2`, and `nextLevel` is `aal2` exactly when a verified factor exists
(`packages/auth/src/middleware-helpers.ts`).  A code is modelled by the
confirmation and factor it was issued with; hashing and signing are injective and
left out.  The cookie's eight hours are `DropCookie`, at any time.

### Entitlements and EntitlementReads

A statement under READ COMMITTED has one `now()` and one snapshot, both taken when
it starts, and takes effect when it commits.  `StartInsert`/`CommitInsert` and
`StartClose`/`CommitClose` are those two moments, with the clock and other requests
between them.  A row names its plan and key; its value is left to the row.  A null
`expires_at` is `Never`.  `Release` is a deployment that changes
`plan_entitlements`, and `edited` the plans it changed.  The repository has no
writer of billing periods (`apps/web/app/api/webhooks/billing/stripe/route.ts:39`
is a TODO), so they exist only from the start (`Opening`).  `EntitlementReads`
turns a set of rows into every order the database may answer in and applies the
one-pass resolution of `list()` to each; `OrganizationEntitlements` is what an
operator sees of the same rows.

### Tenancy and Organizations

Each policy is a predicate of the memberships, the caller and the row, with the name
it has in the migration that created it last; `CanTable` is the table of `can.ts`.
In `Organizations` the RPC `create_organization` is one transaction, but its inserts
meet the unique index one by one: an insert of a slug that another open transaction
holds waits until that one ends (`InsertOrganization` is not enabled) and then either
takes the slug or tries the next suffix.  So each step of the RPC is an action,
`Commit` publishes the rows, a fault rolls them back, and `LoseReply` makes the action
answer `unexpected` about an organization that exists.  A slug is a text and the
numbers at its end, so that the name "Acme 1" and the first suffix of "Acme" collide.
A name has two lengths, since zod counts UTF-16 units and Postgres characters: one
emoji passes the form and is refused by the RPC.  `MemberWrites` is what a member may
send to the database past the application, one statement at a time.  For each action of
`can.ts`, `RlsAnswers` says what the policies answer about the write it stands for; no
policy of any migration deletes an organization or writes the tables of billing or of
flag overrides, and this is in the model as policies nobody passes
(`organizations_delete`, `billing_accounts_write`, `flag_overrides_write`).

### AuthEmail and Accounts

`AuthEmail` says what one call of the hook sends and answers, for every signature,
secret, type and number of messages the provider takes.  In `Accounts` a flow of one
call to the auth service is one action; `changePassword`, `changeEmail` and
`updatePassword` are several calls (`call[b].pc`), with the other browser in between,
a refusal or a death.  The service is external: a change of email applies when both
links have been opened, a call that fails in the hook is rolled back, a new request
voids the old link, a recovery link opens a session.  `mails` holds what the hook
has sent, and only that can be opened.  A password is a number that grows, which is
enough to tell sessions opened before and after it.

### LocalSetup

A command run or a file written is one action, and `Stop` ends a script between any
two of them.  Between scripts the developer edits or blanks a variable, deletes a
file, stops the stack, or pulls a schema with a newly required variable.  The schemas
of `packages/env` are sets of names; a value is a kind (an example, the stack's own,
a secret by number, typed by the developer, blank, absent).  `Settings` is
`settings.py`, which declares the Python worker's fields a second time.  Premises
about the external CLI: the stack reads `supabase/.env` when it boots, `supabase start`
leaves one that is up alone, and its status has all the keys the scripts ask for.

### OrganizationList and AdminPages

`ILike` is Postgres' operator: a recursive function from the positions of a pattern to
those of the text from which the rest of it matches.  `escapeLike` is what the code
does to a search before it is put between two `%`; `Where` is the condition of the
query, and a page of the list a slice of what it finds.  `Named` says the same without
a pattern, and the property compares the two.  The table is the sequence of the names
and slugs as they are at each query: organizations are created, and a manager gives one
another name and slug (`OrganizationRenamed`, the `organizations_update` of `Tenancy`).
`AdminPages` follows the tabs of one operator's browser: `Page(url)` is what each
page checks, in its order, and either the redirect or the document; a form sends, and
its answer arrives in a later step (`busy`), together with the page rendered anew, or
never (`LoseAnswer`: the codes are stored, the form can be sent again).
In between peers revoke or reset, the session ends, another tab signs in or enrols.
The page of the list makes two queries, rows and total, and each is a step.

### WebPages

Tabs of one browser share cookies.  A tab remembers what it shows, as whom it was
rendered, and whether it has the layout of `(app)`: Next keeps that layout when a
link leads from one page under it to another, and renders it anew on a load, a
refresh, or with the answer of an action that changed cookies.  `/auth/confirm`
opens its session and redirects; the guard is the layout's `redirect`.  Two origins,
because `apps/web` may see another host in `req.url` than the proxy's.  A session may
end or be replaced at any time elsewhere.  A link's `next` is any text of `Next_`: none,
any path of the site, the absolute and protocol-relative addresses that `sanitizeNext`
turns away, and a path with a backslash for its second slash, which it lets through and
`newURL` resolves to another site (`Elsewhere`).  `routeAfterLoginAction` routes by the
rows the policy shows, `RowsShown`: the user's own, or another member's with them.

## 3. Runs

| Run | Properties | Instance |
|---|---|---|
| `jobs_safety` | LeaseIsExclusive, AttemptsAreFailures, RetriesFollowSchedule, DeadLetterJustified, LostOnlyInHandoff | Node and Python worker on one queue, two jobs, one of them unknown to the Node worker, two attempts; one stop, one database error, one overrun. 1.1 M states |
| `jobs_leases` | LeaseProtocol, EventuallySettled, DrainEnds | `FairSpec`; a Node worker walks two queues and shares the first with a Python worker; one message is malformed; one stop, one error, no overrun |
| `jobs_poison` | ✗ MalformedIsArchived | `FairSpec`; a Python worker and a malformed message, no faults |
| `access_races` | UsedTokenIsDead, PendingIsDelivered, AuditIsTruthful, AuditLagsOnlyDeaths, OperatorsMatchInvitations, LockoutNeedsRace | two founders and an outsider, two requests in flight, four in all, one death. 1.4 M states |
| `mfa_gate` | CodeOpensOneSession, ElevationIsEarned, StaleCodesAreExplained, ResetEndsElevations, FactorCameWithCodes | two browsers, enrolled before or not, two requests in flight, four in all, two sign-ins, one death. 0.8 M states |
| `entitlements_ledger` | RevokedStaysClosed, EarlyEndsAreLogged, GrantLogIsTrue, ListAnswersHas, CompsAreWhole, LedgerOnlyCloses, PastIsSettled | two plans that share a key, a billing and a seed period, three grants or revocations, two at a time, three times, one release, one death |
| `org_tenancy` | SlugLeadsToOnePage, CreationIsAccountedFor, MembersWereAdmitted, WritesWithinCan | two users, two creations with names that collide, one write of a member, two faults. 146 k states |
| `org_routing` | ✗ RoutedByCount | the same, no faults and no writes |
| `accounts` | OldSessionsEnd, AddressesAreProven | a seeded account and one to come, two addresses, two browsers, two mails, three sessions, one change of each password, four hook secrets, one fault. 1.0 M states |
| `local_setup` | SecretIsShared, EverySurfaceBoots | four surfaces, four runs of either script, three edits, two secrets, a pull. 158 k states |
| `admin_pages` | RedirectsEnd, CodesWereSeen, ListIsComplete | two tabs, one enrolment, three organizations in pages of one, one of them renamed. 1.3 M states |
| `web_pages` | GuardedPages, LinksLand, ResetIsForTheLink | two tabs, two people, up to one organization each, one link at a time, four values of `next`, rate limiting on. 0.5 M states |

What the passing runs show, component by component:

* **Jobs.**  A job disappears only in the gap between a retry's delete and its
  send.  Nothing else loses one: no crash, drain, failed statement or expired
  lease.  While handlers finish within their lease, the lease is a lock and a job
  has one message.  An envelope's attempt number is backed by failures, not by
  deliveries, and its n-th retry has waited the first n delays of the schedule.  A job is
  dead-lettered only when malformed, unknown to a worker that polls its queue, or
  out of attempts.  Under fairness, jobs settle and drains end.
* **Operators.**  A used token is dead unless the request died between granting
  and marking.  A pending invitation was emailed or its request died first.  The
  log contains nothing that did not happen, and lacks only what a dead request did
  not get to.  The last operator can only be removed by one who was revoked himself
  in the meantime.  Without overlap, operators and invitations agree.
* **Second factor.**  A code opens one session; an elevation ends with its session;
  a reset throws out who was in by a code.  The exceptions are all stated in the
  properties: a dead reset, a factor the enrolment page removed, a code stored or
  redeemed after the deletion.
* **Entitlements.**  Rows are only added and only closed.  What was held at a time
  that has passed can change only within the window of a revocation that was in
  flight at that time.  A revoked row stays closed, whichever of two revocations
  commits last.  Early ends and grants have truthful log entries.  `list()` has an
  entry for exactly the keys `has()` affirms, in whatever order the rows arrive, and
  takes its value from a Comp exactly where the organization's page says so; an
  unchanged plan's Comp is whole.
* **Organizations.**  However two creations of one name overlap, commit or roll
  back, a slug is one organization's and never a route, but for what a manager wrote
  into the row himself.  An organization has begun with an owner, its creator was
  told unless the reply was lost, and none is announced that does not exist.  Nobody
  gets in without somebody who was inside.  Whatever statement a member sends, whichever
  row it starts from or moves, somebody gets in, goes, or an organization changes only
  where `can()` lets the writer invite, remove or update (`WritesWithinCan`).  The other
  way round the two agree but for four actions, which `RlsAgreesWithCan` names (a
  statement about two tables, proved and not run): an owner
  may delete the organization, manage its billing and override a flag for `can()`, and no
  policy lets anybody; a manager may change roles for the database, not for `can()`.
* **Accounts.**  After a change of password no other session opened under an old one
  is left but the one that set it, unless the revocation was refused or never reached.  No account has
  an address whose mail was not opened, and no email changes without both mailboxes,
  though mails are sent in part and sending is retried.
* **Set-up.**  A script that comes to its end leaves the secret shared by the
  web application and the stack, unless it had a value from elsewhere; every surface
  has what it requires unless blanked.
* **Admin pages.**  No address redirects more than twice in any state of session,
  access and factors.  The recovery codes have been on a screen unless the operator
  left the form, somebody overtook it, or the answer was lost and the form not sent again.
  Who follows Next to the end has seen every organization that matched when he began and
  matches still, but for at most one for each that was renamed out of the search on the
  way.  One created, or renamed into the search, costs nothing.
* **Web pages.**  What is done in a tab never leaves it on an application page without
  a session: only a session that ends elsewhere does, as the kept layout does not look
  again.  A link that opens a session arrives with it at the page it asks for, behind the
  proxy too; one that asks for none arrives at `/orgs`.  The password set behind a
  recovery link is that of the link's account unless the browser's session was changed
  in between.

The runs marked ✗ check a statement of a document or comment that the code does not
keep.  `PROJECT.json` (under `findings`) quotes it:

* `jobs_poison`: `main.py:30` reads the envelope outside its `try`, so a malformed
  message ends the Python worker at each delivery, for ever, where the Node worker
  it mirrors archives it.
* `org_routing`: `getMyOrganizations` (`apps/web/lib/data/org.ts:18`) reads every
  membership row the policy shows, other people's too, so a member of one organization
  that has another member counts two and is sent to the picker, against
  `apps/web/lib/actions/auth.ts:112-113`.

Seen on the way and worth a reader's attention; where a property has an exception, it
is usually one of these:

* jobs: the retry hand-off (`runWorker.ts:130-131`) is two statements, and a process
  that exits between them loses the job, which `docs/architecture/05-jobs.md:48` rules
  out; the attempt is the envelope's, which a delivery after a crash or an expired lease
  leaves as it was (`runWorker.ts:107`: "we trust envelope attempt"; checked as
  `AttemptsAreFailures`), where `05-jobs.md:23` has it read from pgmq's `read_ct`, which
  every delivery raises; the fifth delay of `DEFAULT_RETRY` is never used, so a job waits
  4350 s in all, not the ~7.5 h of `05-jobs.md:21`; a handler has no time limit
  (`runWorker.ts:119`).
* operators: an invitee may become an operator between the check and the write of an
  invitation (ADR 0006:26); a change is committed before its log entry (0006:27).
* second factor: a confirmation past its check stores codes after a reset has cleared
  them (`apps/admin/lib/data/operators.ts:60`); a recovery code is marked used before
  its cookie is set (`lib/actions/mfa.ts:77`); a confirmation whose answer is lost leaves
  stored codes nobody has seen (`lib/actions/mfa.ts:33-45`).
* entitlements: a revocation that begins while a grant's INSERT is in flight does not
  see its rows; an expiry is checked by the application's clock (`comps.ts:8`).
* organizations: `can.ts:29,34,36` let an owner delete the organization, manage its
  billing and override a flag, and no policy lets anybody do what they stand for;
  `memberships_update` lets a manager change roles and
  `organizations_update` lets him write a reserved slug; the last owner can be
  removed; the active-organization cookie is only checked to be a UUID
  (`03-auth.md:123` says it is validated against memberships) and is not deleted on
  sign-out.
* accounts: re-authentication opens a new session and leaves the old one to run out
  (`reauth.ts:61-62` says it refreshes); of two concurrent changes of a password, the
  loser's revocation is refused; when the hook fails, `signUp` answers differently for
  a known address.
* set-up: `pnpm env:local` before the first `pnpm setup` makes the secret differ from
  a stack that is up; both scripts drop lines that are not in a schema, though
  `write-env-local.ts:14` preserves what was set by hand; a blank value stays for ever.
* admin pages: `confirmEnrollmentAction` does not look at the gate; pages are cut by
  offset (`organizations.ts:75-91`), so that an organization renamed out of the search
  moves the first row of the next page to the one that has been shown, and it is missed;
  rows with an equal `created_at` may appear on two pages or none (left out: they differ
  here).
* web pages: the layout does not run on soft navigation, where
  `auth-guard.spec.ts:9-10` says the guard redirects before any query; the dashboard
  renders for any slug; the reset form changes whichever account's password the
  browser's session is of; a link without `next` leads to `/orgs` however many
  organizations its user has, where `auth/confirm/route.ts:12-13` and `40-42` speak of the
  post-login routing by their number; `sanitizeNext` looks at a path's first two
  characters, so `/\host` passes, and `new URL` resolves it to another origin, against
  `route.ts:76-79` ("only allow same-origin app paths"): the `Elsewhere` of `LinksLand`.

### Bounds

All bounds are constants named `Max...`, and only guards use them.  Two requests in
flight (two browsers, two tabs) are enough for every race the code has, because a
hazard here is a read of one outdated by a write of another.  The number of requests
is the length of the longest story a property can tell: for example, to see that a
reset ends elevations takes an earlier enrolment, a redemption, the reset, a new
enrolment and its confirmation.  One fault is enough for properties that blame a
fault, as two would only provide two excuses; `org_tenancy` has two, because a
roll-back must set a waiting insert free and a reply must still be lost.  Two attempts
reach both branches of `handleMessage`'s catch.  Three sessions are the two of a
browser that re-authenticates and that of the other.  Three organizations in pages of
one have a first, a middle and a last page, with one created and one renamed between
them; this and two enrolments together would be beyond a run of some minutes, and the
theorems hold for any number of either.  One organization with another member's row is
enough for each of the three destinations of a login.  Four runs
of the scripts are one cut short, one finished, one after a pull and one more.  That
the bounds are not too small is tested from the other side: for every property there
is a deviation of the code that the same run finds out.

`CHECK_DEADLOCK FALSE` stands in the runs with a number of requests, mails or edits:
when the last of them is over the model has nothing left to do, though the system
would go on.  `JobQueue`, `AdminPages` and `WebPages` keep the deadlock check: a
worker never stops polling, and from every page there is a way on.

Symmetry is used for requests, browsers, tabs, people and founders, in runs with safety
properties only.

### Fairness

Only `JobQueue` states fairness, and only `jobs_leases` and `jobs_poison` use it.
`WF(Advance(w))`: a worker executes its loop, the database answers, handlers end,
and a process that stopped is started again.  Three of these are assumptions about
what surrounds the code: that the database answers (with success or an error), that
handlers end (the code sets them no time limit), and that Railway, which runs the workers and polls their health endpoint,
starts a stopped process.  The loop itself waits for nothing else.  `WF(LeaseRunsOut)`: the visibility timeout of a
message nobody holds ends, as time does pass.  Nothing makes a producer send, a
handler succeed, a fault occur, or a live lease run out.  The serverless actions get
no fairness: nobody guarantees that a request continues, and no liveness is claimed
of them.

## 4. Proofs

TLAPS checks the theorems for all values of the constants under the assumption
each module names (`JobQueueAssumption` and so on: bounds are natural numbers,
functions have their types, special values are not ordinary ones; TLC evaluates
them in every run).  `TypeCorrect`, where it is listed, proves the module's `TypeOK` by an
inductive invariant that adds to the type what a request, worker or tab holds at
each step.  Without it nothing can be said about the row an action is about to
write.

* `JobQueue_proofs`.  `LeaseImplemented`: the refinement.  While no lease has run out
  under a live handler (`[](overruns = 0)`, the hypothesis that handlers finish in
  time; the run has `MaxOverruns = 0`), every step of the tables and loops moves at
  most one job as `JobLease` allows and leaves the others in place.  `LeasedInv` adds
  to the invariants of the other theorems that what a worker has on lease is in the
  queue until its acknowledgement was sent; the proof has a case for each statement of
  a worker, with `PhaseOf` and `TriesOf` before and after it.  `AttemptsCounted`, `DeadLettersJustified`: `HandlingInv`
  counts, for each worker at each `pc`, the failures behind the message it holds;
  the attempt in progress is not yet in the envelope, so the bare property is not
  inductive.  `RetriesScheduled` needs only that nothing but a retry adds to the delays of
  a message.  `JobsLostOnlyInHandoff`: an action property from the same invariant.
  `LeasesExclusive`: `ExclusiveInv` adds that what a worker holds is hidden if it is
  still in the queue, so that no read can take it, and that a message being re-sent
  is gone.
* `OperatorAccess_proofs`.  `LogIsTruthful`, `LogLagsOnlyDeaths`: `AuditInv`, request
  numbers differ and each request makes at most one change.  `UsedTokensAreDead`:
  `TokenInv`, tokens are fresh and a token is in one row.  `SerialRequestsAgree`:
  `SerialInv`, while `serial` holds at most one invitation per person is pending and
  what the request has read is still so.  `PendingInvitationsAreDelivered` and
  `LockoutOnlyByRace` need only well-formedness and an argument per action.
* `AdminMfa_proofs`.  `NumbersInv` says that numbers of factors, batches and requests
  are fresh and that a deleted factor stays deleted.  On it rest `EntryTakesAFactor`
  (a session at `aal2` implies a factor), `CodesOpenOneSession` (a spent code is not
  stored), `ElevationsAreEarned` (a cookie names a session in which a code was
  redeemed), `ResetsEndElevations` (a live session was opened after every deletion
  that precedes it), `StaleCodesExplained`, `FactorsCameWithCodes` and
  `ResetsLogTrueCounts`, which counts deletions with the library's cardinality
  theorems.
* `Entitlements_proofs`.  `RowsOnlyClose` and `PastStaysSettled` are action properties
  from well-formedness.  The three others share one invariant, `IInv`: numbers name
  requests, a grant's rows were written at one moment for the keys it read
  (`OneGrant`), what a closing request found is in the ledger or was closed earlier
  (`FoundRows`), and the three properties themselves.  They are proved together
  because each step's case for one uses the others.  `CompsStayWhole`: `WholeInv`,
  the rows of one grant end together, a grant under way has the keys its plan has
  unless a release edited it, and a revocation that has seen one row of a grant has
  seen them all.  `ListsAgree` is about the one-pass resolution of `list()`: after any
  number of rows a key has an entry exactly if one of them was for it, and one from a
  Comp exactly if one of those was a Comp's (`Kept`, by induction over the rows), so
  the order in which the database answers does not matter.
* `Organizations_proofs`.  `IInv` adds to the type that a request's slug and user fit
  its step (`RequestsFit`), what has been answered (`Replied`) and that managers are
  remembered (`AdminsKnown`), together with the properties themselves: uniqueness of
  committed slugs needs that of the open ones, and that an insert looks at both.
  `MembersWriteWithinCan` goes through the statements of `MemberWrites`, each with the
  rows it may bring, take or change under its policy, and what `can()` says to its writer
  before it; `PoliciesAgreeWithCan`, the tables' part, needs only that roles are roles.
  `StringsAssumption` lists
  literals the provers do not know to be strings.
* `LocalSetup_proofs`.  The invariant follows a run: the secret a script carries is that
  of `supabase/.env`, targets before the one to be written next have all they
  require, and an unmeddled secret is the file's everywhere.  `ValuesKept`, that no script
  overwrites or fills in what a file has (`12-local-dev.md`), is an action property that
  needs no more than the merge, and is proved without a run.
* `AdminPages_proofs`.  `SearchesAreLiteral`: escaped and put between two `%`, a search
  matches exactly the texts that have it in them, whatever wildcards it is made of.
  Three inductions: along the search, for where each character is in the pattern
  (`Characters`); backwards along the pattern, for the positions of the text from which
  the rest of it matches (`FromIsRest`); and over the organizations, for the rows
  (`FoundIs`).  `ListDoesEnd`: `ListFits` says of a tab at a page that what it has not
  shown is in the list after the rows of that page, but for at most `left` of them.  One
  that is created, or renamed into the search, pushes the others back, never forward
  (`BeyondStays`); one that is renamed out of it moves all behind it forward by one, so
  that only the first row behind the page can come to be before its end (`BeyondBut`), and
  `left` has grown by one for it (`LeftFits`).  At the last page there is nothing left.
  The bare property says nothing of the pages before the last, and so is not inductive.
  `RedirectsDoEnd` is a walk through the states of session, access
  and factors.  `CodesReachAScreen`: while an answer with codes is on its way, unless it
  is excused or lost, the session stays at `aal2`, access is kept and the tab at its form, so
  the page rendered with the answer leaves the form where it is.
* `Web_proofs`, `Accounts`.  `AccountInv` says what the auth service's rows hold
  between the calls of a flow: links of users that exist, a pending change of email
  whose halves are those mailed, addresses that a mail to them has proven, no address
  in two rows, sessions and passwords not newer than the next ones.  `AddressesWereProven`
  is one of its parts.  `OldSessionsDoEnd` adds `LockedOut`: a session that is older
  than the password is excused only by a revocation that is still to come, that was
  refused or that was never reached, *of the request that set that password*; the bare
  property does not say whose, and an earlier one's revocation is refused.  The proof
  needs three facts of the constants that every seed and every auth service has: no
  two users begin with one address, there is an account to model, and the value for
  "no token" is not a token (`AccountsAssumption`).
* `Web_proofs`, `WebPages`.  One invariant per tab: a tab that keeps its layout has a
  session or was left by one that changed elsewhere; a tab a link led to has that
  link's session and is at, or on its way to, the page the link asks for (`Landings`),
  for any `Next_` within the texts the assumption lists: every path, and
  each way of writing another site's address that `sanitizeNext` and `new URL` tell apart.

Induction over data is done by hand: the induction theorems of the library take an
operator, which the provers cannot instantiate, so `Induction` is stated for a set of
numbers, proved by its least counterexample, and used with the set of the numbers for
which the formula holds.  `Recursion` then gives a recursive function its value, since
TLA+ defines it by `CHOOSE` and a property of it has to begin with its existence.
The modules that the proofs reach therefore write recursion as functions.

Only model-checked: the liveness properties `EventuallySettled` and `DrainEnds`, which
rest on fairness and are out of the prover's reach, and the two counterexamples.  Every
other property of a run is stated by a theorem.

## 5. What is left out

Of the modelled components: logging, tracing, health endpoints, wording, markup,
email bodies, the content of job payloads, hashing and signing, the names and keys
people are shown by, the CSP header, the refresh of tokens, the validation of single
fields but for the name of an organization.  Organization invitations have a table and
policies (modelled) and no writer yet (so no life).  Components left out as a whole are
in section 1, each with its reason; the two that would be worth a model, flags and the
writer of billing events, wait for code that calls them.

What remains to be done, should the code stay as it is: a refinement of `JobQueue`
that gives a job as many leases as handlers have overrun, to say without a hypothesis
what is left of the protocol then; and abstract specifications, in the manner of
`JobLease`, of an operator's invitation and of a creation of an organization.
