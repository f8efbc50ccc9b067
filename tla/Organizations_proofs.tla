-------------------------- MODULE Organizations_proofs --------------------------
(***************************************************************************)
(* Theorems about Organizations and its policies, for any number of users,  *)
(* names, requests, writes of members and faults.                           *)
(*                                                                         *)
(* The inductive invariant adds to the properties what a request has made   *)
(* sure of by the step it is at: a caller, a suffix not below the first one *)
(* its name may have, and no answer before its end; that a reply that is    *)
(* due has an organization behind it; and that who is owner or manager of   *)
(* an organization is among those who have been.                            *)
(***************************************************************************)
EXTENDS Organizations, TLAPS

RequestFits(q) ==
    /\ q.pc \in {"insert", "membership", "commit", "reply"} => q.user \in Users
    /\ q.pc \in {"insert", "membership", "commit"} => q.suffix >= FirstSuffix(q.name)
    /\ q.pc # "done" => q.answer = "none"

RequestsFit == \A r \in Requests : RequestFits(request[r])

Replied ==
    \A r \in Requests : request[r].pc = "reply" => \E o \in organizations : o.id = r

AdminsKnown ==
    \A m \in memberships : m.role # "member" => <<m.user, m.org>> \in admins

IInv ==
    /\ TypeOK /\ RequestsFit /\ Replied /\ AdminsKnown
    /\ SlugLeadsToOnePage /\ CreationIsAccountedFor /\ MembersWereAdmitted

-----------------------------------------------------------------------------
(* Slugs.                                                                   *)

LEMMA BareType == \A text \in STRING : Bare(text) \in Slug
<1>1. <<>> \in Seq(Nat)
  OBVIOUS
<1> QED BY <1>1 DEF Bare, Slug

LEMMA BaseType ==
    ASSUME NEW name \in Name
    PROVE  BaseSlug(name) \in Slug
<1>1. name.base \in Slug
  BY DEF Name
<1>2. Bare("org") \in Slug
  <2>1. "org" \in STRING
    BY StringsAssumption
  <2> QED BY <2>1, BareType
<1> QED BY <1>1, <1>2 DEF BaseSlug

\* Whatever is tried from the first suffix on is no route of the application.
LEMMA NoRoute ==
    ASSUME NEW name \in Name, NEW suffix \in Nat, suffix >= FirstSuffix(name)
    PROVE  Candidate(name, suffix) \notin {Bare(w) : w \in AppRoutes}
<1>1. BaseSlug(name) \in Slug
  BY BaseType
<1>2. AppRoutes \subseteq ReservedWords
  BY DEF AppRoutes, ReservedWords
<1>3. CASE suffix = 0
  <2>1. FirstSuffix(name) # 2
    BY <1>3 DEF FirstSuffix
  <2>2. ~ \E w \in ReservedWords : BaseSlug(name) = Bare(w)
    BY <2>1 DEF FirstSuffix
  <2> QED BY <1>2, <1>3, <2>2 DEF Candidate
<1>4. CASE suffix # 0
  <2>1. Candidate(name, suffix).numbers = Append(BaseSlug(name).numbers, suffix)
    BY <1>1, <1>4 DEF Candidate, Slug
  <2>2. BaseSlug(name).numbers \in Seq(Nat)
    BY <1>1 DEF Slug
  <2>3. Append(BaseSlug(name).numbers, suffix) # <<>>
    BY <2>2
  <2>4. \A w : Bare(w).numbers = <<>>
    BY DEF Bare
  <2> QED BY <2>1, <2>3, <2>4
<1> QED BY <1>3, <1>4

LEMMA CandidateType ==
    ASSUME NEW name \in Name, NEW suffix \in Nat
    PROVE  Candidate(name, suffix) \in Slug
<1>1. BaseSlug(name) \in Slug
  BY BaseType
<1>2. Append(BaseSlug(name).numbers, suffix) \in Seq(Nat)
  BY <1>1 DEF Slug
<1>3. [BaseSlug(name) EXCEPT !.numbers = Append(@, suffix)] \in Slug
  BY <1>1, <1>2 DEF Slug
<1> QED BY <1>1, <1>3 DEF Candidate

LEMMA Numbers ==
    /\ Requests \subseteq Orgs /\ Seeded \in Orgs /\ Seeded \notin Requests
    /\ Orgs \subseteq Nat
BY OrganizationsAssumption DEF Requests, Orgs, Seeded

-----------------------------------------------------------------------------
(* The parts of a step.                                                     *)

\* A step of request r that commits nothing.
LEMMA RequestStep ==
    ASSUME IInv, NEW r \in Requests, NEW q \in Request, RequestFits(q), Put(r, q),
           UNCHANGED <<organizations, memberships, admins>>,
           lost \subseteq lost', lost' \subseteq Requests,
           cookie' \in [Users -> Orgs \cup {NoCookie, Malformed}],
           writes' \in 0 .. MaxWrites, faults' \in 0 .. MaxFaults,
           q.pc # "reply",
           request[r].pc # "done",
           request[r].pc = "reply" => q.answer = "created" \/ r \in lost',
           q.answer = "created" => request[r].pc = "reply",
           q.pc \in {"membership", "commit"} =>
               /\ Candidate(q.name, q.suffix) \notin Committed
               /\ \A s \in Open : s # r => SlugOf(s) # Candidate(q.name, q.suffix)
    PROVE  IInv'
<1>1. /\ request' \in [Requests -> Request] /\ request'[r] = q
      /\ \A s \in Requests : s # r => request'[s] = request[s]
  BY DEF IInv, TypeOK, Put
<1>2. TypeOK'
  BY <1>1 DEF IInv, TypeOK
<1>3. RequestsFit'
  BY <1>1 DEF IInv, RequestsFit, RequestFits
<1>4. Replied' /\ AdminsKnown' /\ MembersWereAdmitted'
  BY <1>1 DEF IInv, Replied, AdminsKnown, MembersWereAdmitted
<1>5. SlugLeadsToOnePage'
  <2>1. Committed' = Committed
    BY DEF Committed
  <2>2. \A s \in Open' : s # r => s \in Open /\ SlugOf(s)' = SlugOf(s)
    BY <1>1 DEF Open, SlugOf
  <2>3. r \in Open' => /\ q.pc \in {"membership", "commit"}
                       /\ SlugOf(r)' = Candidate(q.name, q.suffix)
    BY <1>1 DEF Open, SlugOf
  <2>4. \A s \in Open' : SlugOf(s)' \notin Committed'
    BY <2>1, <2>2, <2>3 DEF IInv, SlugLeadsToOnePage
  <2>5. \A s, u \in Open' : SlugOf(s)' = SlugOf(u)' => s = u
    BY <2>2, <2>3 DEF IInv, SlugLeadsToOnePage
  <2>6. /\ \A o, p \in organizations' : o.slug = p.slug => o = p
        /\ \A o \in organizations' : o.slug \in {Bare(w) : w \in AppRoutes} => o.renamed
    BY DEF IInv, SlugLeadsToOnePage
  <2> QED BY <2>4, <2>5, <2>6 DEF SlugLeadsToOnePage
<1>6. CreationIsAccountedFor'
  <2>1. ASSUME NEW o \in organizations, o.id # Seeded
        PROVE  request'[o.id].pc = "reply" \/ request'[o.id].answer = "created"
               \/ o.id \in lost'
    <3>1. o.id \in Requests
      BY <2>1, OrganizationsAssumption
         DEF IInv, TypeOK, Organization, Orgs, Requests, Seeded
    <3>2. request[o.id].pc = "reply" \/ request[o.id].answer = "created" \/ o.id \in lost
      BY <2>1 DEF IInv, CreationIsAccountedFor
    <3>3. request[r].answer # "created"
      BY DEF IInv, RequestsFit, RequestFits
    <3> QED BY <1>1, <3>1, <3>2, <3>3
  <2>2. ASSUME NEW s \in Requests, request'[s].answer = "created"
        PROVE  \E o \in organizations : o.id = s
    BY <1>1, <2>2 DEF IInv, CreationIsAccountedFor, Replied
  <2>3. \A o \in organizations : <<o.by, o.id>> \in admins
    BY DEF IInv, CreationIsAccountedFor
  <2> QED BY <2>1, <2>2, <2>3 DEF CreationIsAccountedFor
<1> QED BY <1>2, <1>3, <1>4, <1>5, <1>6 DEF IInv

\* A request that is answered keeps nothing else.
LEMMA AnswerType ==
    ASSUME NEW answer \in Answer
    PROVE  LET q == [Unused EXCEPT !.pc = "done", !.answer = answer]
           IN q \in Request /\ RequestFits(q) /\ q.pc = "done" /\ q.answer = answer
<1>1. NoName \in Name
  <2>1. Bare("") \in Slug
    <3>1. "" \in STRING
      BY StringsAssumption
    <3> QED BY <3>1, BareType
  <2> QED BY <2>1 DEF NoName, Name
<1>2. Unused \in Request
  BY <1>1 DEF Unused, Request, Step, Answer
<1> QED BY <1>2 DEF Request, RequestFits, Step

-----------------------------------------------------------------------------
(* The steps of a request.                                                  *)

LEMMA InitIInv == Init => IInv
<1> SUFFICES ASSUME Init PROVE IInv
  OBVIOUS
<1>1. Unused \in Request /\ RequestFits(Unused) /\ Unused.pc = "unused"
      /\ Unused.answer = "none"
  <2>1. NoName \in Name
    <3>1. Bare("") \in Slug
      BY StringsAssumption, BareType
    <3> QED BY <3>1 DEF NoName, Name
  <2> QED BY <2>1 DEF Unused, Request, RequestFits, Step, Answer
<1>2. /\ request \in [Requests -> Request] /\ RequestsFit /\ Replied /\ Open = {}
      /\ \A r \in Requests : request[r].answer # "created"
  BY <1>1 DEF Init, RequestsFit, Replied, Open
<1>3. /\ cookie \in [Users -> Orgs \cup {NoCookie, Malformed}] /\ lost \subseteq Requests
      /\ writes \in 0 .. MaxWrites /\ faults \in 0 .. MaxFaults
  <2>1. 0 \in 0 .. MaxWrites /\ 0 \in 0 .. MaxFaults
    BY OrganizationsAssumption
  <2> QED BY <2>1 DEF Init
<1>4. CASE organizations = {} /\ memberships = {} /\ admins = {}
  BY <1>2, <1>3, <1>4
     DEF IInv, TypeOK, AdminsKnown, SlugLeadsToOnePage, CreationIsAccountedFor,
         MembersWereAdmitted
<1>5. ASSUME NEW owner \in Users, NEW member \in Users, owner # member,
             SeedRows(owner, member)
      PROVE  IInv
  <2> DEFINE slug == Bare("template-org")
             name == [zod |-> 12, sql |-> 12, base |-> slug]
             o == [id |-> Seeded, slug |-> slug, name |-> name, by |-> owner,
                   renamed |-> FALSE]
             m1 == [user |-> owner, org |-> Seeded, role |-> "owner", by |-> owner]
             m2 == [user |-> member, org |-> Seeded, role |-> "member", by |-> owner]
  <2>1. slug \in Slug
    BY StringsAssumption, BareType
  <2>2. o \in Organization /\ o.slug = slug /\ o.id = Seeded /\ o.by = owner
    <3> HIDE DEF slug
    <3> QED BY <2>1, Numbers DEF Organization, Name
  <2>3. m1 \in Membership /\ m2 \in Membership
    BY Numbers DEF Membership, Roles
  <2>4. organizations = {o} /\ memberships = {m1, m2} /\ admins = {<<owner, Seeded>>}
    BY <1>5 DEF SeedRows
  <2>5. slug \notin {Bare(w) : w \in AppRoutes}
    BY DEF Bare, AppRoutes
  <2>6. /\ m1.user = owner /\ m1.org = Seeded /\ m1.by = owner /\ m1.role = "owner"
        /\ m2.user = member /\ m2.org = Seeded /\ m2.by = owner /\ m2.role = "member"
    OBVIOUS
  <2> HIDE DEF o, slug, m1, m2
  <2>7. TypeOK
    BY <1>2, <1>3, <2>2, <2>3, <2>4, Numbers DEF TypeOK
  <2>8. SlugLeadsToOnePage
    BY <1>2, <2>2, <2>4, <2>5 DEF SlugLeadsToOnePage
  <2>9. CreationIsAccountedFor
    BY <1>2, <2>2, <2>4 DEF CreationIsAccountedFor
  <2>10. AdminsKnown /\ MembersWereAdmitted
    BY <1>5, <2>2, <2>4, <2>6 DEF AdminsKnown, MembersWereAdmitted
  <2> QED BY <1>2, <2>7, <2>8, <2>9, <2>10 DEF IInv
<1> QED BY <1>4, <1>5 DEF Init

\* What the invariant says of one request.
LEMMA RequestType ==
    ASSUME IInv, NEW r \in Requests
    PROVE  /\ request[r] \in Request /\ RequestFits(request[r])
           /\ request[r].name \in Name /\ request[r].suffix \in Nat
           /\ request[r].pc # "done" => request[r].answer = "none"
BY DEF IInv, TypeOK, RequestsFit, RequestFits, Request

LEMMA Counters ==
    ASSUME IInv
    PROVE  /\ faults < MaxFaults => faults + 1 \in 0 .. MaxFaults
           /\ writes < MaxWrites => writes + 1 \in 0 .. MaxWrites
           /\ cookie \in [Users -> Orgs \cup {NoCookie, Malformed}]
           /\ writes \in 0 .. MaxWrites /\ faults \in 0 .. MaxFaults
           /\ lost \subseteq Requests
BY OrganizationsAssumption DEF IInv, TypeOK

LEMMA Submits ==
    ASSUME IInv, NEW r \in Requests, NEW u \in Users \cup {NoUser}, NEW name \in Names,
           Submit(r, u, name)
    PROVE  IInv'
<1>1. /\ request[r].pc = "unused" /\ cookie' = Repaired(u)
      /\ UNCHANGED <<organizations, memberships, admins, lost, writes, faults>>
  BY DEF Submit, ghosts
<1>2. cookie' \in [Users -> Orgs \cup {NoCookie, Malformed}]
  BY <1>1, Counters DEF Repaired
<1>3. CASE Put(r, [Unused EXCEPT !.pc = "rpc", !.user = u, !.name = name])
  <2> DEFINE q == [Unused EXCEPT !.pc = "rpc", !.user = u, !.name = name]
  <2>1. name \in Name
    BY OrganizationsAssumption
  <2>2. q \in Request /\ RequestFits(q) /\ q.pc = "rpc" /\ q.answer = "none"
    BY <2>1 DEF Unused, Request, RequestFits, Step, Answer
  <2> HIDE DEF q
  <2> QED BY <1>1, <1>2, <1>3, <2>2, Counters, RequestStep DEF q
<1>4. CASE Answers(r, "invalid-input")
  <2> DEFINE q == [Unused EXCEPT !.pc = "done", !.answer = "invalid-input"]
  <2>1. q \in Request /\ RequestFits(q) /\ q.pc = "done" /\ q.answer = "invalid-input"
    BY AnswerType DEF Answer
  <2>2. Put(r, q)
    BY <1>4 DEF Answers
  <2> HIDE DEF q
  <2> QED BY <1>1, <1>2, <2>1, <2>2, Counters, RequestStep
<1> QED BY <1>3, <1>4 DEF Submit

\* A request that ends: with what it had created, or with nothing.
LEMMA Ends ==
    ASSUME IInv, NEW r \in Requests, NEW answer \in Answer, Answers(r, answer),
           UNCHANGED <<organizations, memberships, admins, writes>>,
           request[r].pc # "done",
           cookie' \in [Users -> Orgs \cup {NoCookie, Malformed}],
           faults' \in 0 .. MaxFaults,
           lost \subseteq lost', lost' \subseteq Requests,
           request[r].pc = "reply" => answer = "created" \/ r \in lost',
           answer = "created" => request[r].pc = "reply"
    PROVE  IInv'
<1> DEFINE q == [Unused EXCEPT !.pc = "done", !.answer = answer]
<1>1. q \in Request /\ RequestFits(q) /\ q.pc = "done" /\ q.answer = answer
  BY AnswerType
<1>2. Put(r, q)
  BY DEF Answers
<1> HIDE DEF q
<1> QED BY <1>1, <1>2, Counters, RequestStep

LEMMA Replies ==
    ASSUME IInv, NEW r \in Requests, Reply(r) \/ LoseReply(r)
    PROVE  IInv'
<1>1. CASE Reply(r)
  <2>1. /\ request[r].pc = "reply" /\ Answers(r, "created")
        /\ cookie' = [cookie EXCEPT ![request[r].user] = r]
        /\ UNCHANGED <<organizations, memberships, admins, lost, writes, faults>>
    BY <1>1 DEF Reply, ghosts
  <2>2. cookie' \in [Users -> Orgs \cup {NoCookie, Malformed}] /\ "created" \in Answer
    BY <2>1, Numbers, Counters DEF Answer
  <2> QED BY <2>1, <2>2, Counters, Ends
<1>2. CASE LoseReply(r)
  <2>1. /\ request[r].pc = "reply" /\ Answers(r, "unexpected")
        /\ faults' \in 0 .. MaxFaults /\ lost' = lost \cup {r}
        /\ UNCHANGED <<organizations, memberships, admins, cookie, writes>>
    BY <1>2, Counters DEF LoseReply
  <2>2. "unexpected" \in Answer
    BY DEF Answer
  <2> QED BY <2>1, <2>2, Counters, Ends
<1> QED BY <1>1, <1>2

LEMMA RollsBack ==
    ASSUME IInv, NEW r \in Requests, Rollback(r)
    PROVE  IInv'
<1>1. /\ request[r].pc \in {"insert", "membership", "commit"} /\ Answers(r, "unexpected")
      /\ faults' \in 0 .. MaxFaults
      /\ UNCHANGED <<organizations, memberships, admins, lost, cookie, writes>>
  BY Counters DEF Rollback, ghosts
<1>2. "unexpected" \in Answer
  BY DEF Answer
<1> QED BY <1>1, <1>2, Counters, Ends

LEMMA Begins ==
    ASSUME IInv, NEW r \in Requests, BeginRpc(r)
    PROVE  IInv'
<1>1. /\ request[r].pc = "rpc"
      /\ UNCHANGED <<organizations, memberships, cookie, admins, lost, writes, faults>>
  BY DEF BeginRpc, ghosts
<1>2. CASE Answers(r, "unexpected")
  <2>1. "unexpected" \in Answer
    BY DEF Answer
  <2> QED BY <1>1, <1>2, <2>1, Counters, Ends
<1>3. CASE /\ request[r].user # NoUser
           /\ Put(r, [request[r] EXCEPT !.pc = "insert",
                                        !.suffix = FirstSuffix(request[r].name)])
  <2> DEFINE n == FirstSuffix(request[r].name)
             q == [request[r] EXCEPT !.pc = "insert", !.suffix = n]
  <2>1. n \in Nat
    BY DEF FirstSuffix
  <2> HIDE DEF n
  <2>2. /\ q \in Request /\ q.pc = "insert" /\ q.answer = "none" /\ q.suffix = n
        /\ q.name = request[r].name /\ q.user = request[r].user
    BY <1>1, <2>1, RequestType DEF Request, Step
  <2>3. q.user \in Users
    BY <1>3, <2>2 DEF Request
  <2> HIDE DEF q
  <2>4. RequestFits(q)
    BY <2>1, <2>2, <2>3 DEF RequestFits, n
  <2>5. Put(r, q)
    BY <1>3 DEF q, n
  <2> QED BY <1>1, <2>2, <2>4, <2>5, Counters, RequestStep
<1> QED BY <1>2, <1>3 DEF BeginRpc

LEMMA Inserts ==
    ASSUME IInv, NEW r \in Requests, InsertOrganization(r) \/ InsertMembership(r)
    PROVE  IInv'
<1>1. UNCHANGED <<organizations, memberships, cookie, admins, lost, writes, faults>>
  BY DEF InsertOrganization, InsertMembership, ghosts
<1>2. ASSUME NEW n \in Nat, n >= request[r].suffix,
             request[r].pc \in {"insert", "membership"},
             NEW step \in {"insert", "membership", "commit"},
             Put(r, [request[r] EXCEPT !.pc = step, !.suffix = n]),
             step # "insert" => /\ n = request[r].suffix /\ SlugOf(r) \notin Committed
                                /\ \A s \in Open : s # r => SlugOf(s) # SlugOf(r)
      PROVE  IInv'
  <2> DEFINE q == [request[r] EXCEPT !.pc = step, !.suffix = n]
  <2>1. /\ q \in Request /\ q.pc = step /\ q.answer = "none" /\ q.suffix = n
        /\ q.name = request[r].name /\ q.user = request[r].user
    BY <1>2, RequestType DEF Request, Step
  <2> HIDE DEF q
  <2>2. request[r].suffix >= FirstSuffix(request[r].name) /\ request[r].user \in Users
    BY <1>2, RequestType DEF RequestFits
  <2>3. n >= FirstSuffix(request[r].name)
    <3>1. FirstSuffix(request[r].name) \in Nat /\ request[r].suffix \in Nat
      BY RequestType DEF FirstSuffix
    <3> QED BY <1>2, <2>2, <3>1
  <2>4. RequestFits(q)
    BY <2>1, <2>2, <2>3 DEF RequestFits
  <2>5. Put(r, q)
    BY <1>2 DEF q
  <2>6. step # "insert" => Candidate(q.name, q.suffix) = SlugOf(r)
    BY <1>2, <2>1 DEF SlugOf
  <2> QED BY <1>1, <1>2, <2>1, <2>4, <2>5, <2>6, Counters, RequestStep
<1>3. ASSUME NEW step, GoTo(r, step)
      PROVE  Put(r, [request[r] EXCEPT !.pc = step, !.suffix = request[r].suffix])
  <2>1. [request[r] EXCEPT !.pc = step]
          = [request[r] EXCEPT !.pc = step, !.suffix = request[r].suffix]
    BY RequestType DEF Request
  <2> QED BY <1>3, <2>1 DEF GoTo
<1>4. CASE InsertMembership(r)
  <2>1. request[r].pc = "membership" /\ GoTo(r, "commit") /\ r \in Open
    BY <1>4 DEF InsertMembership, Open
  <2>2. /\ SlugOf(r) \notin Committed
        /\ \A s \in Open : s # r => SlugOf(s) # SlugOf(r)
    BY <2>1 DEF IInv, SlugLeadsToOnePage
  <2>3. request[r].suffix \in Nat /\ request[r].suffix >= request[r].suffix
    BY RequestType
  <2> QED BY <1>2, <1>3, <2>1, <2>2, <2>3
<1>5. CASE InsertOrganization(r)
  <2>1. request[r].pc = "insert" /\ SlugOf(r) \notin Held
    BY <1>5 DEF InsertOrganization
  <2>2. CASE SlugOf(r) \in Committed
    <3> DEFINE n == NextSuffix(r)
    <3>1. n \in Nat /\ n >= request[r].suffix
      BY RequestType DEF NextSuffix
    <3>2. Put(r, [request[r] EXCEPT !.suffix = n])
      BY <1>5, <2>2 DEF InsertOrganization
    <3> HIDE DEF n
    <3>3. [request[r] EXCEPT !.suffix = n] = [request[r] EXCEPT !.pc = "insert", !.suffix = n]
      BY <2>1, RequestType DEF Request
    <3>4. Put(r, [request[r] EXCEPT !.pc = "insert", !.suffix = n])
      BY <3>2, <3>3
    <3> QED BY <1>2, <2>1, <3>1, <3>4
  <2>3. CASE SlugOf(r) \notin Committed
    <3>1. GoTo(r, "membership")
      BY <1>5, <2>3 DEF InsertOrganization
    <3>2. \A s \in Open : s # r => SlugOf(s) # SlugOf(r)
      BY <2>1 DEF Held
    <3>3. request[r].suffix \in Nat /\ request[r].suffix >= request[r].suffix
      BY RequestType
    <3> QED BY <1>2, <1>3, <2>1, <2>3, <3>1, <3>2, <3>3
  <2> QED BY <2>2, <2>3
<1> QED BY <1>4, <1>5
\* The organization is there with its owner, and the reply is due.
LEMMA Commits ==
    ASSUME IInv, NEW r \in Requests, Commit(r)
    PROVE  IInv'
<1> DEFINE o == NewOrganization(r)
           m == OwnerMembership(r)
           q == [request[r] EXCEPT !.pc = "reply"]
<1>1. /\ request[r].pc = "commit" /\ organizations' = organizations \cup {o}
      /\ memberships' = memberships \cup {m}
      /\ admins' = admins \cup {<<request[r].user, r>>}
      /\ request' = [request EXCEPT ![r] = q]
      /\ UNCHANGED <<cookie, lost, writes, faults>>
  BY DEF Commit, GoTo, Put
<1>2. /\ request[r].user \in Users /\ request[r].answer = "none"
      /\ request[r].name \in Name /\ request[r].suffix \in Nat
      /\ request[r].suffix >= FirstSuffix(request[r].name)
      /\ request[r] \in Request
  BY <1>1, RequestType DEF RequestFits
<1>3. /\ SlugOf(r) \in Slug /\ r \in Orgs /\ r # Seeded
      /\ SlugOf(r) \notin {Bare(w) : w \in AppRoutes}
  BY <1>2, CandidateType, NoRoute, Numbers DEF SlugOf
<1>4. /\ o.id = r /\ o.slug = SlugOf(r) /\ o.by = request[r].user /\ o \in Organization
  BY <1>2, <1>3 DEF NewOrganization, Organization
<1>5. /\ m.user = request[r].user /\ m.org = r /\ m.by = request[r].user
      /\ m.role = "owner" /\ m \in Membership
  BY <1>2, <1>3 DEF OwnerMembership, Membership, Roles
<1>6. q \in Request /\ q.pc = "reply" /\ q.answer = "none" /\ q.user = request[r].user
  BY <1>2 DEF Request, Step
<1> HIDE DEF o, m, q
<1>7. /\ request' \in [Requests -> Request] /\ request'[r] = q
      /\ \A s \in Requests : s # r => request'[s] = request[s]
  BY <1>1, <1>6 DEF IInv, TypeOK
<1>8. TypeOK'
  BY <1>1, <1>2, <1>3, <1>4, <1>5, <1>7 DEF IInv, TypeOK
<1>9. RequestsFit'
  BY <1>2, <1>6, <1>7 DEF IInv, RequestsFit, RequestFits
<1>10. Replied'
  BY <1>1, <1>4, <1>7 DEF IInv, Replied
<1>11. AdminsKnown'
  BY <1>1, <1>5 DEF IInv, AdminsKnown
<1>12. MembersWereAdmitted'
  <2>1. \E p \in organizations' : p.id = m.org /\ p.by = m.user
    BY <1>1, <1>4, <1>5
  <2>2. ASSUME NEW n \in memberships
        PROVE  \/ \E p \in organizations' : p.id = n.org /\ p.by = n.user
               \/ n.by # n.user /\ <<n.by, n.org>> \in admins'
    BY <1>1 DEF IInv, MembersWereAdmitted
  <2> QED BY <1>1, <2>1, <2>2 DEF MembersWereAdmitted
<1>13. CreationIsAccountedFor'
  <2>1. ASSUME NEW p \in organizations'
        PROVE  /\ <<p.by, p.id>> \in admins'
               /\ p.id # Seeded => \/ request'[p.id].pc = "reply"
                                  \/ request'[p.id].answer = "created"
                                  \/ p.id \in lost'
    <3>1. CASE p = o
      BY <1>1, <1>4, <1>6, <1>7, <3>1
    <3>2. CASE p \in organizations
      <4>1. p.id # Seeded => p.id \in Requests
        BY <3>2, OrganizationsAssumption
           DEF IInv, TypeOK, Organization, Orgs, Requests, Seeded
      <4>2. /\ <<p.by, p.id>> \in admins
            /\ p.id # Seeded => \/ request[p.id].pc = "reply"
                               \/ request[p.id].answer = "created"
                               \/ p.id \in lost
        BY <3>2 DEF IInv, CreationIsAccountedFor
      <4> QED BY <1>1, <1>6, <1>7, <4>1, <4>2
    <3> QED BY <1>1, <2>1, <3>1, <3>2
  <2>2. ASSUME NEW s \in Requests, request'[s].answer = "created"
        PROVE  \E p \in organizations' : p.id = s
    BY <1>1, <1>6, <1>7, <2>2 DEF IInv, CreationIsAccountedFor
  <2> QED BY <2>1, <2>2 DEF CreationIsAccountedFor
<1>14. SlugLeadsToOnePage'
  <2>1. r \in Open /\ SlugOf(r) \notin Committed
    BY <1>1 DEF IInv, SlugLeadsToOnePage, Open
  <2>2. \A s \in Open' : s \in Open /\ s # r /\ SlugOf(s)' = SlugOf(s)
    BY <1>6, <1>7 DEF Open, SlugOf
  <2>3. Committed' = Committed \cup {SlugOf(r)}
    BY <1>1, <1>4 DEF Committed
  <2>4. \A s \in Open' : SlugOf(s)' \notin Committed'
    BY <2>1, <2>2, <2>3 DEF IInv, SlugLeadsToOnePage
  <2>5. \A s, t \in Open' : SlugOf(s)' = SlugOf(t)' => s = t
    BY <2>2 DEF IInv, SlugLeadsToOnePage
  <2>6. \A p \in organizations : p.slug # o.slug
    BY <1>4, <2>1 DEF Committed
  <2>7. \A p, p2 \in organizations' : p.slug = p2.slug => p = p2
    BY <1>1, <2>6 DEF IInv, SlugLeadsToOnePage
  <2>8. \A p \in organizations' : p.slug \in {Bare(w) : w \in AppRoutes} => p.renamed
    BY <1>1, <1>3, <1>4 DEF IInv, SlugLeadsToOnePage
  <2> QED BY <2>4, <2>5, <2>7, <2>8 DEF SlugLeadsToOnePage
<1> QED BY <1>8, <1>9, <1>10, <1>11, <1>12, <1>13, <1>14 DEF IInv

-----------------------------------------------------------------------------
(* What members write.                                                      *)

\* A writer who is owner or manager is known as one.
LEMMA Writers ==
    ASSUME IInv, NEW u, NEW o, is_org_admin(memberships, u, o)
    PROVE  <<u, o>> \in admins /\ \E m \in memberships : m.user = u /\ m.org = o
BY DEF IInv, AdminsKnown, is_org_admin

\* The row that a write leaves or makes, and who let it be.
Admitted(m) ==
    \/ \E o \in organizations : o.id = m.org /\ o.by = m.user
    \/ m.by # m.user /\ <<m.by, m.org>> \in admins

LEMMA WriteStep ==
    ASSUME IInv, NEW u \in Users, NEW rows, WriteMemberships(u, rows),
           rows \subseteq Membership, \A m \in rows : Admitted(m)
    PROVE  IInv'
<1>1. /\ writes < MaxWrites /\ writes' = writes + 1 /\ memberships' = rows
      /\ admins' = admins \cup {<<m.user, m.org>> : m \in {n \in rows : n.role # "member"}}
      /\ UNCHANGED <<organizations, request, cookie, lost, faults>>
  BY DEF WriteMemberships
<1>2. admins \subseteq admins' /\ admins' \subseteq Users \X Orgs
  BY <1>1 DEF IInv, TypeOK, Membership
<1>3. writes' \in 0 .. MaxWrites
  BY <1>1, Counters
<1>4. TypeOK'
  BY <1>1, <1>2, <1>3 DEF IInv, TypeOK
<1>5. RequestsFit' /\ Replied' /\ AdminsKnown'
  BY <1>1 DEF IInv, RequestsFit, Replied, AdminsKnown
<1>6. SlugLeadsToOnePage'
  BY <1>1 DEF IInv, SlugLeadsToOnePage, Open, SlugOf, Committed
<1>7. CreationIsAccountedFor'
  BY <1>1, <1>2 DEF IInv, CreationIsAccountedFor
<1>8. MembersWereAdmitted'
  BY <1>1, <1>2 DEF MembersWereAdmitted, Admitted
<1> QED BY <1>4, <1>5, <1>6, <1>7, <1>8 DEF IInv

LEMMA MembersAdmitted ==
    ASSUME IInv
    PROVE  memberships \subseteq Membership /\ \A m \in memberships : Admitted(m)
BY DEF IInv, TypeOK, MembersWereAdmitted, Admitted

\* Who is added is somebody else: the writer has a row already.
LEMMA Adds ==
    ASSUME IInv, NEW u \in Users, NEW v \in Users, NEW o \in organizations,
           NEW role \in Roles,
           AddMember(u, [user |-> v, org |-> o.id, role |-> role, by |-> u])
    PROVE  IInv'
<1> DEFINE new == [user |-> v, org |-> o.id, role |-> role, by |-> u]
<1>1. o.id \in Orgs
  BY DEF IInv, TypeOK, Organization
<1>2. new \in Membership /\ new.user = v /\ new.org = o.id /\ new.by = u
  BY <1>1 DEF Membership
<1>3. /\ is_org_admin(memberships, u, new.org) /\ Fits(memberships, new)
      /\ WriteMemberships(u, memberships \cup {new})
  BY DEF AddMember, memberships_insert
<1> HIDE DEF new
<1>4. u # v /\ <<u, o.id>> \in admins
  BY <1>2, <1>3, Writers DEF Fits
<1>5. Admitted(new)
  BY <1>2, <1>4 DEF Admitted
<1> QED BY <1>2, <1>3, <1>5, MembersAdmitted, WriteStep

\* A row that becomes another's or another organization's is a new one to them.
LEMMA Changes ==
    ASSUME IInv, NEW u \in Users, NEW old \in memberships, NEW v \in Users,
           NEW o \in organizations, NEW role \in Roles,
           ChangeMember(u, old,
              [user |-> v, org |-> o.id, role |-> role,
               by |-> IF v = old.user /\ o.id = old.org THEN old.by ELSE u])
    PROVE  IInv'
<1> DEFINE by == IF v = old.user /\ o.id = old.org THEN old.by ELSE u
           new == [user |-> v, org |-> o.id, role |-> role, by |-> by]
<1>1. o.id \in Orgs /\ by \in Users
  BY DEF IInv, TypeOK, Organization, Membership
<1>2. /\ v = old.user /\ o.id = old.org => by = old.by
      /\ ~ (v = old.user /\ o.id = old.org) => by = u
  OBVIOUS
<1> HIDE DEF by
<1>3. new \in Membership /\ new.user = v /\ new.org = o.id /\ new.by = by
  BY <1>1 DEF Membership
<1>4. /\ is_org_admin(memberships, u, new.org) /\ Fits(memberships \ {old}, new)
      /\ WriteMemberships(u, (memberships \ {old}) \cup {new})
  BY DEF ChangeMember, memberships_update, by
<1> HIDE DEF new
<1>5. Admitted(new)
  <2>1. CASE v = old.user /\ o.id = old.org
    <3>1. Admitted(old)
      BY MembersAdmitted
    <3> QED BY <1>2, <1>3, <2>1, <3>1 DEF Admitted
  <2>2. CASE ~ (v = old.user /\ o.id = old.org)
    <3>0. \E m \in memberships : m.user = u /\ m.org = o.id
      BY <1>3, <1>4 DEF is_org_admin
    <3>1. PICK m \in memberships : m.user = u /\ m.org = o.id
      BY <3>0
    <3>2. <<u, o.id>> \in admins
      BY <1>3, <1>4, Writers
    <3>3. u # v
      BY <1>3, <1>4, <2>2, <3>1 DEF Fits
    <3> QED BY <1>2, <1>3, <2>2, <3>2, <3>3 DEF Admitted
  <2> QED BY <2>1, <2>2
<1> QED BY <1>3, <1>4, <1>5, MembersAdmitted, WriteStep

LEMMA Removes ==
    ASSUME IInv, NEW u \in Users, NEW old \in memberships, RemoveMember(u, old)
    PROVE  IInv'
BY MembersAdmitted, WriteStep DEF RemoveMember

LEMMA Renames ==
    ASSUME IInv, NEW u \in Users, NEW o \in organizations, NEW slug \in NewSlugs,
           UpdateOrganization(u, o, slug)
    PROVE  IInv'
<1> DEFINE p == [o EXCEPT !.slug = slug, !.renamed = TRUE]
<1>1. /\ organizations' = (organizations \ {o}) \cup {p}
      /\ slug \notin Committed \cup Held
      /\ writes' \in 0 .. MaxWrites
      /\ UNCHANGED <<memberships, request, cookie, admins, lost, faults>>
  BY Counters DEF UpdateOrganization
<1>2. slug \in Slug
  BY OrganizationsAssumption
<1>3. /\ p \in Organization /\ p.id = o.id /\ p.by = o.by /\ p.slug = slug
      /\ p.renamed = TRUE
  BY <1>2 DEF IInv, TypeOK, Organization
<1> HIDE DEF p
<1>4. TypeOK' /\ RequestsFit' /\ AdminsKnown'
  BY <1>1, <1>3 DEF IInv, TypeOK, RequestsFit, AdminsKnown
<1>5. Replied'
  BY <1>1, <1>3 DEF IInv, Replied
<1>6. MembersWereAdmitted'
  BY <1>1, <1>3 DEF IInv, MembersWereAdmitted
<1>7. CreationIsAccountedFor'
  BY <1>1, <1>3 DEF IInv, CreationIsAccountedFor
<1>8. SlugLeadsToOnePage'
  <2>1. Open' = Open /\ \A s \in Open : SlugOf(s)' = SlugOf(s)
    BY <1>1 DEF Open, SlugOf
  <2>2. Committed' \subseteq Committed \cup {slug}
    BY <1>1, <1>3 DEF Committed
  <2>3. \A s \in Open : SlugOf(s) # slug
    BY <1>1 DEF Held
  <2>4. \A s \in Open' : SlugOf(s)' \notin Committed'
    BY <2>1, <2>2, <2>3 DEF IInv, SlugLeadsToOnePage
  <2>5. \A s, t \in Open' : SlugOf(s)' = SlugOf(t)' => s = t
    BY <2>1 DEF IInv, SlugLeadsToOnePage
  <2>6. \A q \in organizations : q.slug # slug
    BY <1>1 DEF Committed
  <2>7. /\ \A q, q2 \in organizations' : q.slug = q2.slug => q = q2
        /\ \A q \in organizations' : q.slug \in {Bare(w) : w \in AppRoutes} => q.renamed
    BY <1>1, <1>3, <2>6 DEF IInv, SlugLeadsToOnePage
  <2> QED BY <2>4, <2>5, <2>7 DEF SlugLeadsToOnePage
<1> QED BY <1>4, <1>5, <1>6, <1>7, <1>8 DEF IInv

LEMMA NextIInv == IInv /\ [Next]_vars => IInv'
<1>1. ASSUME IInv, NEW u \in Users, MemberWrites(u) PROVE IInv'
  BY <1>1, Adds, Changes, Removes, Renames DEF MemberWrites
<1>2. CASE IInv /\ UNCHANGED vars
  <2>1. UNCHANGED <<organizations, memberships, request, cookie, admins, lost, writes, faults>>
    BY <1>2 DEF vars, ghosts
  <2> QED BY <1>2, <2>1
          DEF IInv, TypeOK, RequestsFit, Replied, AdminsKnown, SlugLeadsToOnePage,
              CreationIsAccountedFor, MembersWereAdmitted, Open, SlugOf, Committed
<1> QED BY <1>1, <1>2, Submits, Begins, Inserts, Commits, RollsBack, Replies
        DEF Next, RpcStep

-----------------------------------------------------------------------------
(* The policies and can().                                                  *)

\* What can() reads of its table for the actions the policies are about.
LEMMA Table ==
    /\ CanTable["org:read"] = Roles
    /\ \A action \in ForManagers : CanTable[action] = {"owner", "manager"}
    /\ CanTable["member:change-role"] = {"owner"}
BY DEF CanTable, ForManagers, ForOwners

\* A reader is a member, since every role may read.
LEMMA Readers ==
    ASSUME TypeOK, NEW u, NEW o
    PROVE  is_member_of(memberships, u, o) <=> can(memberships, u, o, "org:read")
<1>1. \A m \in memberships : m.role \in Roles
  BY DEF TypeOK, Membership
<1> QED BY <1>1, Table DEF is_member_of, can

LEMMA Managers ==
    ASSUME NEW u, NEW o, NEW action \in ForManagers
    PROVE  is_org_admin(memberships, u, o) <=> can(memberships, u, o, action)
BY Table DEF is_org_admin, can

\* Action by action, what the policies answer is what can() answers, or is
\* withheld, or is what can() answers about an invitation.
LEMMA PoliciesAgree == TypeOK => RlsAgreesWithCan
<1> DEFINE Agree(u, o, action) ==
               \A answer \in RlsAnswers(memberships, u, o, action) :
                   answer <=>
                       /\ action \notin Withheld
                       /\ can(memberships, u, o, IF action = "member:change-role"
                                                 THEN "member:invite" ELSE action)
<1> SUFFICES ASSUME TypeOK, NEW u \in Users, NEW o \in Orgs, NEW action \in DOMAIN CanTable
             PROVE  Agree(u, o, action)
  BY DEF RlsAgreesWithCan
<1> DEFINE row(role) == [user |-> u, org |-> o, role |-> role]
<1>1. \A role : row(role).org = o
  OBVIOUS
<1>2. \A a \in ForManagers : is_org_admin(memberships, u, o) <=> can(memberships, u, o, a)
  BY Managers
<1>3. CASE action = "org:read"
  BY <1>3, Readers DEF RlsAnswers, Withheld, organizations_select, entitlements_select
<1>4. CASE action \in Withheld
  <2>1. RlsAnswers(memberships, u, o, action) = {FALSE}
    <3>1. CASE action = "org:delete"
      BY <3>1 DEF RlsAnswers, organizations_delete
    <3>2. CASE action = "billing:manage"
      BY <3>2 DEF RlsAnswers, billing_accounts_write
    <3>3. CASE action = "flag:override"
      BY <3>3 DEF RlsAnswers, flag_overrides_write
    <3> QED BY <1>4, <3>1, <3>2, <3>3 DEF Withheld
  <2> QED BY <1>4, <2>1
<1>5. CASE action = "member:change-role"
  <2>1. RlsAnswers(memberships, u, o, action)
            = {memberships_update(memberships, u, row(was), row(is)) : was, is \in Roles}
    BY <1>5 DEF RlsAnswers
  <2>2. \A was, is \in Roles : memberships_update(memberships, u, row(was), row(is))
                                  <=> is_org_admin(memberships, u, o)
    BY <1>1 DEF memberships_update
  <2>3. "member:invite" \in ForManagers /\ action \notin Withheld
    BY <1>5 DEF ForManagers, Withheld
  <2> HIDE DEF row
  <2> QED BY <1>2, <1>5, <2>1, <2>2, <2>3
<1>6. CASE action \in ForManagers
  <2>1. action \notin Withheld /\ action # "member:change-role"
    BY <1>6 DEF ForManagers, Withheld
  <2>2. \A role \in Roles : /\ memberships_insert(memberships, u, row(role))
                                  <=> is_org_admin(memberships, u, o)
                            /\ memberships_delete(memberships, u, row(role))
                                  <=> is_org_admin(memberships, u, o)
    BY <1>1 DEF memberships_insert, memberships_delete
  <2>3. CASE action = "member:invite"
    <3>1. RlsAnswers(memberships, u, o, action) =
            {memberships_insert(memberships, u, row(role)) : role \in Roles} \cup
            {invitations_select(memberships, u, o), invitations_insert(memberships, u, o),
             invitations_update(memberships, u, o, o), invitations_delete(memberships, u, o)}
      BY <2>3 DEF RlsAnswers
    <3> HIDE DEF row
    <3> QED BY <1>2, <1>6, <2>1, <2>2, <3>1
            DEF invitations_select, invitations_insert, invitations_update, invitations_delete
  <2>4. CASE action = "member:remove"
    <3>1. RlsAnswers(memberships, u, o, action) =
            {memberships_delete(memberships, u, row(role)) : role \in Roles}
      BY <2>4 DEF RlsAnswers
    <3> HIDE DEF row
    <3> QED BY <1>2, <1>6, <2>1, <2>2, <3>1
  <2>5. CASE action \in {"org:update", "billing:read", "invoice:read"}
    BY <1>2, <1>6, <2>1, <2>5
       DEF RlsAnswers, organizations_update, billing_accounts_select, invoices_select,
           tax_documents_select
  <2> QED BY <1>6, <2>3, <2>4, <2>5 DEF ForManagers
<1> QED BY <1>3, <1>4, <1>5, <1>6 DEF CanTable, ForManagers, ForOwners, Withheld

\* The rows that go and come are of organizations where u is owner or manager.
LEMMA RowWithin ==
    ASSUME NEW u, NEW gone, NEW came,
           memberships' = (memberships \ gone) \cup came,
           \A m \in gone \cup came : is_org_admin(memberships, u, m.org)
    PROVE  RowsWithin(u)
<1>1. \A m \in gone \cup came : /\ can(memberships, u, m.org, "member:invite")
                                /\ can(memberships, u, m.org, "member:remove")
  BY Managers DEF ForManagers
<1>2. \A m \in memberships' : ~IsIn(memberships, m) => m \in came
  BY DEF IsIn
<1>3. \A m \in memberships : ~IsIn(memberships', m) => m \in gone
  BY DEF IsIn
<1>4. memberships \ memberships' \subseteq gone
  OBVIOUS
<1> QED BY <1>1, <1>2, <1>3, <1>4 DEF RowsWithin

\* A write of a member is one of four statements.
LEMMA WriteWithinCan ==
    ASSUME NEW u \in Users, MemberWrites(u)
    PROVE  RowsWithin(u) /\ OrganizationsWithin(u)
<1>1. organizations' = organizations => OrganizationsWithin(u)
  BY DEF OrganizationsWithin
<1>2. ASSUME NEW new, AddMember(u, new)
      PROVE  RowsWithin(u) /\ OrganizationsWithin(u)
  <2>1. /\ memberships' = (memberships \ {}) \cup {new} /\ organizations' = organizations
        /\ is_org_admin(memberships, u, new.org)
    BY <1>2 DEF AddMember, WriteMemberships, memberships_insert
  <2>2. \A m \in {} \cup {new} : is_org_admin(memberships, u, m.org)
    BY <2>1
  <2> QED BY <1>1, <2>1, <2>2, RowWithin
<1>3. ASSUME NEW old, NEW new, ChangeMember(u, old, new)
      PROVE  RowsWithin(u) /\ OrganizationsWithin(u)
  <2>1. /\ memberships' = (memberships \ {old}) \cup {new} /\ organizations' = organizations
        /\ is_org_admin(memberships, u, old.org) /\ is_org_admin(memberships, u, new.org)
    BY <1>3 DEF ChangeMember, WriteMemberships, memberships_update
  <2>2. \A m \in {old} \cup {new} : is_org_admin(memberships, u, m.org)
    BY <2>1
  <2> QED BY <1>1, <2>1, <2>2, RowWithin
<1>4. ASSUME NEW old, RemoveMember(u, old)
      PROVE  RowsWithin(u) /\ OrganizationsWithin(u)
  <2>1. /\ memberships' = (memberships \ {old}) \cup {} /\ organizations' = organizations
        /\ is_org_admin(memberships, u, old.org)
    BY <1>4 DEF RemoveMember, WriteMemberships, memberships_delete
  <2>2. \A m \in {old} \cup {} : is_org_admin(memberships, u, m.org)
    BY <2>1
  <2> QED BY <1>1, <2>1, <2>2, RowWithin
<1>5. ASSUME NEW o \in organizations, NEW slug, UpdateOrganization(u, o, slug)
      PROVE  RowsWithin(u) /\ OrganizationsWithin(u)
  <2> DEFINE p == [o EXCEPT !.slug = slug, !.renamed = TRUE]
  <2>1. /\ organizations' = (organizations \ {o}) \cup {p} /\ memberships' = memberships
        /\ is_org_admin(memberships, u, o.id)
    BY <1>5 DEF UpdateOrganization, organizations_update
  <2>2. p.id = o.id
    OBVIOUS
  <2>3. can(memberships, u, o.id, "org:update")
    BY <2>1, Managers DEF ForManagers
  <2> HIDE DEF p
  <2> QED BY <2>1, <2>2, <2>3 DEF OrganizationsWithin, RowsWithin, IsIn
<1> QED BY <1>2, <1>3, <1>4, <1>5 DEF MemberWrites

-----------------------------------------------------------------------------
(* The theorems.                                                            *)

LEMMA IInvAlways == Spec => []IInv
<1>1. Init => IInv
  BY InitIInv
<1>2. IInv /\ [Next]_vars => IInv'
  BY NextIInv
<1> QED BY <1>1, <1>2, PTL DEF Spec

\* Rows, requests and cookies keep their types whatever the requests and the
\* members do.
THEOREM TypeCorrect == Spec => []TypeOK
<1>1. IInv => TypeOK
  BY DEF IInv
<1> QED BY <1>1, IInvAlways, PTL

\* However many requests of create_organization wait for each other, go on to
\* the next suffix, commit or roll back, while members rename: no slug is two
\* organizations', and none the RPC chose is a route of the application.
THEOREM SlugsLeadToOnePage == Spec => []SlugLeadsToOnePage
<1>1. IInv => SlugLeadsToOnePage
  BY DEF IInv
<1> QED BY <1>1, IInvAlways, PTL

\* An organization has had its creator as owner, and its creator was answered
\* so unless the reply was lost; what was answered is there.
THEOREM CreationsAccounted == Spec => []CreationIsAccountedFor
<1>1. IInv => CreationIsAccountedFor
  BY DEF IInv
<1> QED BY <1>1, IInvAlways, PTL

\* Under the policies of the migrations nobody gets into an organization
\* without its creation or an owner or manager of it.
THEOREM NobodyLetsHimselfIn == Spec => []MembersWereAdmitted
<1>1. IInv => MembersWereAdmitted
  BY DEF IInv
<1> QED BY <1>1, IInvAlways, PTL

\* The policies of the migrations and the table of can.ts agree on every
\* membership the system can come to have, but for what no policy grants and
\* the change of a role.
THEOREM PoliciesAgreeWithCan == Spec => []RlsAgreesWithCan
<1>1. IInv => RlsAgreesWithCan
  BY PoliciesAgree DEF IInv
<1> QED BY <1>1, IInvAlways, PTL

\* What a member's statement does to the rows of an organization is what can()
\* lets him do there, whichever row it starts from; but for a change of role.
THEOREM MembersWriteWithinCan == Spec => WritesWithinCan
<1>1. \A u \in Users : MemberWrites(u) => RowsWithin(u) /\ OrganizationsWithin(u)
  BY WriteWithinCan
<1>2. Spec => [][\A u \in Users : MemberWrites(u) =>
                     RowsWithin(u) /\ OrganizationsWithin(u)]_vars
  BY <1>1, PTL DEF Spec
<1> QED BY <1>2 DEF WritesWithinCan
=============================================================================
