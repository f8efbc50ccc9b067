------------------------------ MODULE Tenancy -------------------------------
(***************************************************************************)
(* Who may see and change what: the row-level security policies of the      *)
(* migrations, as predicates over the set of memberships, and the table     *)
(* can() of packages/auth/src/can.ts that answers the same question for     *)
(* the code.                                                                *)
(*                                                                         *)
(* A membership is a record with at least user, org and role.  A policy is  *)
(* named as in the migration that created it last: the `using` clause is    *)
(* over the row as it is, the `with check` clause over the row as it will   *)
(* be.  A command without a policy is refused to every user, and the        *)
(* service role passes them all by.                                         *)
(***************************************************************************)
Roles == {"owner", "manager", "member"}

\* The functions every policy is made of.  A caller without a session is no
\* user and has no memberships.
is_member_of(ms, u, o) == \E m \in ms : m.user = u /\ m.org = o

is_org_admin(ms, u, o) ==
    \E m \in ms : m.user = u /\ m.org = o /\ m.role \in {"owner", "manager"}

-----------------------------------------------------------------------------
(* The policies.                                                            *)

organizations_select(ms, u, o) == is_member_of(ms, u, o)
organizations_update(ms, u, o) == is_org_admin(ms, u, o)
organizations_no_client_insert == FALSE
organizations_delete == FALSE      \* no policy for the command

\* One sees oneself and everybody one shares an organization with.
profiles_select(ms, u, v) ==
    \/ u = v
    \/ \E m1, m2 \in ms : m1.org = m2.org /\ m1.user = u /\ m2.user = v
profiles_update_self(u, v) == u = v

\* All memberships of the organizations one is in, not only one's own.
memberships_select(ms, u, m) == is_member_of(ms, u, m.org)
memberships_insert(ms, u, new) == is_org_admin(ms, u, new.org)
\* Deviation: a `using` clause without `with check`.
MembershipsUpdateUsingOnly(ms, u, old, new) == is_org_admin(ms, u, old.org)
memberships_update(ms, u, old, new) ==
    is_org_admin(ms, u, old.org) /\ is_org_admin(ms, u, new.org)
memberships_delete(ms, u, old) == is_org_admin(ms, u, old.org)

invitations_select(ms, u, o) == is_org_admin(ms, u, o)
invitations_insert(ms, u, o) == is_org_admin(ms, u, o)
invitations_update(ms, u, old, new) ==
    is_org_admin(ms, u, old) /\ is_org_admin(ms, u, new)
invitations_delete(ms, u, o) == is_org_admin(ms, u, o)

entitlements_select(ms, u, o) == is_member_of(ms, u, o)
billing_accounts_select(ms, u, o) == is_org_admin(ms, u, o)
invoices_select(ms, u, o) == is_org_admin(ms, u, o)
tax_documents_select(ms, u, o) == is_org_admin(ms, u, o)

\* These two tables have a policy for select only.
billing_accounts_write == FALSE
flag_overrides_write == FALSE

-----------------------------------------------------------------------------
(* The table of can.ts: which roles an action is for.                       *)

ForManagers == {"org:update", "member:invite", "member:remove",
                "billing:read", "invoice:read"}
ForOwners == {"org:delete", "member:change-role", "billing:manage",
              "flag:override"}

CanTable ==
    [action \in {"org:read"} \cup ForManagers \cup ForOwners |->
        CASE action \in ForOwners -> {"owner"}
          [] action \in ForManagers -> {"owner", "manager"}
          [] OTHER -> Roles]

\* can(membership, action): nobody without a membership may do anything.
can(ms, u, o, action) ==
    \E m \in ms : m.user = u /\ m.org = o /\ m.role \in CanTable[action]

-----------------------------------------------------------------------------
(* The two side by side.                                                    *)

\* What the policies answer u about every write or read in o that an action of
\* can() stands for.
RlsAnswers(ms, u, o, action) ==
    LET row(role) == [user |-> u, org |-> o, role |-> role] IN
    CASE action = "org:read" ->
            {organizations_select(ms, u, o), entitlements_select(ms, u, o)}
      [] action = "org:update" -> {organizations_update(ms, u, o)}
      [] action = "org:delete" -> {organizations_delete}
      [] action = "member:invite" ->
            {memberships_insert(ms, u, row(role)) : role \in Roles} \cup
            {invitations_select(ms, u, o), invitations_insert(ms, u, o),
             invitations_update(ms, u, o, o), invitations_delete(ms, u, o)}
      [] action = "member:remove" ->
            {memberships_delete(ms, u, row(role)) : role \in Roles}
      [] action = "member:change-role" ->
            {memberships_update(ms, u, row(was), row(is)) : was, is \in Roles}
      [] action = "billing:read" -> {billing_accounts_select(ms, u, o)}
      [] action = "billing:manage" -> {billing_accounts_write}
      [] action = "invoice:read" ->
            {invoices_select(ms, u, o), tax_documents_select(ms, u, o)}
      [] action = "flag:override" -> {flag_overrides_write}
=============================================================================
