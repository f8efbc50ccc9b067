--------------------------- MODULE OrganizationList ---------------------------
(***************************************************************************)
(* The list of organizations that an operator searches and turns the pages  *)
(* of (apps/admin/lib/data/organizations.ts and app/organizations/page.tsx). *)
(*                                                                         *)
(* Organizations are numbered in the order of created_at, which no two of   *)
(* them share, and are never deleted.  The table is the sequence of their   *)
(* names and slugs, oldest first.  A text is a sequence of characters; case, *)
(* which ilike ignores, is left out, and a search is what trim() has left   *)
(* of it.                                                                   *)
(***************************************************************************)
EXTENDS Integers, FiniteSets, SequencesExt

CONSTANTS
    Texts,              \* the names with their slugs that one may be given
    AtFirst,            \* the organizations that are there at the beginning
    MaxOrganizations,   \* bound: organizations
    PageSize            \* ORG_PAGE_SIZE

ASSUME OrganizationListAssumption ==
    /\ Texts \subseteq [name : Seq(STRING), slug : Seq(STRING)]
    /\ MaxOrganizations \in Nat
    /\ AtFirst \in Seq(Texts) /\ Len(AtFirst) <= MaxOrganizations
    /\ PageSize \in Nat \ {0}

Created == 1 .. MaxOrganizations
Wildcards == {"%", "_", "\\"}

\* A character that ilike would take for a wildcard has a backslash put before.
Escape(char) == IF char \in Wildcards THEN <<"\\", char>> ELSE <<char>>
escapeLike(search) ==
    LET Escaped[k \in 0 .. Len(search)] ==
            IF k = 0 THEN <<>> ELSE Escaped[k - 1] \o Escape(search[k])
    IN Escaped[Len(search)]

\* The operator of PostgreSQL.  Like[p] are the positions of the text from
\* which the rest of it is what the pattern from p on describes.
ILike(text, pattern) ==
    LET Like[p \in 1 .. Len(pattern) + 2] ==
            IF p > Len(pattern) THEN {Len(text) + 1}
            ELSE IF pattern[p] = "%"
            THEN {i \in 1 .. Len(text) + 1 : \E j \in Like[p + 1] : i <= j}
            ELSE IF pattern[p] = "\\"
            THEN {i \in 1 .. Len(text) : /\ p < Len(pattern) /\ pattern[p + 1] = text[i]
                                         /\ i + 1 \in Like[p + 2]}
            ELSE {i \in 1 .. Len(text) : /\ pattern[p] \in {"_", text[i]}
                                         /\ i + 1 \in Like[p + 1]}
    IN 1 \in Like[1]

\* The where clause of a row, and what it leaves of the table, the newest first.
Where(row, search) ==
    LET pattern == <<"%">> \o escapeLike(search) \o <<"%">>
    IN \/ search = <<>>
       \/ ILike(row.name, pattern)
       \/ ILike(row.slug, pattern)
Found(all, search) ==
    LET Rows[m \in 0 .. Len(all)] ==
            IF m = 0 THEN <<>>
            ELSE IF Where(all[m], search) THEN <<m>> \o Rows[m - 1]
            ELSE Rows[m - 1]
    IN Rows[Len(all)]

\* Deviation: pages are counted from nought.
OffsetFromZero(page) == page * PageSize

\* Number(page) || 1, cut off and not below 1: not a number is 0 here.
PageNumber(raw) == IF raw < 1 THEN 1 ELSE raw
Offset(page) == (page - 1) * PageSize

listOrganizations(all, search, page) ==
    LET found == Found(all, search)
        rest == SubSeq(found, Offset(page) + 1, Len(found))
    IN SubSeq(rest, 1, IF Len(rest) < PageSize THEN Len(rest) ELSE PageSize)

hasNext(page, total) == page * PageSize < total
hasPrevious(page) == page > 1

\* What a search should find, said without a pattern.
HasPart(text, part) ==
    \E i \in 0 .. Len(text) - Len(part) : SubSeq(text, i + 1, i + Len(part)) = part
Has(row, search) == HasPart(row.name, search) \/ HasPart(row.slug, search)
Named(all, search) == {o \in DOMAIN all : Has(all[o], search)}
=============================================================================
