-------------------------- MODULE MCOrganizations ---------------------------
(***************************************************************************)
(* Small instances of Organizations.  The names are chosen so that they     *)
(* collide: one twice, one that is the other's first suffix, a route of the *)
(* application, and one of two UTF-16 units that is one character.          *)
(***************************************************************************)
EXTENDS Organizations

CONSTANTS u1, u2

Acme == [zod |-> 4, sql |-> 4, base |-> Bare("acme")]
Acme1 == [zod |-> 6, sql |-> 6,
          base |-> [text |-> "acme", numbers |-> <<1>>]]
Auth == [zod |-> 4, sql |-> 4, base |-> Bare("auth")]
Smiley == [zod |-> 2, sql |-> 1, base |-> Bare("")]

MCUsers == {u1, u2}
MCNames == {Acme, Acme1, Auth, Smiley}
MCNewSlugs == {Bare("auth"), Bare("acme")}
=============================================================================
