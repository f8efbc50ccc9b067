---------------------------- MODULE MCLocalSetup -----------------------------
(***************************************************************************)
(* A small instance of LocalSetup: the four surfaces with their schemas, of *)
(* which a pull brings one variable; the developer edits the secret and the *)
(* stack's address.                                                         *)
(***************************************************************************)
EXTENDS LocalSetup

MCSurfaces == <<Web, Admin, WorkerNode, WorkerPy>>
MCNewest == {"STRIPE_SECRET_KEY"}
MCEdited == {Hook, "SUPABASE_URL"}
=============================================================================
