----------------------------- MODULE LocalSetup ------------------------------
(***************************************************************************)
(* The local stack's set-up: scripts/setup.ts and scripts/write-env-local.ts, *)
(* the .env.local files they fill in from the schemas of packages/env, and  *)
(* the secret that the auth service signs the send-email hook with and the  *)
(* web application verifies it with.                                        *)
(*                                                                         *)
(* Both scripts run commands and write files one after the other and stop   *)
(* at the first that fails, so a file written is an action and a script may *)
(* stop between any two.  The Supabase CLI is not in the repository: its    *)
(* stack reads supabase/.env when it boots, and `supabase start` leaves a   *)
(* stack that is up alone.                                                  *)
(***************************************************************************)
EXTENDS Naturals, Sequences

CONSTANTS
    Surfaces,    \* the targets, in the order they are written
    Newest,      \* the variables that a pull brings
    Edited,      \* the variables that the developer touches
    MaxMints,    \* bound: secrets made up
    MaxRuns,     \* bound: scripts started
    MaxEdits     \* bound: what the developer does in between

Web == "apps/web/.env.local"
Admin == "apps/admin/.env.local"
WorkerNode == "services/worker-node/.env.local"
WorkerPy == "services/worker-py/.env.local"
Targets == {Surfaces[i] : i \in 1 .. Len(Surfaces)}

-----------------------------------------------------------------------------
(* The schemas of packages/env.  A variable with a default is optional.     *)

Hook == "SEND_EMAIL_HOOK_SECRET"

sharedServer ==
    [required |-> {"SUPABASE_URL", "SUPABASE_SERVICE_ROLE_KEY"},
     optional |-> {"NODE_ENV", "RELEASE", "SENTRY_DSN", "OTEL_EXPORTER_OTLP_ENDPOINT"}]
sharedClient ==
    [required |-> {"NEXT_PUBLIC_SUPABASE_URL", "NEXT_PUBLIC_SUPABASE_PUBLISHABLE_KEY"},
     optional |-> {}]
mail == {"RESEND_API_KEY", "MAIL_PROVIDER", "SMTP_HOST", "SMTP_PORT"}
upstash == {"UPSTASH_REDIS_REST_URL", "UPSTASH_REDIS_REST_TOKEN"}
webServer ==
    [required |-> {"STRIPE_SECRET_KEY", "STRIPE_WEBHOOK_SECRET"},
     optional |-> mail \cup upstash
                    \cup {Hook, "AUTH_EMAIL_FROM", "POSTHOG_PROJECT_API_KEY"}]
webClient ==
    [required |-> {"NEXT_PUBLIC_SITE_URL"},
     optional |-> {"NEXT_PUBLIC_STRIPE_PUBLISHABLE_KEY", "NEXT_PUBLIC_POSTHOG_KEY",
                   "NEXT_PUBLIC_POSTHOG_HOST"}]
adminServer ==
    [required |-> {"ADMIN_DATABASE_URL"},
     optional |-> mail \cup upstash
                    \cup {"STRIPE_SECRET_KEY", "STRIPE_WEBHOOK_SECRET",
                          "OPERATOR_EMAIL_FROM"}]
adminClient == [required |-> {"NEXT_PUBLIC_SITE_URL"}, optional |-> {}]
workerServer ==
    [required |-> {"WORKER_DATABASE_URL"},
     optional |-> {"WORKER_HEALTH_PORT", "WORKER_QUEUES", "SHUTDOWN_GRACE_SECONDS"}]
workerNodeServer ==
    [workerServer EXCEPT !.optional = @ \cup {"STRIPE_SECRET_KEY", "RESEND_API_KEY"}]

describeSchema(parts) ==
    [required |-> UNION {p.required : p \in parts},
     optional |-> UNION {p.optional : p \in parts}]
SchemaOf(t) ==
    CASE t = Web -> describeSchema({sharedServer, webServer, sharedClient, webClient})
      [] t = Admin -> describeSchema({sharedServer, adminServer, sharedClient, adminClient})
      [] t = WorkerNode -> describeSchema({sharedServer, workerNodeServer})
      [] OTHER -> describeSchema({sharedServer, workerServer})
Names(t) == SchemaOf(t).required \cup SchemaOf(t).optional
Vars == UNION {Names(t) : t \in Targets}

\* The variables each schema has an example of.  The others' is empty, as
\* none of them is an enumeration, a number or a boolean.
sharedExamples == (sharedServer.required \cup sharedClient.required)
                      \cup {"NODE_ENV", "SENTRY_DSN"}
webExamples ==
    {"STRIPE_SECRET_KEY", "STRIPE_WEBHOOK_SECRET", "MAIL_PROVIDER", "SMTP_HOST",
     "SMTP_PORT", Hook, "AUTH_EMAIL_FROM"} \cup webClient.required \cup webClient.optional
adminExamples ==
    {"ADMIN_DATABASE_URL", "MAIL_PROVIDER", "SMTP_HOST", "SMTP_PORT",
     "NEXT_PUBLIC_SITE_URL", "OPERATOR_EMAIL_FROM"}
workerExamples == workerServer.required \cup workerServer.optional
Unexampled(t) ==
    Names(t) \ (sharedExamples \cup CASE t = Web -> webExamples
                                       [] t = Admin -> adminExamples
                                       [] OTHER -> workerExamples)

\* What the Python worker reads its environment into: its fields without a
\* default.  The other surfaces validate with the schema itself.
Settings == {"SUPABASE_URL", "SUPABASE_SERVICE_ROLE_KEY", "WORKER_DATABASE_URL"}
RequiredToBoot(t) == IF t = WorkerPy THEN Settings ELSE SchemaOf(t).required

\* A value: no line, a line without one, blanked or typed in by the developer,
\* an example, one of the stack's, or a secret.
Absent == [kind |-> "absent"]
Empty == [kind |-> "empty"]
Blank == [kind |-> "blank"]
Typed == [kind |-> "typed"]
TheExample == [kind |-> "example"]
OfStack == [kind |-> "status"]
Minted(n) == [kind |-> "minted", n |-> n]
IsSet(value) == value \notin {Absent, Empty, Blank}

ASSUME LocalSetupAssumption ==
    /\ Surfaces \in Seq({Web, Admin, WorkerNode, WorkerPy})
    /\ Web \in Targets
    /\ Newest \subseteq Vars \ {Hook} /\ Edited \subseteq Vars
    /\ MaxMints \in Nat /\ MaxRuns \in Nat /\ MaxEdits \in Nat

VARIABLES
    schema,       \* the variables of each surface, as checked out
    supabaseEnv,  \* the secret in supabase/.env
    envLocal,     \* per target, the value of every variable
    stack,        \* Absent when down, else the secret it booted with
    script,       \* the script that runs or ran last
    meddled,      \* observed: the secret has had a value from elsewhere
    mints, runs, edits  \* the bounds used up

vars == <<schema, supabaseEnv, envLocal, stack, script, meddled,
          mints, runs, edits>>

Pcs == {"idle", "ensure", "start", "status", "write", "done"}

\* A fresh clone.
Init ==
    /\ schema = [t \in Targets |-> Names(t) \ Newest]
    /\ supabaseEnv = Absent
    /\ envLocal = [t \in Targets |-> [v \in Vars |-> Absent]]
    /\ stack = Absent
    /\ script = [kind |-> "setup", pc |-> "idle", secret |-> Absent, next |-> 1]
    /\ meddled = FALSE
    /\ mints = 0 /\ runs = 0 /\ edits = 0

Running == script.pc \notin {"idle", "done"}

-----------------------------------------------------------------------------
(* The scripts.                                                             *)

\* Installing the dependencies changes nothing here.
Start(kind, pc) ==
    /\ ~ Running /\ runs < MaxRuns
    /\ runs' = runs + 1
    /\ script' = [kind |-> kind, pc |-> pc, secret |-> Absent, next |-> 1]
    /\ UNCHANGED <<schema, supabaseEnv, envLocal, stack, meddled, mints, edits>>

\* Deviation: what an interrupted run left in supabase/.env is not looked at.
EnsureFromWebOnly(web, supabase, fresh) == IF IsSet(web) THEN web ELSE fresh

\* Web's own value first, then the one GoTrue has, and only then a new one.
EnsuredSecret(web, supabase, fresh) ==
    IF IsSet(web) THEN web ELSE IF IsSet(supabase) THEN supabase ELSE fresh

ensureHookSecret ==
    LET web == envLocal[Web][Hook]
        secret == EnsuredSecret(web, supabaseEnv, Minted(mints + 1))
    IN /\ script.pc = "ensure"
       /\ secret = Minted(mints + 1) => mints < MaxMints
       /\ mints' = IF secret = Minted(mints + 1) THEN mints + 1 ELSE mints
       /\ supabaseEnv' = secret
       /\ script' = [script EXCEPT !.pc = "start", !.secret = secret]
       /\ UNCHANGED <<schema, envLocal, stack, meddled, runs, edits>>

\* supabase start, and what follows it and changes nothing here: db reset,
\* the generated types and the examples.
startStack ==
    /\ script.pc = "start"
    /\ stack' = IF stack = Absent THEN supabaseEnv ELSE stack
    /\ script' = [script EXCEPT !.pc = "status"]
    /\ UNCHANGED <<schema, supabaseEnv, envLocal, meddled, mints, runs, edits>>

\* Asked of a stack that is down, the CLI fails, and the script with it.
readSupabaseStatus ==
    /\ script.pc = "status" /\ stack # Absent
    /\ script' = [script EXCEPT !.pc = "write"]
    /\ UNCHANGED <<schema, supabaseEnv, envLocal, stack, meddled, mints, runs, edits>>

FromStatus == {"SUPABASE_URL", "NEXT_PUBLIC_SUPABASE_URL",
               "SUPABASE_SERVICE_ROLE_KEY", "NEXT_PUBLIC_SUPABASE_PUBLISHABLE_KEY",
               "WORKER_DATABASE_URL", "ADMIN_DATABASE_URL"}

\* The value of a variable that has no line yet.  Only setup.ts knows of the
\* secret; to write-env-local.ts it is a variable like any other.
NewValue(t, v) ==
    IF v \in FromStatus THEN OfStack
    ELSE IF v = Hook /\ script.kind = "setup" THEN script.secret
    ELSE IF v \in Unexampled(t) THEN Empty ELSE TheExample

\* Deviation: a file that is there is left alone.
KeepFile(t) ==
    IF \E v \in Vars : envLocal[t][v] # Absent THEN envLocal[t]
    ELSE [v \in Vars |-> IF v \in schema[t] THEN NewValue(t, v) ELSE Absent]

\* The file is written anew from the schema: a line that is there is kept,
\* blank or not, and a line that is not in the schema is dropped.
Merged(t) ==
    [v \in Vars |-> IF v \notin schema[t] THEN Absent
                    ELSE IF envLocal[t][v] # Absent
                    THEN envLocal[t][v] ELSE NewValue(t, v)]

writeEnvLocal ==
    LET t == Surfaces[script.next]
        last == script.next = Len(Surfaces)
    IN /\ script.pc = "write"
       /\ envLocal' = [envLocal EXCEPT ![t] = Merged(t)]
       /\ script' = [script EXCEPT !.pc = IF last THEN "done" ELSE "write",
                                   !.next = IF last THEN @ ELSE @ + 1]
       /\ meddled' = (meddled \/ /\ t = Web /\ script.kind = "env:local"
                                 /\ envLocal[Web][Hook] = Absent)
       /\ UNCHANGED <<schema, supabaseEnv, stack, mints, runs, edits>>

\* A command fails or the script is interrupted.
Stop ==
    /\ Running
    /\ script' = [script EXCEPT !.pc = "idle"]
    /\ UNCHANGED <<schema, supabaseEnv, envLocal, stack, meddled, mints, runs, edits>>

-----------------------------------------------------------------------------
(* The developer, between two scripts.                                      *)

Do == ~ Running /\ edits < MaxEdits /\ edits' = edits + 1

Edit(t, v, value) ==
    /\ Do
    /\ v \in schema[t] /\ envLocal[t][v] # Absent
    /\ envLocal' = [envLocal EXCEPT ![t][v] = value]
    /\ script' = [script EXCEPT !.pc = "idle"]
    /\ meddled' = (meddled \/ v = Hook)
    /\ UNCHANGED <<schema, supabaseEnv, stack, mints, runs>>

DeleteEnvLocal(t) ==
    /\ Do
    /\ envLocal' = [envLocal EXCEPT ![t] = [v \in Vars |-> Absent]]
    /\ script' = [script EXCEPT !.pc = "idle"]
    /\ UNCHANGED <<schema, supabaseEnv, stack, meddled, mints, runs>>

StopStack ==
    /\ Do
    /\ stack' = Absent
    /\ UNCHANGED <<schema, supabaseEnv, envLocal, script, meddled, mints, runs>>

Pull ==
    /\ Do
    /\ schema' = [t \in Targets |-> Names(t)]
    /\ script' = [script EXCEPT !.pc = "idle"]
    /\ UNCHANGED <<supabaseEnv, envLocal, stack, meddled, mints, runs>>

Next ==
    \/ Start("setup", "ensure")
    \/ Start("env:local", "status")
    \/ ensureHookSecret
    \/ startStack
    \/ readSupabaseStatus
    \/ writeEnvLocal
    \/ Stop
    \/ \E t \in Targets, v \in Edited, value \in {Blank, Typed} : Edit(t, v, value)
    \/ \E t \in Targets : DeleteEnvLocal(t)
    \/ StopStack
    \/ Pull

Spec == Init /\ [][Next]_vars

-----------------------------------------------------------------------------
(* Properties.                                                              *)

\* When setup has come to its end, however many runs before it were cut short,
\* the web application verifies with the secret of supabase/.env, unless the
\* developer blanked it; and if the secret has had no value from elsewhere
\* (an edit, or env:local before setup wrote it), the stack that is up signs
\* with it too (setup.ts: ensureHookSecret, writeEnvLocal).
SecretIsShared ==
    LET web == envLocal[Web][Hook]
    IN script.kind = "setup" /\ script.pc = "done" =>
          /\ IsSet(web) => web = supabaseEnv
          /\ ~ meddled => IsSet(web) /\ stack \in {Absent, web}

\* When a script has come to its end, every application and worker boots: it
\* finds all it requires, unless the developer blanked it, and whatever a pull
\* has added since the file was first written (describe.ts; setup.ts:
\* re-running picks up newly-required variables; settings.py, which keeps the
\* fields of the schema once more).
EverySurfaceBoots ==
    script.pc = "done" =>
        \A t \in Targets : \A v \in RequiredToBoot(t) \cap schema[t] :
            envLocal[t][v] \notin {Absent, Empty}

\* No script changes a value that a variable of the checked-out schema has,
\* nor fills in a blank one (setup.ts, 12-local-dev.md: re-running does not
\* overwrite existing values).
ValuesAreKept ==
    [][\A t \in Targets : \A v \in schema[t] :
          envLocal[t][v] # Absent /\ Running => envLocal'[t][v] = envLocal[t][v]]_vars

=============================================================================
