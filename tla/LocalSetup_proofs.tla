--------------------------- MODULE LocalSetup_proofs ---------------------------
(***************************************************************************)
(* What the set-up scripts leave behind, for any order of the targets, any  *)
(* number of runs, and whatever of them is cut short.                       *)
(*                                                                         *)
(* The inductive invariant follows a run: from ensureHookSecret on it has   *)
(* the secret of supabase/.env, and every target before the next one has    *)
(* been written.  Where no secret came from elsewhere, the web application  *)
(* and the stack have that of supabase/.env or none.                        *)
(***************************************************************************)
EXTENDS LocalSetup, TLAPS

Required(t) == SchemaOf(t).required
WebSecret == envLocal[Web][Hook]

WellFormed ==
    /\ schema \in [Targets -> SUBSET Vars] /\ Hook \in schema[Web]
    /\ envLocal = [t \in Targets |-> envLocal[t]]
    /\ \A t \in Targets : envLocal[t] = [v \in Vars |-> envLocal[t][v]]
    /\ script \in [kind : {"setup", "env:local"}, pc : Pcs, secret : {script.secret},
                   next : 1 .. Len(Surfaces)]
    /\ meddled \in BOOLEAN

\* What ensureHookSecret has made sure of.
Ensured ==
    script.kind = "setup" /\ script.pc \in {"start", "status", "write", "done"} =>
        (IsSet(WebSecret) => WebSecret = supabaseEnv)
Carried ==
    script.kind = "setup" /\ script.pc \in {"start", "status", "write"} =>
        script.secret = supabaseEnv /\ IsSet(script.secret)

\* Target t has a line for every variable of its schema.
WrittenTarget(t) == \A v \in schema[t] : envLocal[t][v] # Absent
Written ==
    /\ script.pc \in {"ensure", "start", "status"} => script.next = 1
    /\ script.pc = "write" =>
          \A i \in 1 .. script.next - 1 : WrittenTarget(Surfaces[i])
    /\ script.pc = "done" => \A t \in Targets : WrittenTarget(t)

\* A required variable never gets a line without a value.
Filled == \A t \in Targets : \A v \in Required(t) : envLocal[t][v] # Empty

Unmeddled ==
    /\ supabaseEnv = Absent \/ IsSet(supabaseEnv)
    /\ ~ meddled => WebSecret \in {Absent, supabaseEnv} /\ stack \in {Absent, supabaseEnv}

IInv == WellFormed /\ Ensured /\ Carried /\ Written /\ Filled /\ Unmeddled

-----------------------------------------------------------------------------
(* Values and schemas.                                                      *)

LEMMA Kinds ==
    /\ ~ IsSet(Absent) /\ ~ IsSet(Empty) /\ ~ IsSet(Blank) /\ IsSet(Typed)
    /\ IsSet(TheExample) /\ IsSet(OfStack) /\ \A n : IsSet(Minted(n))
    /\ Absent # Empty /\ Blank # Absent /\ Blank # Empty
<1>1. Absent.kind = "absent" /\ Empty.kind = "empty" /\ Blank.kind = "blank"
      /\ Typed.kind = "typed" /\ TheExample.kind = "example" /\ OfStack.kind = "status"
  BY DEF Absent, Empty, Blank, Typed, TheExample, OfStack
<1>2. \A n : Minted(n).kind = "minted"
  BY DEF Minted
<1>3. "absent" # "empty" /\ "absent" # "blank" /\ "empty" # "blank"
      /\ {"absent", "empty", "blank"} \cap {"typed", "example", "status", "minted"} = {}
  OBVIOUS
<1> QED BY <1>1, <1>2, <1>3 DEF IsSet

LEMMA SurfaceTypes ==
    /\ Len(Surfaces) \in Nat /\ Len(Surfaces) >= 1
    /\ \A i \in 1 .. Len(Surfaces) : Surfaces[i] \in Targets
    /\ \A t \in Targets : \E i \in 1 .. Len(Surfaces) : Surfaces[i] = t
<1>1. Surfaces \in Seq({Web, Admin, WorkerNode, WorkerPy}) /\ Web \in Targets
  BY LocalSetupAssumption
<1>2. Len(Surfaces) \in Nat
  BY <1>1
<1>3. PICK i \in 1 .. Len(Surfaces) : Surfaces[i] = Web
  BY <1>1 DEF Targets
<1> QED BY <1>2, <1>3 DEF Targets

LEMMA Described ==
    ASSUME NEW parts
    PROVE  /\ \A v : v \in describeSchema(parts).required
                       <=> \E p \in parts : v \in p.required
           /\ \A v : v \in describeSchema(parts).optional
                       <=> \E p \in parts : v \in p.optional
<1>1. /\ describeSchema(parts).required = UNION {p.required : p \in parts}
      /\ describeSchema(parts).optional = UNION {p.optional : p \in parts}
  BY DEF describeSchema
<1> QED BY <1>1

LEMMA Schema ==
    ASSUME NEW t
    PROVE  /\ t = Web => SchemaOf(t) = describeSchema({sharedServer, webServer,
                                                       sharedClient, webClient})
           /\ t = Admin => SchemaOf(t) = describeSchema({sharedServer, adminServer,
                                                         sharedClient, adminClient})
           /\ t = WorkerNode => SchemaOf(t) = describeSchema({sharedServer, workerNodeServer})
           /\ t \notin {Web, Admin, WorkerNode}
                 => SchemaOf(t) = describeSchema({sharedServer, workerServer})
BY DEF SchemaOf, Web, Admin, WorkerNode

\* The web application has the secret in its schema from the beginning on, and
\* no surface requires it or can do without an example of what it requires.
LEMMA Schemas ==
    /\ Hook \in Names(Web) \ Newest /\ Hook \in Vars
    /\ \A t \in Targets : Names(t) \subseteq Vars /\ Required(t) \subseteq Names(t)
    /\ Hook \notin FromStatus
    /\ \A t \in Targets : \A v \in Required(t) :
          v # Hook /\ (v \in FromStatus \/ v \notin Unexampled(t))
<1>1. Hook \in webServer.optional
  BY DEF webServer, Hook
<1>2. Hook \in Names(Web)
  <2>1. Hook \in describeSchema({sharedServer, webServer, sharedClient, webClient}).optional
    BY <1>1, Described
  <2>2. SchemaOf(Web) = describeSchema({sharedServer, webServer, sharedClient, webClient})
    BY Schema
  <2> QED BY <2>1, <2>2 DEF Names
<1>3. Hook \notin Newest /\ Web \in Targets
  BY LocalSetupAssumption
<1>4. \A t \in Targets : Names(t) \subseteq Vars /\ Required(t) \subseteq Names(t)
  BY DEF Vars, Names, Required
<1>5. Hook \notin FromStatus
  BY DEF Hook, FromStatus
<1>6. \A t \in Targets : \A v \in Required(t) :
          v # Hook /\ (v \in FromStatus \/ v \notin Unexampled(t))
  <2> SUFFICES ASSUME NEW t \in Targets, NEW v \in Required(t)
               PROVE  v # Hook /\ (v \in FromStatus \/ v \notin Unexampled(t))
    OBVIOUS
  <2>1. \/ v \in {"SUPABASE_URL", "SUPABASE_SERVICE_ROLE_KEY", "NEXT_PUBLIC_SUPABASE_URL",
                  "NEXT_PUBLIC_SUPABASE_PUBLISHABLE_KEY",
                  "ADMIN_DATABASE_URL", "WORKER_DATABASE_URL"}
        \/ /\ t = Web
           /\ v \in {"STRIPE_SECRET_KEY", "STRIPE_WEBHOOK_SECRET", "NEXT_PUBLIC_SITE_URL"}
        \/ t = Admin /\ v = "NEXT_PUBLIC_SITE_URL"
    <3>1. /\ sharedServer.required = {"SUPABASE_URL", "SUPABASE_SERVICE_ROLE_KEY"}
          /\ sharedClient.required = {"NEXT_PUBLIC_SUPABASE_URL",
                                      "NEXT_PUBLIC_SUPABASE_PUBLISHABLE_KEY"}
          /\ webServer.required = {"STRIPE_SECRET_KEY", "STRIPE_WEBHOOK_SECRET"}
          /\ webClient.required = {"NEXT_PUBLIC_SITE_URL"}
          /\ adminServer.required = {"ADMIN_DATABASE_URL"}
          /\ adminClient.required = {"NEXT_PUBLIC_SITE_URL"}
          /\ workerServer.required = {"WORKER_DATABASE_URL"}
      BY DEF sharedServer, sharedClient, webServer, webClient, adminServer, adminClient,
             workerServer
    <3>2. workerNodeServer.required = {"WORKER_DATABASE_URL"}
      BY DEF workerNodeServer, workerServer
    <3>3. CASE t = Web
      <4>1. \E p \in {sharedServer, webServer, sharedClient, webClient} : v \in p.required
        BY <3>3, Schema, Described DEF Required
      <4> QED BY <3>1, <3>3, <4>1
    <3>4. CASE t # Web /\ t = Admin
      <4>1. \E p \in {sharedServer, adminServer, sharedClient, adminClient} : v \in p.required
        BY <3>4, Schema, Described DEF Required
      <4> QED BY <3>1, <3>4, <4>1
    <3>5. CASE t # Web /\ t # Admin /\ t = WorkerNode
      <4>1. \E p \in {sharedServer, workerNodeServer} : v \in p.required
        BY <3>5, Schema, Described DEF Required
      <4> QED BY <3>1, <3>2, <4>1
    <3>6. CASE t # Web /\ t # Admin /\ t # WorkerNode
      <4>1. \E p \in {sharedServer, workerServer} : v \in p.required
        BY <3>6, Schema, Described DEF Required
      <4> QED BY <3>1, <4>1
    <3> QED BY <3>3, <3>4, <3>5, <3>6
  <2>2. v # Hook
    BY <2>1 DEF Hook
  <2>3. v \in FromStatus \/ v \notin Unexampled(t)
    <3>1. CASE v \in FromStatus
      BY <3>1
    <3>2. CASE t = Web /\ v \in {"STRIPE_SECRET_KEY", "STRIPE_WEBHOOK_SECRET",
                                "NEXT_PUBLIC_SITE_URL"}
      <4>1. v \in webExamples /\ t # Admin
        BY <3>2 DEF webExamples, webClient, Admin, Web
      <4> QED BY <3>2, <4>1 DEF Unexampled
    <3>3. CASE t = Admin /\ v = "NEXT_PUBLIC_SITE_URL"
      <4>1. v \in adminExamples /\ t # Web
        BY <3>3 DEF adminExamples, Admin, Web
      <4> QED BY <3>3, <4>1 DEF Unexampled
    <3> QED BY <2>1, <3>1, <3>2, <3>3 DEF FromStatus
  <2> QED BY <2>2, <2>3
<1> QED BY <1>2, <1>3, <1>4, <1>5, <1>6

-----------------------------------------------------------------------------
(* The steps.                                                               *)

LEMMA InitIInv == Init => IInv
<1> SUFFICES ASSUME Init PROVE IInv
  OBVIOUS
<1>1. Web \in Targets /\ Hook \in Vars
  BY LocalSetupAssumption, Schemas
<1>2. \A t \in Targets : Names(t) \ Newest \in SUBSET Vars
  BY Schemas
<1>3. schema \in [Targets -> SUBSET Vars] /\ Hook \in schema[Web]
  BY <1>1, <1>2, Schemas DEF Init
<1>4. /\ envLocal = [t \in Targets |-> envLocal[t]]
      /\ \A t \in Targets : \A v \in Vars : envLocal[t][v] = Absent
      /\ \A t \in Targets : envLocal[t] = [v \in Vars |-> envLocal[t][v]]
  BY DEF Init
<1>5. /\ script.kind = "setup" /\ script.pc = "idle" /\ script.secret = Absent
      /\ script.next = 1
      /\ script \in [kind : {"setup"}, pc : {"idle"}, secret : {Absent}, next : {1}]
  BY DEF Init
<1>6. 1 \in 1 .. Len(Surfaces)
  BY SurfaceTypes
<1>7. script \in [kind : {"setup", "env:local"}, pc : Pcs, secret : {script.secret},
                  next : 1 .. Len(Surfaces)]
  BY <1>5, <1>6 DEF Pcs
<1>8. WellFormed
  BY <1>3, <1>4, <1>7 DEF WellFormed, Init
<1>9. Filled
  <2>1. \A t \in Targets : \A v \in Required(t) : v \in Vars
    BY Schemas
  <2> QED BY <1>4, <2>1, Kinds DEF Filled
<1>10. Ensured /\ Carried /\ Written
  BY <1>5 DEF Ensured, Carried, Written
<1>11. Unmeddled
  BY <1>1, <1>4 DEF Unmeddled, WebSecret, Init
<1> QED BY <1>8, <1>9, <1>10, <1>11 DEF IInv

\* The steps that change no file.
LEMMA StartRun ==
    ASSUME IInv, Start("setup", "ensure") \/ Start("env:local", "status")
    PROVE  IInv'
<1> USE DEF IInv
<1>1. /\ script' \in [kind : {"setup", "env:local"}, pc : Pcs, secret : {script'.secret},
                      next : 1 .. Len(Surfaces)]
      /\ script'.next = 1
      /\ \/ script'.kind = "setup" /\ script'.pc = "ensure"
         \/ script'.kind = "env:local" /\ script'.pc = "status"
  <2>1. 1 \in 1 .. Len(Surfaces)
    BY SurfaceTypes
  <2> QED BY <2>1 DEF Start, Pcs
<1>2. UNCHANGED <<schema, supabaseEnv, envLocal, stack, meddled>>
  BY DEF Start
<1>3. WellFormed'
  BY <1>1, <1>2 DEF WellFormed
<1>4. Ensured' /\ Carried' /\ Written'
  BY <1>1 DEF Ensured, Carried, Written
<1>5. Filled' /\ Unmeddled'
  BY <1>2 DEF Filled, Unmeddled, WebSecret, Required
<1> QED BY <1>3, <1>4, <1>5

LEMMA Ensures ==
    ASSUME IInv, ensureHookSecret
    PROVE  IInv'
<1> USE DEF IInv
<1> DEFINE fresh == Minted(mints + 1)
           secret == EnsuredSecret(WebSecret, supabaseEnv, fresh)
<1>1. /\ script.pc = "ensure" /\ supabaseEnv' = secret
      /\ script' = [script EXCEPT !.pc = "start", !.secret = secret]
      /\ UNCHANGED <<schema, envLocal, stack, meddled>>
  BY DEF ensureHookSecret, WebSecret
<1>2. /\ IsSet(WebSecret) => secret = WebSecret
      /\ ~ IsSet(WebSecret) /\ IsSet(supabaseEnv) => secret = supabaseEnv
      /\ IsSet(secret)
  BY Kinds DEF EnsuredSecret
<1> HIDE DEF secret
<1>3. /\ script' \in [kind : {"setup", "env:local"}, pc : Pcs, secret : {script'.secret},
                      next : 1 .. Len(Surfaces)]
      /\ script'.pc = "start" /\ script'.secret = secret /\ script'.next = script.next
  BY <1>1 DEF WellFormed, Pcs
<1>4. WellFormed'
  BY <1>1, <1>3 DEF WellFormed
<1>5. WebSecret' = WebSecret
  BY <1>1 DEF WebSecret
<1>6. Ensured' /\ Carried' /\ Written'
  BY <1>1, <1>2, <1>3, <1>5 DEF Ensured, Carried, Written
<1>7. Filled'
  BY <1>1 DEF Filled, Required
<1>8. Unmeddled'
  <2>1. CASE meddled
    BY <1>1, <1>2, <2>1 DEF Unmeddled
  <2>2. CASE ~ meddled /\ IsSet(WebSecret)
    <3>1. WebSecret = supabaseEnv
      BY <2>2, Kinds DEF Unmeddled
    <3> QED BY <1>1, <1>2, <1>5, <2>2, <3>1 DEF Unmeddled
  <2>3. CASE ~ meddled /\ ~ IsSet(WebSecret) /\ IsSet(supabaseEnv)
    BY <1>1, <1>2, <1>5, <2>3 DEF Unmeddled
  <2>4. CASE ~ meddled /\ ~ IsSet(WebSecret) /\ supabaseEnv = Absent
    BY <1>1, <1>2, <1>5, <2>4 DEF Unmeddled
  <2> QED BY <2>1, <2>2, <2>3, <2>4 DEF Unmeddled
<1> QED BY <1>4, <1>6, <1>7, <1>8

LEMMA Boots ==
    ASSUME IInv, startStack
    PROVE  IInv'
<1> USE DEF IInv
<1>1. /\ script.pc = "start" /\ script' = [script EXCEPT !.pc = "status"]
      /\ stack' = IF stack = Absent THEN supabaseEnv ELSE stack
      /\ UNCHANGED <<schema, supabaseEnv, envLocal, meddled>>
  BY DEF startStack
<1>2. /\ script' \in [kind : {"setup", "env:local"}, pc : Pcs, secret : {script'.secret},
                      next : 1 .. Len(Surfaces)]
      /\ script'.pc = "status" /\ script'.secret = script.secret
      /\ script'.next = script.next
      /\ script'.kind = script.kind
  BY <1>1 DEF WellFormed, Pcs
<1>3. WellFormed'
  BY <1>1, <1>2 DEF WellFormed
<1>4. Ensured' /\ Carried' /\ Written'
  BY <1>1, <1>2 DEF Ensured, Carried, Written, WebSecret
<1>5. Filled' /\ Unmeddled'
  BY <1>1 DEF Filled, Unmeddled, WebSecret, Required
<1> QED BY <1>3, <1>4, <1>5

LEMMA ReadsStatus ==
    ASSUME IInv, readSupabaseStatus
    PROVE  IInv'
<1> USE DEF IInv
<1>1. /\ script.pc = "status" /\ script' = [script EXCEPT !.pc = "write"]
      /\ UNCHANGED <<schema, supabaseEnv, envLocal, stack, meddled>>
  BY DEF readSupabaseStatus
<1>2. /\ script' \in [kind : {"setup", "env:local"}, pc : Pcs, secret : {script'.secret},
                      next : 1 .. Len(Surfaces)]
      /\ script'.pc = "write" /\ script'.secret = script.secret
      /\ script'.kind = script.kind /\ script'.next = script.next
  BY <1>1 DEF WellFormed, Pcs
<1>3. WellFormed'
  BY <1>1, <1>2 DEF WellFormed
<1>4. Ensured' /\ Carried'
  BY <1>1, <1>2 DEF Ensured, Carried, WebSecret
<1>5. Written'
  BY <1>1, <1>2 DEF Written
<1>6. Filled' /\ Unmeddled'
  BY <1>1 DEF Filled, Unmeddled, WebSecret, Required
<1> QED BY <1>3, <1>4, <1>5, <1>6

\* What the file of a target t has after it has been written.
LEMMA Merges ==
    ASSUME IInv, script.pc = "write", NEW t \in Targets
    PROVE  /\ Merged(t) = [v \in Vars |-> Merged(t)[v]]
           /\ \A v \in schema[t] :
                 /\ Merged(t)[v] # Absent
                 /\ envLocal[t][v] # Absent => Merged(t)[v] = envLocal[t][v]
                 /\ envLocal[t][v] = Absent => Merged(t)[v] = NewValue(t, v)
           /\ \A v \in Required(t) : Merged(t)[v] # Empty
<1>1. Merged(t) = [v \in Vars |-> Merged(t)[v]]
  BY DEF Merged
<1>2. \A v \in schema[t] :
         /\ v \in Vars
         /\ envLocal[t][v] # Absent => Merged(t)[v] = envLocal[t][v]
         /\ envLocal[t][v] = Absent => Merged(t)[v] = NewValue(t, v)
  BY DEF Merged, IInv, WellFormed
<1>3. ASSUME NEW v PROVE NewValue(t, v) # Absent
  <2>1. script.kind = "setup" => IsSet(script.secret)
    BY DEF IInv, Carried
  <2> QED BY <2>1, Kinds DEF NewValue
<1>4. ASSUME NEW v \in Required(t) PROVE Merged(t)[v] # Empty
  <2>1. v \in Vars /\ v # Hook /\ (v \in FromStatus \/ v \notin Unexampled(t))
    BY Schemas
  <2>2. NewValue(t, v) # Empty
    BY <2>1, Kinds DEF NewValue
  <2>3. CASE v \notin schema[t]
    BY <2>1, <2>3, Kinds DEF Merged
  <2>4. CASE v \in schema[t]
    BY <1>2, <2>2, <2>4 DEF IInv, Filled
  <2> QED BY <2>3, <2>4
<1> QED BY <1>1, <1>2, <1>3, <1>4

LEMMA Writes ==
    ASSUME IInv, writeEnvLocal
    PROVE  IInv'
<1> USE DEF IInv
<1> DEFINE t == Surfaces[script.next]
           last == script.next = Len(Surfaces)
<1>1. /\ script.pc = "write" /\ envLocal' = [envLocal EXCEPT ![t] = Merged(t)]
      /\ script' = [script EXCEPT !.pc = IF last THEN "done" ELSE "write",
                                  !.next = IF last THEN @ ELSE @ + 1]
      /\ meddled' = (meddled \/ /\ t = Web /\ script.kind = "env:local"
                                /\ envLocal[Web][Hook] = Absent)
      /\ UNCHANGED <<schema, supabaseEnv, stack>>
  BY DEF writeEnvLocal
<1>2. script.next \in 1 .. Len(Surfaces) /\ Len(Surfaces) \in Nat
  BY SurfaceTypes DEF WellFormed
<1>3. t \in Targets /\ Web \in Targets
  BY <1>2, SurfaceTypes, LocalSetupAssumption
<1>4. /\ script' \in [kind : {"setup", "env:local"}, pc : Pcs, secret : {script'.secret},
                      next : 1 .. Len(Surfaces)]
      /\ script'.kind = script.kind /\ script'.secret = script.secret
      /\ last => script'.pc = "done"
      /\ ~ last => script'.pc = "write" /\ script'.next = script.next + 1
  <2>1. CASE last
    <3>1. script' = [script EXCEPT !.pc = "done", !.next = script.next]
      BY <1>1, <2>1
    <3> QED BY <2>1, <3>1 DEF WellFormed, Pcs
  <2>2. CASE ~ last
    <3>1. script' = [script EXCEPT !.pc = "write", !.next = script.next + 1]
      BY <1>1, <2>2
    <3>2. script.next + 1 \in 1 .. Len(Surfaces)
      BY <1>2, <2>2
    <3> QED BY <2>2, <3>1, <3>2 DEF WellFormed, Pcs
  <2> QED BY <2>1, <2>2
<1> HIDE DEF t, last
<1>5. /\ envLocal'[t] = Merged(t)
      /\ \A u \in Targets : u # t => envLocal'[u] = envLocal[u]
      /\ envLocal' = [u \in Targets |-> envLocal'[u]]
  BY <1>1, <1>3 DEF WellFormed
<1>6. WellFormed'
  <2>1. \A u \in Targets : envLocal'[u] = [v \in Vars |-> envLocal'[u][v]]
    <3>1. ASSUME NEW u \in Targets PROVE envLocal'[u] = [v \in Vars |-> envLocal'[u][v]]
      <4>1. CASE u = t
        BY <1>1, <1>3, <1>5, <4>1, Merges
      <4>2. CASE u # t
        BY <1>5, <4>2 DEF WellFormed
      <4> QED BY <4>1, <4>2
    <3> QED BY <3>1
  <2>2. meddled' \in BOOLEAN
    BY <1>1
  <2> QED BY <1>1, <1>4, <1>5, <2>1, <2>2 DEF WellFormed
<1>7. /\ WebSecret # Absent => WebSecret' = WebSecret
      /\ t # Web => WebSecret' = WebSecret
      /\ t = Web /\ WebSecret = Absent => WebSecret' = NewValue(Web, Hook)
  <2>1. CASE t = Web
    BY <1>1, <1>3, <1>5, <2>1, Merges DEF WebSecret, WellFormed
  <2>2. CASE t # Web
    BY <1>3, <1>5, <2>2 DEF WebSecret
  <2> QED BY <2>1, <2>2
<1>8. script.kind = "setup" => NewValue(Web, Hook) = supabaseEnv
  BY <1>1, Schemas DEF NewValue, Carried
<1>9. Ensured'
  <2>1. ASSUME script'.kind = "setup", IsSet(WebSecret)' PROVE WebSecret' = supabaseEnv'
    <3>1. CASE WebSecret' = WebSecret
      BY <1>1, <1>4, <2>1, <3>1 DEF Ensured, IsSet
    <3>2. CASE WebSecret' # WebSecret
      BY <1>1, <1>4, <1>7, <1>8, <2>1, <3>2
    <3> QED BY <3>1, <3>2
  <2> QED BY <2>1 DEF Ensured
<1>10. Carried'
  BY <1>1, <1>4 DEF Carried
<1>11. Written'
  <2>1. ASSUME NEW u \in Targets, u = t \/ WrittenTarget(u) PROVE WrittenTarget(u)'
    <3>1. CASE u = t
      BY <1>1, <1>3, <1>5, <3>1, Merges DEF WrittenTarget
    <3>2. CASE u # t
      BY <1>1, <1>5, <2>1, <3>2 DEF WrittenTarget
    <3> QED BY <3>1, <3>2
  <2>2. ASSUME NEW i \in 1 .. script.next PROVE WrittenTarget(Surfaces[i])'
    <3>1. i \in 1 .. Len(Surfaces) /\ Surfaces[i] \in Targets
      BY <1>2, SurfaceTypes
    <3>2. CASE i = script.next
      BY <2>1, <3>1, <3>2 DEF t
    <3>3. CASE i # script.next
      <4>1. i \in 1 .. script.next - 1
        BY <1>2, <3>3
      <4> QED BY <1>1, <2>1, <3>1, <4>1 DEF Written
    <3> QED BY <3>2, <3>3
  <2>3. CASE last
    <3>1. \A u \in Targets : WrittenTarget(u)'
      BY <2>2, <2>3, SurfaceTypes DEF last
    <3>2. script'.pc = "done"
      BY <1>4, <2>3
    <3> QED BY <3>1, <3>2 DEF Written
  <2>4. CASE ~ last
    <3>1. script'.pc = "write" /\ script'.next = script.next + 1
      BY <1>4, <2>4
    <3>2. script'.next - 1 = script.next
      BY <1>2, <3>1
    <3> QED BY <2>2, <3>1, <3>2 DEF Written
  <2> QED BY <2>3, <2>4
<1>12. Filled'
  <2>1. ASSUME NEW u \in Targets, NEW v \in Required(u) PROVE envLocal'[u][v] # Empty
    <3>1. CASE u = t
      BY <1>1, <1>3, <1>5, <2>1, <3>1, Merges
    <3>2. CASE u # t
      BY <1>5, <2>1, <3>2 DEF Filled
    <3> QED BY <3>1, <3>2
  <2> QED BY <2>1 DEF Filled, Required
<1>13. Unmeddled'
  <2>1. ASSUME ~ meddled' PROVE WebSecret' \in {Absent, supabaseEnv}
    <3>1. ~ meddled /\ ~ (t = Web /\ script.kind = "env:local" /\ WebSecret = Absent)
      BY <1>1, <2>1 DEF WebSecret
    <3>2. CASE WebSecret' = WebSecret
      BY <3>1, <3>2 DEF Unmeddled
    <3>3. CASE WebSecret' # WebSecret
      <4>1. script.kind = "setup"
        BY <1>7, <3>1, <3>3 DEF WellFormed
      <4> QED BY <1>7, <1>8, <3>3, <4>1
    <3> QED BY <3>2, <3>3
  <2> QED BY <1>1, <2>1 DEF Unmeddled
<1> QED BY <1>6, <1>9, <1>10, <1>11, <1>12, <1>13

\* A step after which no script runs and none has come to its end.
LEMMA Idles ==
    ASSUME WellFormed, script' = [script EXCEPT !.pc = "idle"]
    PROVE  /\ script' \in [kind : {"setup", "env:local"}, pc : Pcs,
                           secret : {script'.secret}, next : 1 .. Len(Surfaces)]
           /\ Ensured' /\ Carried' /\ Written'
<1>1. /\ script' \in [kind : {"setup", "env:local"}, pc : Pcs,
                      secret : {script'.secret}, next : 1 .. Len(Surfaces)]
      /\ script'.pc = "idle"
  BY DEF WellFormed, Pcs
<1> QED BY <1>1 DEF Ensured, Carried, Written

LEMMA Stops ==
    ASSUME IInv, Stop
    PROVE  IInv'
<1>1. /\ script' = [script EXCEPT !.pc = "idle"]
      /\ UNCHANGED <<schema, supabaseEnv, envLocal, stack, meddled>>
  BY DEF Stop
<1>2. /\ script' \in [kind : {"setup", "env:local"}, pc : Pcs,
                      secret : {script'.secret}, next : 1 .. Len(Surfaces)]
      /\ Ensured' /\ Carried' /\ Written'
  BY <1>1, Idles DEF IInv
<1>3. WellFormed' /\ Filled' /\ Unmeddled'
  BY <1>1, <1>2 DEF IInv, WellFormed, Filled, Unmeddled, WebSecret, Required
<1> QED BY <1>2, <1>3 DEF IInv

LEMMA Edits ==
    ASSUME IInv, NEW t \in Targets, NEW v \in Edited, NEW value \in {Blank, Typed},
           Edit(t, v, value)
    PROVE  IInv'
<1>1. /\ script' = [script EXCEPT !.pc = "idle"] /\ v \in schema[t]
      /\ envLocal' = [envLocal EXCEPT ![t][v] = value]
      /\ meddled' = (meddled \/ v = Hook)
      /\ UNCHANGED <<schema, supabaseEnv, stack>>
  BY DEF Edit
<1>2. /\ script' \in [kind : {"setup", "env:local"}, pc : Pcs,
                      secret : {script'.secret}, next : 1 .. Len(Surfaces)]
      /\ Ensured' /\ Carried' /\ Written'
  BY <1>1, Idles DEF IInv
<1>3. v \in Vars /\ Web \in Targets /\ Hook \in Vars
  BY <1>1, LocalSetupAssumption, Schemas DEF IInv, WellFormed
<1>4. /\ envLocal' = [u \in Targets |-> envLocal'[u]]
      /\ \A u \in Targets : envLocal'[u] = [w \in Vars |-> envLocal'[u][w]]
      /\ \A u \in Targets, w \in Vars :
            envLocal'[u][w] = IF u = t /\ w = v THEN value ELSE envLocal[u][w]
  BY <1>1, <1>3 DEF IInv, WellFormed
<1>5. meddled' \in BOOLEAN
  BY <1>1
<1>6. WellFormed'
  BY <1>1, <1>2, <1>4, <1>5 DEF IInv, WellFormed
<1>7. Filled'
  BY <1>4, Kinds, Schemas DEF IInv, Filled, Required
<1>8. Unmeddled'
  BY <1>1, <1>3, <1>4 DEF IInv, Unmeddled, WebSecret
<1> QED BY <1>2, <1>6, <1>7, <1>8 DEF IInv

LEMMA Deletes ==
    ASSUME IInv, NEW t \in Targets, DeleteEnvLocal(t)
    PROVE  IInv'
<1>1. /\ script' = [script EXCEPT !.pc = "idle"]
      /\ envLocal' = [envLocal EXCEPT ![t] = [v \in Vars |-> Absent]]
      /\ UNCHANGED <<schema, supabaseEnv, stack, meddled>>
  BY DEF DeleteEnvLocal
<1>2. /\ script' \in [kind : {"setup", "env:local"}, pc : Pcs,
                      secret : {script'.secret}, next : 1 .. Len(Surfaces)]
      /\ Ensured' /\ Carried' /\ Written'
  BY <1>1, Idles DEF IInv
<1>3. Web \in Targets /\ Hook \in Vars
  BY LocalSetupAssumption, Schemas
<1>4. /\ envLocal' = [u \in Targets |-> envLocal'[u]]
      /\ \A u \in Targets : envLocal'[u] = [w \in Vars |-> envLocal'[u][w]]
      /\ \A u \in Targets, w \in Vars :
            envLocal'[u][w] = IF u = t THEN Absent ELSE envLocal[u][w]
  BY <1>1 DEF IInv, WellFormed
<1>5. WellFormed'
  BY <1>1, <1>2, <1>4 DEF IInv, WellFormed
<1>6. Filled'
  BY <1>4, Kinds, Schemas DEF IInv, Filled, Required
<1>7. Unmeddled'
  BY <1>1, <1>3, <1>4 DEF IInv, Unmeddled, WebSecret
<1> QED BY <1>2, <1>5, <1>6, <1>7 DEF IInv

LEMMA StopsStack ==
    ASSUME IInv, StopStack
    PROVE  IInv'
<1>1. stack' = Absent /\ UNCHANGED <<schema, supabaseEnv, envLocal, script, meddled>>
  BY DEF StopStack
<1>2. WellFormed' /\ Ensured' /\ Carried' /\ Filled'
  BY <1>1 DEF IInv, WellFormed, Ensured, Carried, Filled, WebSecret, Required
<1>3. Written' /\ Unmeddled'
  BY <1>1 DEF IInv, Written, WrittenTarget, Unmeddled, WebSecret
<1> QED BY <1>2, <1>3 DEF IInv

LEMMA Pulls ==
    ASSUME IInv, Pull
    PROVE  IInv'
<1>1. /\ script' = [script EXCEPT !.pc = "idle"]
      /\ schema' = [t \in Targets |-> Names(t)]
      /\ UNCHANGED <<supabaseEnv, envLocal, stack, meddled>>
  BY DEF Pull
<1>2. /\ script' \in [kind : {"setup", "env:local"}, pc : Pcs,
                      secret : {script'.secret}, next : 1 .. Len(Surfaces)]
      /\ Ensured' /\ Carried' /\ Written'
  BY <1>1, Idles DEF IInv
<1>3. schema' \in [Targets -> SUBSET Vars] /\ Hook \in schema'[Web]
  BY <1>1, Schemas, LocalSetupAssumption
<1>4. WellFormed' /\ Filled' /\ Unmeddled'
  BY <1>1, <1>2, <1>3 DEF IInv, WellFormed, Filled, Unmeddled, WebSecret, Required
<1> QED BY <1>2, <1>4 DEF IInv

LEMMA NextIInv == IInv /\ [Next]_vars => IInv'
<1>1. CASE UNCHANGED vars
  <2>1. UNCHANGED <<schema, supabaseEnv, envLocal, stack, script, meddled>>
    BY <1>1 DEF vars
  <2> QED BY <2>1 DEF IInv, WellFormed, Ensured, Carried, Written, WrittenTarget, Filled,
                      Unmeddled, WebSecret, Required
<1> QED BY <1>1, StartRun, Ensures, Boots, ReadsStatus, Writes, Stops, Edits, Deletes,
           StopsStack, Pulls
        DEF Next

\* Only the writing of a file changes one while a script runs.
LEMMA StepKeeps ==
    ASSUME IInv, [Next]_vars, Running, NEW t \in Targets, NEW v \in schema[t],
           envLocal[t][v] # Absent
    PROVE  envLocal'[t][v] = envLocal[t][v]
<1>1. CASE writeEnvLocal
  <2>1. /\ script.pc = "write"
        /\ envLocal' = [envLocal EXCEPT ![Surfaces[script.next]] =
                                        Merged(Surfaces[script.next])]
    BY <1>1 DEF writeEnvLocal
  <2>2. CASE t = Surfaces[script.next]
    BY <2>1, <2>2, Merges DEF IInv, WellFormed
  <2>3. CASE t # Surfaces[script.next]
    BY <2>1, <2>3 DEF IInv, WellFormed
  <2> QED BY <2>2, <2>3
<1>2. CASE UNCHANGED envLocal
  BY <1>2
<1> QED BY <1>1, <1>2
        DEF Next, vars, Start, ensureHookSecret, startStack, readSupabaseStatus, Stop,
            Edit, DeleteEnvLocal, StopStack, Pull, Do

-----------------------------------------------------------------------------
(* The theorems.                                                            *)

LEMMA IInvAlways == Spec => []IInv
<1>1. Init => IInv
  BY InitIInv
<1>2. IInv /\ [Next]_vars => IInv'
  BY NextIInv
<1> QED BY <1>1, <1>2, PTL DEF Spec

\* At the end of setup the web application and supabase/.env have one secret,
\* and the stack that is up has it too if none came from elsewhere.
THEOREM SecretsAreShared == Spec => []SecretIsShared
<1>1. ASSUME IInv, script.kind = "setup", script.pc = "done"
      PROVE  /\ IsSet(WebSecret) => WebSecret = supabaseEnv
             /\ ~ meddled => IsSet(WebSecret) /\ stack \in {Absent, WebSecret}
  <2>1. IsSet(WebSecret) => WebSecret = supabaseEnv
    BY <1>1 DEF IInv, Ensured
  <2>2. WebSecret # Absent
    BY <1>1, LocalSetupAssumption DEF IInv, WellFormed, Written, WrittenTarget, WebSecret
  <2>3. ~ meddled => WebSecret = supabaseEnv /\ IsSet(supabaseEnv)
                     /\ stack \in {Absent, supabaseEnv}
    BY <1>1, <2>2 DEF IInv, Unmeddled
  <2> QED BY <2>1, <2>3
<1>2. IInv => SecretIsShared
  BY <1>1 DEF SecretIsShared, WebSecret
<1> QED BY <1>2, IInvAlways, PTL

\* At the end of a script every surface has a value for all it requires, the
\* Python worker for all the fields of its own list.
THEOREM SurfacesBoot == Spec => []EverySurfaceBoots
<1>1. \A t \in Targets : RequiredToBoot(t) \subseteq Required(t)
  <2>1. ASSUME NEW t \in Targets, t = WorkerPy PROVE Settings \subseteq Required(t)
    <3>1. SchemaOf(t) = describeSchema({sharedServer, workerServer})
      BY <2>1, Schema DEF WorkerPy, Web, Admin, WorkerNode
    <3>2. \A v \in Settings : v \in sharedServer.required \/ v \in workerServer.required
      BY DEF Settings, sharedServer, workerServer
    <3> QED BY <3>1, <3>2, Described DEF Required
  <2> QED BY <2>1 DEF RequiredToBoot, Required
<1>2. IInv => EverySurfaceBoots
  BY <1>1 DEF IInv, Written, WrittenTarget, Filled, Required, EverySurfaceBoots
<1> QED BY <1>2, IInvAlways, PTL

\* No script changes a line that is there.
THEOREM ValuesKept == Spec => ValuesAreKept
<1>1. IInv /\ [Next]_vars
         => [\A t \in Targets : \A v \in schema[t] :
               envLocal[t][v] # Absent /\ Running => envLocal'[t][v] = envLocal[t][v]]_vars
  BY StepKeeps
<1> QED BY <1>1, IInvAlways, PTL DEF Spec, ValuesAreKept
=============================================================================
