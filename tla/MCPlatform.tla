----------------------------- MODULE MCPlatform -----------------------------
(***************************************************************************)
(* Provisioning and CompositionCheck on small control planes: one call of  *)
(* either kind while the control plane changes.  The values a property is  *)
(* about vary; those the call in question does not read are fixed.         *)
(***************************************************************************)
EXTENDS Provisioning, CompositionCheck

\* A claim and the composite behind it, which score the same, and an older claim
\* whose name says less, which both of them dominate; a Database in two groups,
\* which is ambiguous when asked for by its kind; and a kind no XRD defines.
MCAPIs == <<"App", "Database", "LegacyPostgres", "PostgreSQLInstance", "Secret", "TeamDatabase", "XPostgreSQLInstance">>
MCKindOf ==
  [App |-> "app", Database |-> "database",
   LegacyPostgres |-> "legacypostgres", PostgreSQLInstance |-> "postgresqlinstance",
   Secret |-> "secret", TeamDatabase |-> "database", XPostgreSQLInstance |-> "xpostgresqlinstance"]
MCCategoryOf ==
  [App |-> "composite", Database |-> "composite",
   LegacyPostgres |-> "claim", PostgreSQLInstance |-> "claim",
   Secret |-> "none", TeamDatabase |-> "composite", XPostgreSQLInstance |-> "composite"]
MCNative == {"Secret"}

Postgres(kind) == {"postgresql", "postgres", "sql", kind}
MCWords ==
  [app |-> {"app"}, database |-> {"database"}, secret |-> {"secret"},
   legacypostgres |-> {"postgres", "legacypostgres"},
   postgresqlinstance |-> Postgres("postgresqlinstance"),
   xpostgresqlinstance |-> Postgres("xpostgresqlinstance")]

\* Where an XRD puts what users say: at the top, below parameters, both, or
\* anywhere (no properties).
Schema(top, parameters) == [properties |-> TRUE, top |-> top, parameters |-> parameters]
Flat == Schema([engine |-> "string", plan |-> "string", storageGB |-> "integer", image |-> "string"], <<>>)
Nested == Schema([parameters |-> "object"], [storage |-> "string", version |-> "integer", size |-> "string"])
Mixed == Schema([parameters |-> "object", size |-> "integer"], [storageGB |-> "integer", port |-> "string"])
Open == [NoSchema EXCEPT !.top = <<>>]

Offering(x) == x @@ [a \in Range(MCAPIs) |-> NoXRD]
Landscape(database, postgres) ==
  Offering([App |-> <<database>>, Database |-> <<database>>,
            PostgreSQLInstance |-> postgres, XPostgreSQLInstance |-> postgres])
Legacy == [LegacyPostgres |-> <<Flat>>]

MCLandscapes ==
  {Landscape(Flat, <<Nested>>), Legacy @@ Landscape(Mixed, <<Nested, Flat>>), Landscape(Mixed, <<Open>>),
   Offering([Database |-> <<Nested>>, TeamDatabase |-> <<Flat>>])}

Word(w) == Value("word", w)
MCParameters ==
  {<<>>, [storageGB |-> Value("float", "50")], [size |-> Word("huge"), region |-> Word("eu")],
   [parameters |-> Value("object", [size |-> Word("huge")]), storageGB |-> Value("float", "50")],
   [parameters |-> Value("object", [version |-> Value("digits", "16")])],
   [version |-> Word("latest")]}

MCRequests ==
  {DatabaseCreate("", "", engine, version, "small", storage, p) :
     engine \in {"postgres", "redis"}, version \in {"", "15"}, storage \in {"", "20"}, p \in MCParameters}
  \cup {DatabaseCreate(kind, group, "postgres", "15", "small", "20", <<>>) :
          kind \in {"database", "secret"}, group \in {"", "TeamDatabase"}}
  \cup {WorkloadCreate("", "", "nginx", "", port, "small", p) : port \in {"", "80"}, p \in MCParameters}

MCFunctions == {"f1", "f2"}
Step(name, function) == [name |-> name, function |-> function]
Composition(type, mode, steps) == [type |-> type, mode |-> mode, steps |-> steps]
MCCompositions ==
  {Composition(type, "Pipeline", steps) :
     type \in {"XPostgreSQLInstance", "PostgreSQLInstance", "incomplete"},
     steps \in {<<>>, <<Step("a", "f1")>>, <<Step("a", "f1"), Step("a", "f1")>>,
                <<Step("a", "f1"), Step("b", "f2")>>, <<Step("", "f1")>>, <<Step("a", "")>>}}
  \cup {Composition("XPostgreSQLInstance", "Resources", <<>>)}

vars == <<planeVars, provision, check>>

MCInit ==
  /\ PlaneInit
  /\ \/ /\ ProvisionInit /\ check = NoCheck
        /\ health = [f \in Functions |-> "True"]
        /\ composition = Composition("incomplete", "Pipeline", <<>>)
     \/ CheckInit /\ provision = NoProvision

Stops == provision.at \in {"idle", "applied", "rejected", "failed"} /\ check.at \in {"idle", "over"}

MCNext ==
  \/ ProvisionNext /\ UNCHANGED check
  \/ CheckNext /\ UNCHANGED provision
  \/ /\ PlaneChanges /\ ~Stops
     /\ IF check.tool = "none" THEN xrd' # xrd ELSE landscape' # landscape
     /\ UNCHANGED <<provision, check>>

MCSpec == MCInit /\ [][MCNext]_vars /\ RenderFairness
=============================================================================
