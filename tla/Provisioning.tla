---------------------------- MODULE Provisioning ----------------------------
(***************************************************************************)
(* crossplane_database_create and crossplane_workload_create               *)
(* (pkg/toolsets/provisioning/claim.go, database.go, workload.go): choose  *)
(* a platform API by the words its kind is made of, read the schema of its *)
(* XRD (pkg/crossplane/packages.go, schema.go), put the requested values   *)
(* where the schema declares a field for them, and apply the result.       *)
(*                                                                         *)
(* The apply itself is ManifestApply's; here it is one step, after which   *)
(* the API server holds what it was sent, but for fields its schema does   *)
(* not declare, which it drops, or refuses a value of the wrong type.      *)
(*                                                                         *)
(* A value is what it is: a word, a number the tool read as an integer, a  *)
(* number from a JSON object (float64), the digits of a number, or an      *)
(* object.  A schema says whether spec has properties, and the type of     *)
(* each at the top and below spec.parameters; every version of an XRD is   *)
(* served.                                                                 *)
(***************************************************************************)
EXTENDS ControlPlane, Integers

CONSTANTS
  Words,         (* for each kind, the hints its lower-case name contains     *)
  Requests       (* what the tools are asked for                             *)

VARIABLE provision

NoSchema == [properties |-> FALSE, top |-> <<>>, parameters |-> <<>>]
NoSpec == [top |-> <<>>, parameters |-> <<>>]
Value(type, what) == [type |-> type, is |-> what]
Nil == Value("nil", "")

\* A kind contains its own name.  The names the tools try for one value are
\* not those of another (database.go:70-75, workload.go:72-77), and "parameters"
\* is none of them.  An explicit parameter of that name is an object.  A schema
\* without properties declares nothing.
ASSUME ProvisioningAssumption ==
  /\ \A a \in Range(APIs) : KindOf[a] \in Words[KindOf[a]]
  /\ \A r \in Requests :
       /\ r.hints \in Seq(STRING) /\ Len(r.values) \in Nat /\ DOMAIN r.values = 1..Len(r.values)
       /\ \A i \in DOMAIN r.values :
            /\ r.values[i].names \in Seq(STRING) \ {<<>>} /\ "parameters" \notin Range(r.values[i].names)
            /\ r.values[i].value.type \in {"nil", "word", "int", "digits"}
            /\ \A j \in DOMAIN r.values \ {i} : Range(r.values[i].names) \cap Range(r.values[j].names) = {}
       /\ \A key \in DOMAIN r.parameters :
            /\ key \in STRING /\ r.parameters[key].type \in {"word", "digits", "float", "object"}
            /\ key = "parameters" => r.parameters[key].type = "object"
  /\ \A x \in Landscapes : \A a \in Range(APIs) : \A v \in DOMAIN x[a] :
       x[a][v].properties \/ (x[a][v].top = <<>> /\ x[a][v].parameters = <<>>)

(***************************************************************************)
(* The tools' arguments as requests: a hint or a name that comes first     *)
(* goes before the others.  "" stands for an argument left out.            *)
(***************************************************************************)
Optional(type, what) == IF what = "" THEN Nil ELSE Value(type, what)
Field(names, value) == [names |-> names, value |-> value]

DatabaseHints(engine) ==
  (CASE engine = "postgres" -> <<"postgresql", "postgres", "psql", "pg">>
     [] engine = "mysql" -> <<"mysql">>
     [] engine = "mariadb" -> <<"mariadb", "maria", "mysql">>
     [] engine = "redis" -> <<"redis", "cache", "keyvalue">>)
  \o <<"database", "sql", "db", "datastore", "store">>

DatabaseCreate(kind, group, engine, version, size, storage, parameters) ==
  [kind |-> kind, group |-> group, parameters |-> parameters, hints |-> DatabaseHints(engine),
   values |-> <<
     Field(<<"engine", "engineType", "databaseEngine">>, Value("word", engine)),
     Field(<<"version", "engineVersion", "databaseVersion">>, Optional("digits", version)),
     Field(<<"size", "instanceSize", "plan", "class", "tier">>, Value("word", size)),
     Field(<<"storageGB", "storageGb", "storage", "storageSize", "diskSize">>, Optional("int", storage))>>]

WorkloadCreate(kind, group, image, replicas, port, size, parameters) ==
  [kind |-> kind, group |-> group, parameters |-> parameters,
   hints |-> <<"workload", "application", "app", "service", "deployment", "container", "api">>,
   values |-> <<
     Field(<<"image", "containerImage", "imageRef">>, Optional("word", image)),
     Field(<<"replicas", "count", "instances", "scale">>, Optional("int", replicas)),
     Field(<<"port", "containerPort", "targetPort", "servicePort">>, Optional("int", port)),
     Field(<<"size", "plan", "class", "tier">>, Value("word", size))>>]

------------------------------------------------------------------------------
(***************************************************************************)
(* Which API: pick and score.                                              *)
(***************************************************************************)
\* platformAPIs: the claims and the composites the snapshot knows, and which
\* of them comes first: a claim, then one discovery lists before the other.
PlatformAPIs == {a \in DOMAIN known : CategoryOf[a] \in {"claim", "composite"}}
Before(a, b) ==
  IF CategoryOf[a] = CategoryOf[b]
    THEN \E i, j \in DOMAIN APIs : APIs[i] = a /\ APIs[j] = b /\ i < j
    ELSE CategoryOf[a] = "claim"

\* What one hint counts for a kind, and all of them: as many points as there
\* are pairs of a hint and a number up to what it counts.
Weight(kind, hints, i) ==
  IF hints[i] = kind THEN 2 * (Len(hints) - i + 1)
  ELSE IF hints[i] \in Words[kind] THEN Len(hints) - i + 1
  ELSE 0

Points(kind, hints) ==
  {p \in (1..Len(hints)) \X (1..(2 * Len(hints))) : p[2] <= Weight(kind, hints, p[1])}
Score(kind, hints) == Cardinality(Points(kind, hints))

\* Mutated form: the sort is not stable, and the last of the best is first.
PickUnstable(candidates, hints) ==
  LET score(a) == Score(KindOf[a], hints) IN
  {a \in candidates :
     /\ score(a) > 0
     /\ \A b \in candidates \ {a} : score(b) <= score(a) /\ (Before(b, a) \/ score(b) < score(a))}

\* The first of the candidates with the highest score, or none.
Pick(candidates, hints) ==
  LET score(a) == Score(KindOf[a], hints) IN
  {a \in candidates :
     /\ score(a) > 0
     /\ \A b \in candidates \ {a} : score(b) <= score(a) /\ (Before(a, b) \/ score(b) < score(a))}

(***************************************************************************)
(* What to write: buildSpec.                                               *)
(***************************************************************************)
\* Mutated form: the tool's own numbers are not turned into strings.
CoerceStrings(type, value) ==
  IF type \in {"integer", "number"} /\ value.type = "digits" THEN Value("int", value.is) ELSE value

Coerce(type, value) ==
  IF type = "string" /\ value.type = "int" THEN Value("digits", value.is)
  ELSE IF type \in {"integer", "number"} /\ value.type = "digits" THEN Value("int", value.is)
  ELSE value

With(fields, name, value) ==
  [n \in DOMAIN fields \cup {name} |-> IF n = name THEN value ELSE fields[n]]

SetParameter(spec, name, value) ==
  [spec EXCEPT !.parameters = With(@, name, value)]

\* A value called "parameters" takes the place of all that is set below it.
SetTop(spec, name, value) ==
  IF name = "parameters" THEN [spec EXCEPT !.parameters = value.is]
  ELSE [spec EXCEPT !.top = With(@, name, value)]

Declares(schema, name) == name \in DOMAIN schema.parameters \cup DOMAIN schema.top

\* place: at the first name the schema declares; or, where spec has no
\* properties, at the first name of all.
Placeable(schema, f) ==
  ~schema.properties \/ \E i \in DOMAIN f.names : Declares(schema, f.names[i])

FirstDeclared(schema, f) ==
  f.names[CHOOSE i \in DOMAIN f.names :
            /\ Declares(schema, f.names[i])
            /\ \A j \in DOMAIN f.names : Declares(schema, f.names[j]) => i <= j]

Place(spec, schema, f) ==
  LET name == FirstDeclared(schema, f)
  IN IF ~schema.properties THEN SetParameter(spec, f.names[1], f.value)
     ELSE IF name \in DOMAIN schema.parameters
       THEN SetParameter(spec, name, Coerce(schema.parameters[name], f.value))
     ELSE SetTop(spec, name, Coerce(schema.top[name], f.value))

\* Mutated form: a value with nowhere to go is dropped.
IgnoredSilently(schema, f) == {}

Ignored(schema, f) == IF f.value.type = "nil" \/ Placeable(schema, f) THEN {} ELSE {f.names[1]}

------------------------------------------------------------------------------
NoProvision ==
  [at |-> "idle", request |-> <<>>, api |-> "none", offer |-> {}, schema |-> NoSchema, guess |-> FALSE,
   next |-> 1, set |-> {}, spec |-> NoSpec, ignored |-> {}, stored |-> NoSpec]

ProvisionInit ==
  \E r \in Requests : provision = [NoProvision EXCEPT !.at = "asked", !.request = r]

Goes(to) == provision' = [provision EXCEPT !.at = to]

\* resolve: the kind the caller names, or the best of what is offered.
Resolve ==
  /\ provision.at = "asked"
  /\ LET r == provision.request
         found == IF r.kind # "" THEN Matching(r.kind, r.group) ELSE Pick(PlatformAPIs, r.hints)
     IN \/ \E a \in found :
             /\ found = {a}
             /\ provision' = [provision EXCEPT !.at = "resolved", !.api = a,
                                               !.offer = IF r.kind = "" THEN PlatformAPIs ELSE {}]
        \/ Cardinality(found) # 1 /\ Goes("failed")
        \/ Goes("failed")    \* discovery failed
  /\ UNCHANGED planeVars

\* schemaFor asks for all XRDs first and takes the one that defines the kind.
FindXRD ==
  /\ provision.at = "resolved"
  /\ \/ xrd[provision.api] # NoXRD /\ Goes("found")
     \/ provision' = [provision EXCEPT !.at = "read", !.guess = TRUE]
  /\ UNCHANGED planeVars

\* XRDSchemaFor then gets that one, which may be gone, or may have lost the
\* version discovery knew.
ReadSchema ==
  /\ provision.at = "found"
  /\ \/ /\ known[provision.api] \in DOMAIN xrd[provision.api]
        /\ provision' = [provision EXCEPT !.at = "read",
                                          !.schema = xrd[provision.api][known[provision.api]]]
     \/ provision' = [provision EXCEPT !.at = "read", !.guess = TRUE]
  /\ UNCHANGED planeVars

\* buildSpec: the tool's values, one after the other.
PlaceValue ==
  /\ provision.at = "read"
  /\ provision.next \in DOMAIN provision.request.values
  /\ LET f == provision.request.values[provision.next] IN
     provision' = [provision EXCEPT
       !.next = @ + 1,
       !.spec = IF f.value.type # "nil" /\ Placeable(provision.schema, f)
                  THEN Place(@, provision.schema, f) ELSE @,
       !.ignored = @ \cup Ignored(provision.schema, f)]
  /\ UNCHANGED planeVars

\* Then the explicit parameters, in the order a Go map is walked in, which is
\* any; one the schema does not mention is set all the same.
PlaceParameter ==
  /\ provision.at = "read"
  /\ provision.next \notin DOMAIN provision.request.values
  /\ \E key \in DOMAIN provision.request.parameters \ provision.set :
       LET f == Field(<<key>>, provision.request.parameters[key]) IN
       provision' = [provision EXCEPT
         !.set = @ \cup {key},
         !.spec = IF Placeable(provision.schema, f) THEN Place(@, provision.schema, f)
                  ELSE SetParameter(@, key, f.value)]
  /\ UNCHANGED planeVars

IsBuilt ==
  /\ provision.at = "read"
  /\ provision.next \notin DOMAIN provision.request.values
  /\ DOMAIN provision.request.parameters \subseteq provision.set

\* What the API server takes for a value of a type.
Accepts(type, value) ==
  CASE type = "string" -> value.type \in {"word", "digits"}
    [] type \in {"integer", "number"} -> value.type \in {"int", "float"}
    [] OTHER -> value.type = type

Fits(schema, spec) ==
  /\ \A name \in DOMAIN spec.top \cap DOMAIN schema.top : Accepts(schema.top[name], spec.top[name])
  /\ \A name \in DOMAIN spec.parameters \cap DOMAIN schema.parameters :
       Accepts(schema.parameters[name], spec.parameters[name])

Pruned(schema, spec) ==
  [top        |-> Restrict(spec.top, DOMAIN spec.top \cap DOMAIN schema.top),
   parameters |-> Restrict(spec.parameters, DOMAIN spec.parameters \cap DOMAIN schema.parameters)]

\* The schema the API server goes by, of the version the manifest names.
ServerSchema ==
  IF provision.api \in Native THEN NoSchema ELSE xrd[provision.api][known[provision.api]]
IsServed ==
  \/ provision.api \in Native
  \/ known[provision.api] \in DOMAIN xrd[provision.api]

Apply ==
  /\ IsBuilt
  /\ \/ IsServed /\ Fits(ServerSchema, provision.spec)
        /\ provision' = [provision EXCEPT !.at = "applied", !.stored = Pruned(ServerSchema, provision.spec)]
     \/ IsServed /\ ~Fits(ServerSchema, provision.spec) /\ Goes("rejected")
     \/ Goes("failed")    \* the API is gone, refuses for another reason, or is out of reach
  /\ UNCHANGED planeVars

ProvisionNext == Resolve \/ FindXRD \/ ReadSchema \/ PlaceValue \/ PlaceParameter \/ Apply

\* A call of either tool on any control plane.
ProvisionSpec ==
  PlaneInit /\ ProvisionInit
    /\ [][ProvisionNext \/ (PlaneChanges /\ UNCHANGED provision)]_<<planeVars, provision>>
------------------------------------------------------------------------------
Request == provision.request

\* A value asked for is there under one of its names.
Same(v, w) == (v.type = "object") = (w.type = "object") /\ v.is = w.is
Holds(fields, f) == \E name \in Range(f.names) \cap DOMAIN fields : Same(fields[name], f.value)
IsStored(f) == Holds(provision.stored.parameters, f) \/ Holds(provision.stored.top, f)

Overridden(f) ==
  DOMAIN Request.parameters \cap ({"parameters"} \cup Range(f.names)) # {}

Told(f) == provision.guess \/ f.names[1] \in provision.ignored

\* "Anything with nowhere to go is reported instead of dropped"
\* (claim.go:235-236): a value the caller asked for is in the object that was
\* created, or the answer says that it is not or that it was guessed at.  And
\* an explicit parameter that the API declares is what the caller said,
\* whatever the tool itself wanted there and in whatever order the map is
\* walked, unless one of them is called "parameters" (claim.go:252-291).
\* An API whose schema gives spec no properties at all is left out: there the
\* values go below spec.parameters and nobody is told that they are pruned.
StoredOrTold ==
  provision.at = "applied" /\ events = 0 /\ ServerSchema.properties =>
    /\ \A f \in Range(Request.values) : f.value.type = "nil" \/ IsStored(f) \/ Overridden(f) \/ Told(f)
    /\ \A key \in DOMAIN Request.parameters \ {"parameters"} :
         Declares(ServerSchema, key) =>
           \/ IsStored(Field(<<key>>, Request.parameters[key]))
           \/ provision.guess \/ "parameters" \in DOMAIN Request.parameters

\* A value the declared type refuses and has no form of: a word is no number,
\* and a float64 is left as it is.
FormlessIn(types, values, name) ==
  name \in DOMAIN types /\ ~Accepts(types[name], values[name]) =>
    \/ types[name] = "string" /\ values[name].type \in {"float", "object"}
    \/ types[name] \in {"integer", "number"} /\ values[name].type \in {"word", "object"}
    \/ types[name] \notin {"string", "integer", "number"}

\* What an explicit parameter called "parameters" says goes as it is.
IsVerbatim(name) ==
  /\ "parameters" \in DOMAIN Request.parameters
  /\ LET object == Request.parameters["parameters"].is
     IN name \in DOMAIN object /\ provision.spec.parameters[name] = object[name]

\* "A type mismatch is rejected by the API server for no good reason when the
\* fix is this small" (claim.go:316-318): where the schema could be read, only
\* a value that has no form of the declared type is refused, or a number in
\* the parameters, which arrives as a float64 and is not converted.  What is
\* inside an object is not converted either (claim.go:319-336).
RejectedForGoodReason ==
  provision.at = "rejected" /\ events = 0 /\ ~provision.guess =>
    /\ \A name \in DOMAIN provision.spec.top : FormlessIn(ServerSchema.top, provision.spec.top, name)
    /\ \A name \in DOMAIN provision.spec.parameters :
         IsVerbatim(name) \/ FormlessIn(ServerSchema.parameters, provision.spec.parameters, name)

\* The hints a kind meets, and those it meets word for word.
Meets(a) == {h \in Range(Request.hints) : h \in Words[KindOf[a]]}
MeetsExactly(a) == {h \in Range(Request.hints) : h = KindOf[a]}

\* No API that meets all the hints the chosen one meets, and more, is passed
\* over for it, and of two that meet the same the claim is chosen, the
\* namespaced front door of a v1 control plane (claim.go:129-193).
NothingDominatesThePick ==
  provision.api # "none" => \A b \in provision.offer :
    LET a == provision.api IN
    /\ Meets(a) \subseteq Meets(b) /\ MeetsExactly(a) \subseteq MeetsExactly(b)
         => Meets(a) = Meets(b) /\ MeetsExactly(a) = MeetsExactly(b)
    /\ Meets(a) = Meets(b) /\ MeetsExactly(a) = MeetsExactly(b) /\ CategoryOf[b] = "claim"
         => CategoryOf[a] = "claim"
==============================================================================
