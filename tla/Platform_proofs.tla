--------------------------- MODULE Platform_proofs ---------------------------
(***************************************************************************)
(* What holds of the platform tools for any APIs, schemas, requests,       *)
(* functions and Compositions.                                             *)
(*                                                                         *)
(* A create tool sets every value the caller asked for or says that it did *)
(* not (StoredOrTold), is refused only a value that has no other form      *)
(* (RejectedForGoodReason), and takes an API no other one dominates        *)
(* (NothingDominatesThePick).  Provisioned is the invariant: at every      *)
(* round of buildSpec it says where the values so far are and in what form.*)
(*                                                                         *)
(* The verdict of crossplane_composition_validate is right (VerdictIsRight)*)
(* on a control plane nobody changes.  Checked says of every point of the  *)
(* call what has been found by then.  A call goes through its stages once  *)
(* (CheckGoesDown) and leaves no directory behind (NothingIsLeft, by Tidy).*)
(***************************************************************************)
EXTENDS Provisioning, CompositionCheck, FiniteSetTheorems, SequenceTheorems, WellFoundedInduction, TLAPS

\* A value as Coerce leaves it for a type.
IsCoerced(type, v) ==
  /\ v.type \in {"word", "int", "digits", "float", "object"}
  /\ type = "string" => v.type # "int"
  /\ type \in {"integer", "number"} => v.type # "digits"

Written(fields, types) == \A name \in DOMAIN fields \cap DOMAIN types : IsCoerced(types[name], fields[name])

IsSpec(spec) == spec = [top |-> spec.top, parameters |-> spec.parameters]

\* What one write does to the fields it is made among.
Sets(fields, old, name, v) ==
  /\ DOMAIN fields = {name} \cup DOMAIN old
  /\ fields[name] = v
  /\ \A m \in DOMAIN old \ {name} : fields[m] = old[m]

\* A value goes below spec.parameters or to the top; and it lands where the
\* schema declares its name.
Wrote(new, spec, schema, name, v) ==
  \/ /\ new = SetParameter(spec, name, v)
     /\ name \in DOMAIN schema.parameters => IsCoerced(schema.parameters[name], v)
  \/ /\ new = SetTop(spec, name, v) /\ name \in DOMAIN schema.top
     /\ IsCoerced(schema.top[name], v)
Lands(new, spec, schema, name, v) ==
  \/ name \in DOMAIN schema.parameters
  \/ (name \in DOMAIN schema.top /\ new = SetTop(spec, name, v))

\* The call's record, and what the arguments and the schema are.
Shape ==
  /\ provision = [at |-> provision.at, request |-> provision.request, api |-> provision.api,
                  offer |-> provision.offer, schema |-> provision.schema, guess |-> provision.guess,
                  next |-> provision.next, set |-> provision.set, spec |-> provision.spec,
                  ignored |-> provision.ignored, stored |-> provision.stored]
  /\ IsSpec(provision.spec)
  /\ provision.request \in Requests
  /\ events \in Nat /\ xrd \in Landscapes /\ DOMAIN known \subseteq Range(APIs)
  /\ provision.at = "asked" => provision.api = "none"
  /\ provision.at \in {"resolved", "found", "read"} => provision.api \in DOMAIN known
  /\ provision.at \in {"asked", "resolved", "found"} =>
       provision.spec = NoSpec /\ provision.next = 1 /\ provision.set = {}
  /\ provision.schema.properties \/ (provision.schema.top = <<>> /\ provision.schema.parameters = <<>>)

\* The schema the call went by is the API server's, while nobody changes it.
SchemaIsServers ==
  provision.at \in {"read", "applied", "rejected"} /\ events = 0 /\ ~provision.guess /\ provision.api \notin Native
    => provision.schema = xrd[provision.api][known[provision.api]]

\* What is set is coerced, but for what an explicit "parameters" says.
Conforms ==
  /\ \A name \in DOMAIN provision.spec.top \cap DOMAIN provision.schema.top :
       IsCoerced(provision.schema.top[name], provision.spec.top[name])
  /\ \A name \in DOMAIN provision.spec.parameters \cap DOMAIN provision.schema.parameters :
       IsVerbatim(name) \/ IsCoerced(provision.schema.parameters[name], provision.spec.parameters[name])

\* A value is in the spec, at one of its names, where the schema declares it.
HoldsIn(fields, types, f) ==
  \E name \in Range(f.names) \cap DOMAIN fields \cap DOMAIN types : Same(fields[name], f.value)
IsPut(f) ==
  \/ HoldsIn(provision.spec.parameters, provision.schema.parameters, f)
  \/ HoldsIn(provision.spec.top, provision.schema.top, f)

\* The tool's values come first, and each is in the spec until an explicit
\* parameter takes its place; these stay, unless one is called "parameters".
Kept ==
  /\ provision.next \in 1..(Len(Request.values) + 1)
  /\ provision.set \subseteq DOMAIN Request.parameters
  /\ provision.set # {} => provision.next = Len(Request.values) + 1
  /\ \A i \in 1..(provision.next - 1) :
       LET f == Request.values[i] IN
       \/ f.value.type = "nil" \/ f.names[1] \in provision.ignored \/ ~provision.schema.properties \/ IsPut(f)
       \/ provision.set \cap ({"parameters"} \cup Range(f.names)) # {}
  /\ \A key \in provision.set \ {"parameters"} :
       \/ "parameters" \in DOMAIN Request.parameters \/ ~provision.schema.properties
       \/ Declares(provision.schema, key) => IsPut(Field(<<key>>, Request.parameters[key]))

Provisioned ==
  Shape /\ SchemaIsServers /\ Conforms /\ Kept /\ StoredOrTold /\ RejectedForGoodReason /\ NothingDominatesThePick

\* The call is the one it was, but for what the API server stored.
SameCall ==
  /\ provision'.request = provision.request /\ provision'.api = provision.api /\ provision'.offer = provision.offer
  /\ provision'.schema = provision.schema /\ provision'.guess = provision.guess
  /\ provision'.next = provision.next /\ provision'.set = provision.set
  /\ provision'.spec = provision.spec /\ provision'.ignored = provision.ignored
------------------------------------------------------------------------------
LEMMA Merge ==
  ASSUME NEW old, NEW name, NEW v
  PROVE  Sets(With(old, name, v), old, name, v)
BY DEF Sets, With

LEMMA SetParameterSets ==
  ASSUME NEW spec, IsSpec(spec), NEW name, NEW v
  PROVE  LET new == SetParameter(spec, name, v) IN
         IsSpec(new) /\ new.top = spec.top /\ Sets(new.parameters, spec.parameters, name, v)
<1> DEFINE merged == With(spec.parameters, name, v)
<1>1. Sets(merged, spec.parameters, name, v)
  BY Merge
<1>2. SetParameter(spec, name, v) = [spec EXCEPT !.parameters = merged]
  BY DEF SetParameter
<1> HIDE DEF merged
<1>3. SetParameter(spec, name, v) = [top |-> spec.top, parameters |-> merged]
  BY <1>2 DEF IsSpec
<1> QED  BY <1>1, <1>3 DEF IsSpec

LEMMA SetTopSets ==
  ASSUME NEW spec, IsSpec(spec), NEW name, NEW v
  PROVE  LET new == SetTop(spec, name, v) IN
         /\ IsSpec(new)
         /\ name # "parameters" => new.parameters = spec.parameters /\ Sets(new.top, spec.top, name, v)
         /\ name = "parameters" => new.top = spec.top /\ new.parameters = v.is
<1> DEFINE merged == With(spec.top, name, v)
<1>1. Sets(merged, spec.top, name, v)
  BY Merge
<1>2. SetTop(spec, name, v) = IF name = "parameters" THEN [spec EXCEPT !.parameters = v.is]
                              ELSE [spec EXCEPT !.top = merged]
  BY DEF SetTop
<1> HIDE DEF merged
<1>3. SetTop(spec, name, v) = IF name = "parameters" THEN [top |-> spec.top, parameters |-> v.is]
                              ELSE [top |-> merged, parameters |-> spec.parameters]
  BY <1>2 DEF IsSpec
<1> QED  BY <1>1, <1>3 DEF IsSpec

LEMMA CoerceIs ==
  ASSUME NEW type, NEW v
  PROVE  /\ Coerce(type, v).is = v.is
         /\ v.type \in {"word", "int", "digits", "float", "object"} =>
              IsCoerced(type, Coerce(type, v)) /\ Same(Coerce(type, v), v)
BY DEF Coerce, Value, IsCoerced, Same

\* A set of numbers has a least element.
LEMMA LeastNumber == ASSUME NEW S, S \subseteq Nat, S # {}  PROVE \E x \in S : \A y \in S : x <= y
<1> DEFINE R == OpToRel(<, Nat)
<1>1. IsWellFoundedOn(R, Nat)
  BY NatLessThanWellFounded
<1> HIDE DEF R
<1>2. PICK x \in S : \A y \in S : ~(<<y, x>> \in R)
  BY <1>1, WFMin
<1>3. \A y \in S : x <= y
  <2> SUFFICES ASSUME NEW y \in S, y < x  PROVE FALSE
    OBVIOUS
  <2>1. <<y, x>> \in R
    BY DEF R, OpToRel
  <2> QED  BY <1>2, <2>1
<1> QED  BY <1>3

\* The first name the schema declares is one of the names, and declared.
LEMMA FirstDeclaredIs ==
  ASSUME NEW schema, NEW f, f.names \in Seq(STRING), \E i \in DOMAIN f.names : Declares(schema, f.names[i])
  PROVE  FirstDeclared(schema, f) \in Range(f.names) /\ Declares(schema, FirstDeclared(schema, f))
<1> DEFINE I == {i \in DOMAIN f.names : Declares(schema, f.names[i])}
           Least(i) == /\ Declares(schema, f.names[i])
                       /\ \A j \in DOMAIN f.names : Declares(schema, f.names[j]) => i <= j
<1>1. I # {} /\ I \subseteq Nat
  <2>1. DOMAIN f.names = 1..Len(f.names) /\ Len(f.names) \in Nat
    BY LenProperties
  <2> QED  BY <2>1
<1>2. \E m \in I : \A j \in I : m <= j
  BY <1>1, LeastNumber
<1>5. \E i \in DOMAIN f.names : Least(i)
  BY <1>2
<1> DEFINE first == CHOOSE i \in DOMAIN f.names : Least(i)
<1>6. first \in DOMAIN f.names /\ Least(first)
  <2> HIDE DEF Least
  <2> QED  BY <1>5
<1>7. FirstDeclared(schema, f) = f.names[first]
  BY DEF FirstDeclared
<1> HIDE DEF first
<1>8. f.names[first] \in Range(f.names)
  BY <1>6 DEF Range
<1> QED  BY <1>6, <1>7, <1>8

\* place, where spec has properties, writes a coerced value at one of the
\* names, below spec.parameters or at the top, where it is declared.
LEMMA PlaceIs ==
  ASSUME NEW spec, NEW schema, NEW f, f.names \in Seq(STRING), schema.properties, Placeable(schema, f)
  PROVE  \E name \in Range(f.names) :
           \/ /\ name \in DOMAIN schema.parameters
              /\ Place(spec, schema, f) = SetParameter(spec, name, Coerce(schema.parameters[name], f.value))
           \/ /\ name \in DOMAIN schema.top
              /\ Place(spec, schema, f) = SetTop(spec, name, Coerce(schema.top[name], f.value))
<1> DEFINE name == FirstDeclared(schema, f)
<1>1. name \in Range(f.names) /\ Declares(schema, name)
  BY FirstDeclaredIs DEF Placeable
<1>2. Place(spec, schema, f) =
        IF name \in DOMAIN schema.parameters
          THEN SetParameter(spec, name, Coerce(schema.parameters[name], f.value))
        ELSE SetTop(spec, name, Coerce(schema.top[name], f.value))
  BY DEF Place
<1> HIDE DEF name
<1> QED  BY <1>1, <1>2 DEF Declares
------------------------------------------------------------------------------
\* A value that is not nil, placed.
LEMMA PlaceWrites ==
  ASSUME NEW spec, IsSpec(spec), NEW schema, NEW f, f.names \in Seq(STRING) \ {<<>>}, Placeable(schema, f),
         f.value.type \in {"word", "int", "digits", "float", "object"},
         schema.properties \/ (schema.top = <<>> /\ schema.parameters = <<>>)
  PROVE  \E name \in Range(f.names) : \E v :
           /\ Wrote(Place(spec, schema, f), spec, schema, name, v)
           /\ v.is = f.value.is /\ Same(v, f.value)
           /\ schema.properties => Lands(Place(spec, schema, f), spec, schema, name, v)
<1>1. CASE schema.properties
  <2>1. PICK name \in Range(f.names) :
           \/ /\ name \in DOMAIN schema.parameters
              /\ Place(spec, schema, f) = SetParameter(spec, name, Coerce(schema.parameters[name], f.value))
           \/ /\ name \in DOMAIN schema.top
              /\ Place(spec, schema, f) = SetTop(spec, name, Coerce(schema.top[name], f.value))
    BY <1>1, PlaceIs
  <2>2. \A type : /\ Coerce(type, f.value).is = f.value.is /\ Same(Coerce(type, f.value), f.value)
                  /\ IsCoerced(type, Coerce(type, f.value))
    BY CoerceIs
  <2>3. CASE /\ name \in DOMAIN schema.parameters
             /\ Place(spec, schema, f) = SetParameter(spec, name, Coerce(schema.parameters[name], f.value))
    <3> DEFINE v == Coerce(schema.parameters[name], f.value)
    <3>1. v.is = f.value.is /\ Same(v, f.value) /\ IsCoerced(schema.parameters[name], v)
      BY <2>2
    <3> HIDE DEF v
    <3>2. Wrote(Place(spec, schema, f), spec, schema, name, v)
      BY <2>3, <3>1 DEF Wrote, v
    <3> QED  BY <2>1, <2>3, <3>1, <3>2 DEF Lands
  <2>4. CASE /\ name \in DOMAIN schema.top
             /\ Place(spec, schema, f) = SetTop(spec, name, Coerce(schema.top[name], f.value))
    <3> DEFINE v == Coerce(schema.top[name], f.value)
    <3>1. v.is = f.value.is /\ Same(v, f.value) /\ IsCoerced(schema.top[name], v)
      BY <2>2
    <3>2. Place(spec, schema, f) = SetTop(spec, name, v)
      BY <2>4
    <3> HIDE DEF v
    <3>3. Wrote(Place(spec, schema, f), spec, schema, name, v)
      BY <2>4, <3>1, <3>2 DEF Wrote
    <3> QED  BY <2>1, <2>4, <3>1, <3>2, <3>3 DEF Lands
  <2> QED  BY <2>1, <2>3, <2>4
<1>2. CASE ~schema.properties
  <2>1. Place(spec, schema, f) = SetParameter(spec, f.names[1], f.value)
    BY <1>2 DEF Place
  <2>2. f.names[1] \in Range(f.names)
    <3>1. DOMAIN f.names = 1..Len(f.names) /\ Len(f.names) \in Nat /\ Len(f.names) # 0
      BY LenProperties, EmptySeq
    <3> QED  BY <3>1 DEF Range
  <2>3. f.names[1] \notin DOMAIN schema.parameters
    BY <1>2
  <2> QED  BY <1>2, <2>1, <2>2, <2>3 DEF Wrote, Same
<1> QED  BY <1>1, <1>2

\* A write keeps the form of the spec and what is said of its values.
LEMMA WriteConforms ==
  ASSUME Conforms, IsSpec(provision.spec), NEW name, NEW v,
         Wrote(provision'.spec, provision.spec, provision.schema, name, v),
         name = "parameters" =>
           "parameters" \in DOMAIN Request.parameters /\ v.is = Request.parameters["parameters"].is,
         provision'.schema = provision.schema, provision'.request = provision.request
  PROVE  IsSpec(provision'.spec) /\ Conforms'
<1> DEFINE schema == provision.schema
           spec == provision.spec
           new == provision'.spec
<1>1. CASE /\ new = SetParameter(spec, name, v)
           /\ name \in DOMAIN schema.parameters => IsCoerced(schema.parameters[name], v)
  <2>1. IsSpec(new) /\ new.top = spec.top /\ Sets(new.parameters, spec.parameters, name, v)
    BY <1>1, SetParameterSets
  <2>2. ASSUME NEW m \in DOMAIN new.parameters \cap DOMAIN schema.parameters
        PROVE  IsVerbatim(m)' \/ IsCoerced(schema.parameters[m], new.parameters[m])
    <3>1. CASE m = name
      BY <1>1, <2>1, <2>2, <3>1 DEF Sets
    <3>2. CASE m # name
      <4>1. m \in DOMAIN spec.parameters /\ new.parameters[m] = spec.parameters[m]
        BY <2>1, <2>2, <3>2 DEF Sets
      <4>2. IsVerbatim(m) \/ IsCoerced(schema.parameters[m], spec.parameters[m])
        BY <2>2, <4>1 DEF Conforms
      <4>3. IsVerbatim(m) => IsVerbatim(m)'
        BY <4>1 DEF IsVerbatim, Request
      <4> QED  BY <4>1, <4>2, <4>3
    <3> QED  BY <3>1, <3>2
  <2>3. \A m \in DOMAIN new.top \cap DOMAIN schema.top : IsCoerced(schema.top[m], new.top[m])
    BY <2>1 DEF Conforms
  <2> QED  BY <2>1, <2>2, <2>3 DEF Conforms
<1>2. CASE /\ new = SetTop(spec, name, v) /\ name \in DOMAIN schema.top
           /\ IsCoerced(schema.top[name], v)
  <2>1. IsSpec(new)
    BY <1>2, SetTopSets
  <2>2. CASE name = "parameters"
    <3>1. new.top = spec.top /\ new.parameters = v.is
      BY <1>2, <2>2, SetTopSets
    <3>2. \A m \in DOMAIN new.parameters : IsVerbatim(m)'
      BY <2>2, <3>1 DEF IsVerbatim, Request
    <3> QED  BY <2>1, <3>1, <3>2 DEF Conforms
  <2>3. CASE name # "parameters"
    <3>1. new.parameters = spec.parameters /\ Sets(new.top, spec.top, name, v)
      BY <1>2, <2>3, SetTopSets
    <3>2. \A m \in DOMAIN new.top \cap DOMAIN schema.top : IsCoerced(schema.top[m], new.top[m])
      BY <1>2, <3>1 DEF Sets, Conforms
    <3>3. \A m : IsVerbatim(m) => IsVerbatim(m)'
      BY <3>1 DEF IsVerbatim, Request
    <3> QED  BY <2>1, <3>1, <3>2, <3>3 DEF Conforms
  <2> QED  BY <2>2, <2>3
<1> QED  BY <1>1, <1>2 DEF Wrote

\* A write leaves alone what is under other names, and puts its value where
\* the schema declares the name.
LEMMA WriteKeeps ==
  ASSUME IsSpec(provision.spec), NEW name, NEW v,
         Wrote(provision'.spec, provision.spec, provision.schema, name, v), name # "parameters",
         provision'.schema = provision.schema
  PROVE  \A f : IsPut(f) /\ name \notin Range(f.names) => IsPut(f)'
<1> DEFINE schema == provision.schema
           spec == provision.spec
           new == provision'.spec
<1>1. \/ IsSpec(new) /\ new.top = spec.top /\ Sets(new.parameters, spec.parameters, name, v)
      \/ IsSpec(new) /\ new.parameters = spec.parameters /\ Sets(new.top, spec.top, name, v)
  BY SetParameterSets, SetTopSets DEF Wrote
<1>2. ASSUME NEW f, NEW fields, NEW old, NEW types, Sets(fields, old, name, v), HoldsIn(old, types, f), name \notin Range(f.names)
      PROVE  HoldsIn(fields, types, f)
  BY <1>2 DEF Sets, HoldsIn
<1> QED  BY <1>1, <1>2 DEF IsPut

LEMMA WritePuts ==
  ASSUME IsSpec(provision.spec), NEW f, NEW name \in Range(f.names), NEW v, name # "parameters", Same(v, f.value),
         Wrote(provision'.spec, provision.spec, provision.schema, name, v),
         Lands(provision'.spec, provision.spec, provision.schema, name, v),
         provision'.schema = provision.schema
  PROVE  IsPut(f)'
<1> DEFINE schema == provision.schema
           spec == provision.spec
           new == provision'.spec
<1>1. CASE new = SetParameter(spec, name, v) /\ name \in DOMAIN schema.parameters
  <2>1. Sets(new.parameters, spec.parameters, name, v)
    BY <1>1, SetParameterSets
  <2> QED  BY <1>1, <2>1 DEF Sets, IsPut, HoldsIn
<1>2. CASE new = SetTop(spec, name, v) /\ name \in DOMAIN schema.top
  <2>1. Sets(new.top, spec.top, name, v)
    BY <1>2, SetTopSets
  <2> QED  BY <1>2, <2>1 DEF Sets, IsPut, HoldsIn
<1> QED  BY <1>1, <1>2 DEF Wrote, Lands
------------------------------------------------------------------------------
\* A score counts pairs of a finite set.
LEMMA PointsFinite ==
  ASSUME NEW kind, NEW hints \in Seq(STRING)
  PROVE  IsFiniteSet(Points(kind, hints))
<1>1. Len(hints) \in Nat
  BY LenProperties
<1>2. IsFiniteSet(1..Len(hints)) /\ IsFiniteSet(1..(2 * Len(hints)))
  BY <1>1, FS_Interval
<1>3. IsFiniteSet((1..Len(hints)) \X (1..(2 * Len(hints))))
  BY <1>2, FS_Product
<1>4. Points(kind, hints) \in SUBSET ((1..Len(hints)) \X (1..(2 * Len(hints))))
  BY DEF Points
<1> QED  BY <1>3, <1>4, FS_Subset

LEMMA WeightIs ==
  ASSUME NEW kind, NEW hints \in Seq(STRING), NEW i \in 1..Len(hints)
  PROVE  /\ Len(hints) - i + 1 \in 1..Len(hints)
         /\ Weight(kind, hints, i) =
              IF hints[i] = kind THEN 2 * (Len(hints) - i + 1)
              ELSE IF hints[i] \in Words[kind] THEN Len(hints) - i + 1 ELSE 0
<1>1. Len(hints) \in Nat
  BY LenProperties
<1> QED  BY <1>1 DEF Weight

\* Whoever meets all the hints another meets scores at least as high, and
\* higher when it meets more.
LEMMA MeetingMoreScores ==
  ASSUME NEW hints \in Seq(STRING), NEW j, NEW k, j \in Words[j], k \in Words[k],
         \A h \in Range(hints) : h \in Words[j] => h \in Words[k],
         \A h \in Range(hints) : h = j => h = k
  PROVE  /\ Score(j, hints) \in Nat /\ Score(k, hints) \in Nat
         /\ Score(j, hints) <= Score(k, hints)
         /\ Score(j, hints) = Score(k, hints) =>
              \A h \in Range(hints) : (h \in Words[k] => h \in Words[j]) /\ (h = k => h = j)
<1> DEFINE n == Len(hints)
           w(i) == n - i + 1
<1>0. n \in Nat /\ DOMAIN hints = 1..n
  BY LenProperties
<1>1. \A i \in 1..n : hints[i] \in Range(hints)
  BY <1>0 DEF Range
<1>2. \A i \in 1..n : w(i) \in 1..n
  BY <1>0
<1>3. \A i \in 1..n : /\ Weight(j, hints, i) = IF hints[i] = j THEN 2 * w(i) ELSE IF hints[i] \in Words[j] THEN w(i) ELSE 0
                      /\ Weight(k, hints, i) = IF hints[i] = k THEN 2 * w(i) ELSE IF hints[i] \in Words[k] THEN w(i) ELSE 0
  BY WeightIs
<1>4. \A i \in 1..n : Weight(j, hints, i) <= Weight(k, hints, i) /\ Weight(k, hints, i) \in 0..(2 * n)
  <2> TAKE i \in 1..n
  <2>1. hints[i] = j => hints[i] = k
    BY <1>1
  <2>2. hints[i] \in Words[j] => hints[i] \in Words[k]
    BY <1>1
  <2> HIDE DEF w, n
  <2>3. w(i) \in Nat /\ 2 * w(i) \in Nat /\ w(i) <= 2 * n /\ 2 * w(i) <= 2 * n /\ n \in Nat
    BY <1>0, <1>2
  <2> QED  BY <1>3, <2>1, <2>2, <2>3
<1>5. \A i \in 1..n : hints[i] \in Words[k] /\ hints[i] \notin Words[j]
                      => Weight(j, hints, i) = 0 /\ Weight(k, hints, i) \in 1..(2 * n)
  <2> TAKE i \in 1..n
  <2> HAVE hints[i] \in Words[k] /\ hints[i] \notin Words[j]
  <2>1. hints[i] # j
    OBVIOUS
  <2>2. Weight(j, hints, i) = 0
    BY <1>3, <2>1
  <2>3. w(i) \in 1..(2 * n) /\ 2 * w(i) \in 1..(2 * n)
    BY <1>0, <1>2
  <2>4. Weight(k, hints, i) \in {w(i), 2 * w(i)}
    BY <1>3
  <2> QED  BY <2>2, <2>3, <2>4
<1>6. \A i \in 1..n : hints[i] = k /\ hints[i] # j
                      => Weight(j, hints, i) < Weight(k, hints, i) /\ Weight(k, hints, i) \in 1..(2 * n)
  <2> TAKE i \in 1..n
  <2> HAVE hints[i] = k /\ hints[i] # j
  <2>1. Weight(k, hints, i) = 2 * w(i)
    BY <1>3
  <2>2. Weight(j, hints, i) \in {w(i), 0}
    BY <1>3
  <2>3. w(i) \in 1..(2 * n) /\ 2 * w(i) \in 1..(2 * n) /\ w(i) < 2 * w(i) /\ 0 < 2 * w(i)
    BY <1>0, <1>2
  <2> QED  BY <2>1, <2>2, <2>3
<1>7. \A i \in 1..n : Weight(j, hints, i) < Weight(k, hints, i) /\ Weight(k, hints, i) \in 1..(2 * n)
        => <<i, Weight(k, hints, i)>> \in Points(k, hints) /\ <<i, Weight(k, hints, i)>> \notin Points(j, hints)
  <2> TAKE i \in 1..n
  <2> HAVE Weight(j, hints, i) < Weight(k, hints, i) /\ Weight(k, hints, i) \in 1..(2 * n)
  <2>1. Weight(j, hints, i) \in Nat
    BY <1>0, <1>2, <1>3
  <2> DEFINE p == <<i, Weight(k, hints, i)>>
  <2>2. p \in (1..n) \X (1..(2 * n)) /\ p[1] = i /\ p[2] = Weight(k, hints, i)
    OBVIOUS
  <2>3. p[2] <= Weight(k, hints, p[1]) /\ ~(p[2] <= Weight(j, hints, p[1]))
    BY <2>1, <2>2
  <2> QED  BY <2>2, <2>3 DEF Points
<1>8. Points(j, hints) \subseteq Points(k, hints)
  <2> SUFFICES ASSUME NEW p \in Points(j, hints)  PROVE p \in Points(k, hints)
    OBVIOUS
  <2>1. p \in (1..n) \X (1..(2 * n)) /\ p[2] <= Weight(j, hints, p[1])
    BY DEF Points
  <2>2. p[1] \in 1..n /\ p[2] \in Nat
    BY <2>1, <1>0
  <2>3. Weight(j, hints, p[1]) <= Weight(k, hints, p[1]) /\ Weight(k, hints, p[1]) \in Nat /\ Weight(j, hints, p[1]) \in Nat
    BY <1>0, <1>2, <1>3, <1>4, <2>2
  <2>4. p[2] <= Weight(k, hints, p[1])
    BY <2>1, <2>2, <2>3
  <2> QED  BY <2>1, <2>4 DEF Points
<1>9. IsFiniteSet(Points(j, hints)) /\ IsFiniteSet(Points(k, hints))
  BY PointsFinite
<1>10. /\ Score(j, hints) \in Nat /\ Score(k, hints) \in Nat
       /\ Score(j, hints) <= Score(k, hints)
       /\ Score(j, hints) = Score(k, hints) => Points(j, hints) = Points(k, hints)
  BY <1>8, <1>9, FS_Subset, FS_CardinalityType DEF Score
<1>11. ASSUME Score(j, hints) = Score(k, hints), NEW i \in 1..n
       PROVE  (hints[i] \in Words[k] => hints[i] \in Words[j]) /\ (hints[i] = k => hints[i] = j)
  <2>1. ~(Weight(j, hints, i) < Weight(k, hints, i) /\ Weight(k, hints, i) \in 1..(2 * n))
    BY <1>7, <1>10, <1>11
  <2>2. hints[i] \in Words[k] => hints[i] \in Words[j]
    <3> SUFFICES ASSUME hints[i] \in Words[k], hints[i] \notin Words[j]  PROVE FALSE
      OBVIOUS
    <3>1. Weight(j, hints, i) = 0 /\ Weight(k, hints, i) \in 1..(2 * n)
      BY <1>5
    <3> QED  BY <2>1, <3>1
  <2> QED  BY <1>6, <2>1, <2>2
<1>12. \A h \in Range(hints) : \E i \in 1..n : hints[i] = h
  BY <1>0 DEF Range
<1> QED  BY <1>10, <1>11, <1>12
------------------------------------------------------------------------------
LEMMA InitProvisioned == PlaneInit /\ ProvisionInit => Provisioned
<1> SUFFICES ASSUME PlaneInit, ProvisionInit  PROVE Provisioned
  OBVIOUS
<1>1. PICK r \in Requests : provision = [NoProvision EXCEPT !.at = "asked", !.request = r]
  BY DEF ProvisionInit
<1>2. provision = [at |-> "asked", request |-> r, api |-> "none", offer |-> {}, schema |-> NoSchema, guess |-> FALSE,
                   next |-> 1, set |-> {}, spec |-> NoSpec, ignored |-> {}, stored |-> NoSpec]
  BY <1>1 DEF NoProvision
<1>3. Shape
  <2>1. xrd \in Landscapes /\ events = 0
    BY DEF PlaneInit
  <2>2. DOMAIN known \subseteq Range(APIs)
    BY DEF PlaneInit, SnapshotOf, Offers
  <2> QED  BY <1>2, <2>1, <2>2 DEF Shape, IsSpec, NoSpec, NoSchema
<1>4. Conforms /\ SchemaIsServers
  BY <1>2 DEF Conforms, SchemaIsServers, NoSpec
<1>5. Kept
  <2>1. Len(r.values) \in Nat
    BY ProvisioningAssumption
  <2>2. provision.next = 1 /\ provision.set = {} /\ provision.request = r
    BY <1>2
  <2>3. 1 \in 1..(Len(r.values) + 1) /\ 1..(1 - 1) = {}
    BY <2>1
  <2> QED  BY <2>2, <2>3 DEF Kept, Request
<1> QED  BY <1>2, <1>3, <1>4, <1>5 DEF Provisioned, StoredOrTold, RejectedForGoodReason, NothingDominatesThePick

LEMMA SameCallKeeps ==
  ASSUME SameCall, Conforms, Kept, NothingDominatesThePick
  PROVE  Conforms' /\ Kept' /\ NothingDominatesThePick'
<1>1. Conforms'
  BY DEF SameCall, Conforms, IsVerbatim, Request
<1>2. Kept'
  BY DEF SameCall, Kept, IsPut, HoldsIn, Request
<1>3. NothingDominatesThePick'
  BY DEF SameCall, NothingDominatesThePick, Meets, MeetsExactly, Request
<1> QED  BY <1>1, <1>2, <1>3

\* What the call leaves is what it was, when it only moves on.
LEMMA OnlyMoves ==
  ASSUME NEW to, Shape, Goes(to)
  PROVE  /\ SameCall /\ provision'.at = to /\ provision'.stored = provision.stored
         /\ provision' = [at |-> provision'.at, request |-> provision'.request, api |-> provision'.api,
                          offer |-> provision'.offer, schema |-> provision'.schema, guess |-> provision'.guess,
                          next |-> provision'.next, set |-> provision'.set, spec |-> provision'.spec,
                          ignored |-> provision'.ignored, stored |-> provision'.stored]
BY DEF Goes, Shape, SameCall

LEMMA PlaneChangesKeeps ==
  ASSUME Provisioned, PlaneChanges, UNCHANGED provision
  PROVE  Provisioned'
<1>1. events' \in Nat /\ events' # 0 /\ xrd' \in Landscapes /\ known' = known /\ SameCall /\ provision' = provision
  BY DEF PlaneChanges, Provisioned, Shape, SameCall
<1>2. Shape'
  BY <1>1 DEF Shape, Provisioned, IsSpec
<1>3. SchemaIsServers' /\ StoredOrTold' /\ RejectedForGoodReason'
  BY <1>1 DEF SchemaIsServers, StoredOrTold, RejectedForGoodReason
<1> QED  BY <1>1, <1>2, <1>3, SameCallKeeps DEF Provisioned
------------------------------------------------------------------------------
\* The one pick takes is not dominated.
LEMMA PickIsBest ==
  ASSUME NEW r \in Requests, NEW offer \in SUBSET Range(APIs), NEW a \in Pick(offer, r.hints), NEW b \in offer
  PROVE  LET meets(x) == {h \in Range(r.hints) : h \in Words[KindOf[x]]}
             exactly(x) == {h \in Range(r.hints) : h = KindOf[x]} IN
         /\ meets(a) \subseteq meets(b) /\ exactly(a) \subseteq exactly(b)
              => meets(a) = meets(b) /\ exactly(a) = exactly(b)
         /\ meets(a) = meets(b) /\ exactly(a) = exactly(b) /\ CategoryOf[b] = "claim"
              => CategoryOf[a] = "claim"
<1> DEFINE meets(x) == {h \in Range(r.hints) : h \in Words[KindOf[x]]}
           exactly(x) == {h \in Range(r.hints) : h = KindOf[x]}
           score(x) == Score(KindOf[x], r.hints)
<1>0. r.hints \in Seq(STRING)
  BY ProvisioningAssumption
<1>1. a \in offer /\ \A x \in offer \ {a} : score(x) <= score(a) /\ (Before(a, x) \/ score(x) < score(a))
  BY DEF Pick
<1>2. KindOf[a] \in Words[KindOf[a]] /\ KindOf[b] \in Words[KindOf[b]]
  BY <1>1, ProvisioningAssumption
<1>3. ASSUME meets(a) \subseteq meets(b), exactly(a) \subseteq exactly(b)
      PROVE  /\ score(a) \in Nat /\ score(b) \in Nat /\ score(a) <= score(b)
             /\ score(a) = score(b) => meets(a) = meets(b) /\ exactly(a) = exactly(b)
  <2>1. \A h \in Range(r.hints) : h \in Words[KindOf[a]] => h \in Words[KindOf[b]]
    BY <1>3
  <2>2. \A h \in Range(r.hints) : h = KindOf[a] => h = KindOf[b]
    BY <1>3
  <2> DEFINE j == KindOf[a]
             k == KindOf[b]
  <2>3. j \in Words[j] /\ k \in Words[k]
    BY <1>2
  <2>4. \A h \in Range(r.hints) : (h \in Words[j] => h \in Words[k]) /\ (h = j => h = k)
    BY <2>1, <2>2
  <2> HIDE DEF j, k
  <2>5. /\ Score(j, r.hints) \in Nat /\ Score(k, r.hints) \in Nat
        /\ Score(j, r.hints) <= Score(k, r.hints)
        /\ Score(j, r.hints) = Score(k, r.hints) =>
             \A h \in Range(r.hints) : (h \in Words[k] => h \in Words[j]) /\ (h = k => h = j)
    BY <1>0, <2>3, <2>4, MeetingMoreScores
  <2> QED  BY <1>3, <2>5 DEF j, k
<1>4. ASSUME meets(a) \subseteq meets(b), exactly(a) \subseteq exactly(b)
      PROVE  meets(a) = meets(b) /\ exactly(a) = exactly(b)
  <2>1. CASE a = b
    BY <2>1
  <2>2. CASE a # b
    <3>1. score(b) <= score(a)
      BY <1>1, <2>2
    <3>2. score(a) \in Nat /\ score(b) \in Nat /\ score(a) <= score(b)
      BY <1>3, <1>4
    <3>3. score(a) = score(b)
      <4> HIDE DEF score
      <4> QED  BY <3>1, <3>2
    <3> QED  BY <1>3, <1>4, <3>3
  <2> QED  BY <2>1, <2>2
<1>5. ASSUME meets(a) = meets(b), exactly(a) = exactly(b), CategoryOf[b] = "claim"
      PROVE  CategoryOf[a] = "claim"
  <2>1. CASE a = b
    BY <1>5, <2>1
  <2>2. CASE a # b
    <3>1. score(a) \in Nat /\ score(b) \in Nat /\ score(a) <= score(b)
      BY <1>3, <1>5
    <3>2. Before(a, b)
      <4>1. Before(a, b) \/ score(b) < score(a)
        BY <1>1, <2>2
      <4> HIDE DEF score
      <4> QED  BY <3>1, <4>1
    <3> QED  BY <1>5, <3>2 DEF Before
  <2> QED  BY <2>1, <2>2
<1> HIDE DEF score
<1> QED  BY <1>4, <1>5

LEMMA ResolveKeeps == Provisioned /\ Resolve => Provisioned'
<1> SUFFICES ASSUME Provisioned, Resolve  PROVE Provisioned'
  OBVIOUS
<1>0. Shape /\ provision.at = "asked" /\ events' = events /\ xrd' = xrd /\ known' = known
  BY DEF Provisioned, Resolve, planeVars, landscape
<1> DEFINE r == provision.request
           found == IF r.kind # "" THEN Matching(r.kind, r.group) ELSE Pick(PlatformAPIs, r.hints)
           offer == IF r.kind = "" THEN PlatformAPIs ELSE {}
<1>1. \/ \E a \in found : provision' = [provision EXCEPT !.at = "resolved", !.api = a, !.offer = offer]
      \/ Goes("failed")
  BY DEF Resolve
<1>2. PlatformAPIs \subseteq Range(APIs) /\ found \subseteq DOMAIN known
  BY <1>0 DEF Shape, PlatformAPIs, Matching, Pick
<1>3. CASE \E a \in found : provision' = [provision EXCEPT !.at = "resolved", !.api = a, !.offer = offer]
  <2>1. PICK a \in found : provision' = [provision EXCEPT !.at = "resolved", !.api = a, !.offer = offer]
    BY <1>3
  <2>2. a \in found
    BY <2>1
  <2> HIDE DEF found, offer
  <2>3. provision' = [at |-> "resolved", request |-> r, api |-> a,
                  offer |-> offer, schema |-> provision.schema, guess |-> provision.guess,
                  next |-> provision.next, set |-> provision.set, spec |-> provision.spec,
                  ignored |-> provision.ignored, stored |-> provision.stored]
    BY <1>0, <2>1 DEF Shape
  <2>4. Shape'
    BY <1>0, <1>2, <2>2, <2>3 DEF Shape, IsSpec
  <2>5. Conforms'
    BY <2>3 DEF Provisioned, Conforms, IsVerbatim, Request
  <2>6. Kept'
    BY <2>3 DEF Provisioned, Kept, IsPut, HoldsIn, Request
  <2>7. NothingDominatesThePick'
    <3>1. ASSUME NEW b \in offer
          PROVE  /\ a \in Pick(PlatformAPIs, r.hints) /\ b \in PlatformAPIs /\ r \in Requests
      BY <1>0, <2>2, <3>1 DEF found, offer, Shape
    <3>2. provision'.api = a /\ provision'.offer = offer /\ provision'.request = r
      BY <2>3
    <3> HIDE DEF r
    <3>3. \A b \in offer :
            LET meets(x) == {h \in Range(r.hints) : h \in Words[KindOf[x]]}
                exactly(x) == {h \in Range(r.hints) : h = KindOf[x]} IN
            /\ meets(a) \subseteq meets(b) /\ exactly(a) \subseteq exactly(b)
                 => meets(a) = meets(b) /\ exactly(a) = exactly(b)
            /\ meets(a) = meets(b) /\ exactly(a) = exactly(b) /\ CategoryOf[b] = "claim"
                 => CategoryOf[a] = "claim"
      BY <1>2, <3>1, PickIsBest
    <3> QED  BY <3>2, <3>3 DEF NothingDominatesThePick, Meets, MeetsExactly, Request
  <2> QED  BY <2>3, <2>4, <2>5, <2>6, <2>7
       DEF Provisioned, SchemaIsServers, StoredOrTold, RejectedForGoodReason
<1>4. CASE Goes("failed")
  <2>1. SameCall /\ provision'.at = "failed"
    BY <1>0, <1>4, OnlyMoves
  <2>2. Shape'
    BY <1>0, <1>4, <2>1, OnlyMoves DEF Shape, SameCall, IsSpec
  <2> QED  BY <2>1, <2>2, SameCallKeeps DEF Provisioned, SchemaIsServers, StoredOrTold, RejectedForGoodReason
<1> QED  BY <1>1, <1>3, <1>4

LEMMA FindXRDKeeps == Provisioned /\ FindXRD => Provisioned'
<1> SUFFICES ASSUME Provisioned, FindXRD  PROVE Provisioned'
  OBVIOUS
<1>0. Shape /\ provision.at = "resolved" /\ events' = events /\ xrd' = xrd /\ known' = known
  BY DEF Provisioned, FindXRD, planeVars, landscape
<1>1. Goes("found") \/ provision' = [provision EXCEPT !.at = "read", !.guess = TRUE]
  BY DEF FindXRD
<1>2. /\ provision' = [at |-> provision'.at, request |-> provision.request, api |-> provision.api,
                       offer |-> provision.offer, schema |-> provision.schema, guess |-> provision'.guess,
                       next |-> provision.next, set |-> provision.set, spec |-> provision.spec,
                       ignored |-> provision.ignored, stored |-> provision.stored]
      /\ provision'.at = "found" \/ (provision'.at = "read" /\ provision'.guess)
  BY <1>0, <1>1 DEF Shape, Goes
<1>3. Shape'
  BY <1>0, <1>2 DEF Shape, IsSpec
<1>4. Conforms'
  BY <1>2 DEF Provisioned, Conforms, IsVerbatim, Request
<1>5. Kept'
  BY <1>2 DEF Provisioned, Kept, IsPut, HoldsIn, Request
<1>6. NothingDominatesThePick'
  BY <1>2 DEF Provisioned, NothingDominatesThePick, Meets, MeetsExactly, Request
<1> QED  BY <1>2, <1>3, <1>4, <1>5, <1>6
     DEF Provisioned, SchemaIsServers, StoredOrTold, RejectedForGoodReason

LEMMA ReadSchemaKeeps == Provisioned /\ ReadSchema => Provisioned'
<1> SUFFICES ASSUME Provisioned, ReadSchema  PROVE Provisioned'
  OBVIOUS
<1>0. Shape /\ provision.at = "found" /\ events' = events /\ xrd' = xrd /\ known' = known
  BY DEF Provisioned, ReadSchema, planeVars, landscape
<1> DEFINE served == xrd[provision.api][known[provision.api]]
<1>1. /\ known[provision.api] \in DOMAIN xrd[provision.api] /\ provision' = [provision EXCEPT !.at = "read", !.schema = served]
      \/ provision' = [provision EXCEPT !.at = "read", !.guess = TRUE]
  BY DEF ReadSchema
<1>2. known[provision.api] \in DOMAIN xrd[provision.api] =>
        served.properties \/ (served.top = <<>> /\ served.parameters = <<>>)
  BY <1>0, ProvisioningAssumption DEF Shape
<1> HIDE DEF served
<1>3. /\ provision' = [at |-> "read", request |-> provision.request, api |-> provision.api,
                       offer |-> provision.offer, schema |-> provision'.schema, guess |-> provision'.guess,
                       next |-> provision.next, set |-> provision.set, spec |-> provision.spec,
                       ignored |-> provision.ignored, stored |-> provision.stored]
      /\ provision'.guess \/ provision'.schema = served
      /\ provision'.schema.properties \/ (provision'.schema.top = <<>> /\ provision'.schema.parameters = <<>>)
  BY <1>0, <1>1, <1>2 DEF Shape
<1>4. provision.spec = NoSpec /\ provision.next = 1 /\ provision.set = {}
  BY <1>0 DEF Shape
<1>5. Shape'
  BY <1>0, <1>3 DEF Shape, IsSpec
<1>6. Conforms'
  BY <1>3, <1>4 DEF Conforms, NoSpec
<1>7. Kept'
  <2>1. 1..(1 - 1) = {}
    OBVIOUS
  <2> QED  BY <1>3, <1>4, <2>1 DEF Provisioned, Kept, Request
<1>8. NothingDominatesThePick'
  BY <1>3 DEF Provisioned, NothingDominatesThePick, Meets, MeetsExactly, Request
<1>9. SchemaIsServers'
  BY <1>0, <1>3 DEF SchemaIsServers, served
<1> QED  BY <1>3, <1>5, <1>6, <1>7, <1>8, <1>9
     DEF Provisioned, StoredOrTold, RejectedForGoodReason
------------------------------------------------------------------------------
LEMMA PlaceValueKeeps == Provisioned /\ PlaceValue => Provisioned'
<1> SUFFICES ASSUME Provisioned, PlaceValue,
                    NEW r, NEW n, NEW f, r = provision.request, n = provision.next, f = r.values[n]
             PROVE  Provisioned'
  OBVIOUS
<1> DEFINE schema == provision.schema
           spec == provision.spec
           places == f.value.type # "nil" /\ Placeable(schema, f)
           more == Ignored(schema, f)
           new == IF places THEN Place(spec, schema, f) ELSE spec
<1>0. Shape /\ provision.at = "read" /\ events' = events /\ xrd' = xrd /\ known' = known
  BY DEF Provisioned, PlaceValue, planeVars, landscape
<1>1. n \in DOMAIN r.values /\ provision' = [provision EXCEPT !.next = n + 1, !.spec = new, !.ignored = provision.ignored \cup more]
  BY DEF PlaceValue
<1>2. /\ Len(r.values) \in Nat /\ n \in 1..Len(r.values) /\ DOMAIN r.values = 1..Len(r.values)
      /\ f.names \in Seq(STRING) \ {<<>>} /\ "parameters" \notin Range(f.names)
      /\ f.value.type \in {"nil", "word", "int", "digits"}
      /\ \A j \in DOMAIN r.values \ {n} : Range(r.values[j].names) \cap Range(f.names) = {}
  <2>1. r \in Requests
    BY <1>0 DEF Shape
  <2> QED  BY <1>1, <2>1, ProvisioningAssumption
<1> HIDE DEF new, more
<1>3. provision' = [at |-> "read", request |-> r, api |-> provision.api,
                    offer |-> provision.offer, schema |-> schema, guess |-> provision.guess,
                    next |-> n + 1, set |-> provision.set, spec |-> new,
                    ignored |-> provision.ignored \cup more, stored |-> provision.stored]
  BY <1>0, <1>1 DEF Shape
<1>4. \/ new = spec /\ (f.value.type = "nil" \/ f.names[1] \in more)
      \/ /\ places
         /\ \E name \in Range(f.names) : \E v :
              /\ Wrote(new, spec, schema, name, v) /\ Same(v, f.value)
              /\ schema.properties => Lands(new, spec, schema, name, v)
  <2>1. CASE places
    <3>1. /\ IsSpec(spec) /\ f.names \in Seq(STRING) \ {<<>>} /\ Placeable(schema, f)
          /\ f.value.type \in {"word", "int", "digits", "float", "object"}
          /\ schema.properties \/ (schema.top = <<>> /\ schema.parameters = <<>>)
      BY <1>0, <1>2, <2>1 DEF Shape
    <3>2. new = Place(spec, schema, f)
      BY <2>1 DEF new
    <3> HIDE DEF spec, schema
    <3>3. \E name \in Range(f.names) : \E v :
           /\ Wrote(Place(spec, schema, f), spec, schema, name, v)
           /\ v.is = f.value.is /\ Same(v, f.value)
           /\ schema.properties => Lands(Place(spec, schema, f), spec, schema, name, v)
      BY <3>1, PlaceWrites
    <3> QED  BY <2>1, <3>2, <3>3
  <2>2. CASE ~places
    BY <2>2 DEF new, more, Ignored
  <2> QED  BY <2>1, <2>2
<1>5. \/ provision'.spec = spec /\ (f.value.type = "nil" \/ f.names[1] \in provision'.ignored)
      \/ \E name \in Range(f.names) : \E v :
              /\ Wrote(provision'.spec, spec, schema, name, v) /\ Same(v, f.value)
              /\ schema.properties => Lands(provision'.spec, spec, schema, name, v)
  BY <1>3, <1>4
<1>6. /\ provision'.request = r /\ provision'.schema = schema /\ provision'.next = n + 1 /\ provision'.set = provision.set
      /\ provision.ignored \subseteq provision'.ignored
  BY <1>3
<1>7. provision.set = {}
  BY <1>2 DEF Provisioned, Kept, Request
<1>8. IsSpec(provision'.spec) /\ Conforms'
  <2>1. CASE provision'.spec = spec
    BY <1>0, <1>6, <2>1 DEF Provisioned, Shape, Conforms, IsVerbatim, Request
  <2>2. CASE \E name \in Range(f.names) : \E v : Wrote(provision'.spec, spec, schema, name, v)
    BY <1>0, <1>2, <1>6, <2>2, WriteConforms DEF Provisioned, Shape
  <2> QED  BY <1>5, <2>1, <2>2
<1>9. Shape'
  BY <1>0, <1>3, <1>8 DEF Shape
<1>10. \A i \in 1..(n - 1) :
         LET g == r.values[i] IN
         g.value.type = "nil" \/ g.names[1] \in provision'.ignored \/ ~schema.properties \/ IsPut(g)'
  <2> TAKE i \in 1..(n - 1)
  <2> DEFINE g == r.values[i]
  <2>1. g.value.type = "nil" \/ g.names[1] \in provision.ignored \/ ~schema.properties \/ IsPut(g)
    BY <1>7 DEF Provisioned, Kept, Request
  <2>2. Range(g.names) \cap Range(f.names) = {}
    BY <1>2
  <2>3. IsPut(g) => IsPut(g)'
    <3>1. CASE provision'.spec = spec
      BY <1>6, <3>1 DEF IsPut, HoldsIn
    <3>2. CASE \E name \in Range(f.names) : \E v : Wrote(provision'.spec, spec, schema, name, v)
      <4>1. PICK name \in Range(f.names) : \E v : Wrote(provision'.spec, spec, schema, name, v)
        BY <3>2
      <4>2. name # "parameters" /\ name \notin Range(g.names)
        BY <1>2, <2>2
      <4>3. IsSpec(spec)
        BY <1>0 DEF Shape
      <4>4. PICK v : Wrote(provision'.spec, spec, schema, name, v)
        BY <4>1
      <4>5. \A h : IsPut(h) /\ name \notin Range(h.names) => IsPut(h)'
        BY <1>6, <4>2, <4>3, <4>4, WriteKeeps
      <4> QED  BY <4>2, <4>5
    <3> QED  BY <1>5, <3>1, <3>2
  <2> QED  BY <1>6, <2>1, <2>3
<1>11. f.value.type = "nil" \/ f.names[1] \in provision'.ignored \/ ~schema.properties \/ IsPut(f)'
  <2> SUFFICES ASSUME schema.properties, f.value.type # "nil", f.names[1] \notin provision'.ignored  PROVE IsPut(f)'
    OBVIOUS
  <2>1. PICK name \in Range(f.names) : \E v :
              /\ Wrote(provision'.spec, spec, schema, name, v) /\ Same(v, f.value)
              /\ Lands(provision'.spec, spec, schema, name, v)
    BY <1>5
  <2>2. PICK v :
              /\ Wrote(provision'.spec, spec, schema, name, v) /\ Same(v, f.value)
              /\ Lands(provision'.spec, spec, schema, name, v)
    BY <2>1
  <2>3. name # "parameters" /\ IsSpec(spec)
    BY <1>0, <1>2 DEF Shape
  <2> QED  BY <1>6, <2>2, <2>3, WritePuts
<1>12. Kept'
  <2>1. n + 1 \in 1..(Len(r.values) + 1) /\ 1..((n + 1) - 1) = (1..(n - 1)) \cup {n}
    BY <1>2
  <2>2. \A i, g : i \in 1..((n + 1) - 1) /\ g = r.values[i] =>
          g.value.type = "nil" \/ g.names[1] \in provision'.ignored \/ ~schema.properties \/ IsPut(g)'
    BY <1>10, <1>11, <2>1
  <2> QED  BY <1>6, <1>7, <2>1, <2>2 DEF Kept, Request
<1>13. NothingDominatesThePick'
  BY <1>3 DEF Provisioned, NothingDominatesThePick, Meets, MeetsExactly, Request
<1>14. SchemaIsServers'
  BY <1>0, <1>3 DEF Provisioned, SchemaIsServers
<1> QED  BY <1>3, <1>8, <1>9, <1>12, <1>13, <1>14 DEF Provisioned, StoredOrTold, RejectedForGoodReason

LEMMA PlaceParameterKeeps == Provisioned /\ PlaceParameter => Provisioned'
<1> SUFFICES ASSUME Provisioned, PlaceParameter, NEW r, r = provision.request
             PROVE  Provisioned'
  OBVIOUS
<1>1. PICK key \in DOMAIN r.parameters \ provision.set :
        LET g == Field(<<key>>, r.parameters[key]) IN
        provision' = [provision EXCEPT
         !.set = @ \cup {key},
         !.spec = IF Placeable(provision.schema, g) THEN Place(@, provision.schema, g)
                  ELSE SetParameter(@, key, g.value)]
  BY DEF PlaceParameter
<1> SUFFICES ASSUME NEW f, f = Field(<<key>>, r.parameters[key])
             PROVE  Provisioned'
  OBVIOUS
<1> DEFINE schema == provision.schema
           spec == provision.spec
           new == IF Placeable(schema, f) THEN Place(spec, schema, f) ELSE SetParameter(spec, key, f.value)
<1>0. /\ Shape /\ provision.at = "read" /\ events' = events /\ xrd' = xrd /\ known' = known
      /\ r \in Requests /\ provision.next \notin DOMAIN r.values
  BY DEF Provisioned, PlaceParameter, planeVars, landscape, Shape
<1>2. provision' = [provision EXCEPT !.set = provision.set \cup {key}, !.spec = new]
  BY <1>1
<1>3. /\ f.names = <<key>> /\ f.value = r.parameters[key] /\ key \in STRING
      /\ f.names \in Seq(STRING) \ {<<>>} /\ Range(f.names) = {key}
      /\ f.value.type \in {"word", "int", "digits", "float", "object"}
  <2>1. key \in STRING /\ r.parameters[key].type \in {"word", "digits", "float", "object"}
    BY <1>0, <1>1, ProvisioningAssumption
  <2>2. f.names = <<key>> /\ f.value = r.parameters[key]
    BY DEF Field
  <2>3. <<key>> \in Seq(STRING) \ {<<>>} /\ Range(<<key>>) = {key}
    BY <2>1 DEF Range
  <2> QED  BY <2>1, <2>2, <2>3
<1> HIDE DEF new
<1>4. provision' = [at |-> "read", request |-> r, api |-> provision.api,
                    offer |-> provision.offer, schema |-> schema, guess |-> provision.guess,
                    next |-> provision.next, set |-> provision.set \cup {key}, spec |-> new,
                    ignored |-> provision.ignored, stored |-> provision.stored]
  BY <1>0, <1>2 DEF Shape
<1>5. \E v : /\ Wrote(new, spec, schema, key, v) /\ v.is = f.value.is /\ Same(v, f.value)
             /\ schema.properties /\ Declares(schema, key) => Lands(new, spec, schema, key, v)
  <2>1. CASE Placeable(schema, f)
    <3>1. /\ IsSpec(spec)
          /\ schema.properties \/ (schema.top = <<>> /\ schema.parameters = <<>>)
      BY <1>0 DEF Shape
    <3>2. new = Place(spec, schema, f)
      BY <2>1 DEF new
    <3> HIDE DEF spec, schema
    <3>3. \E name \in Range(f.names) : \E v :
           /\ Wrote(Place(spec, schema, f), spec, schema, name, v)
           /\ v.is = f.value.is /\ Same(v, f.value)
           /\ schema.properties => Lands(Place(spec, schema, f), spec, schema, name, v)
      BY <1>3, <2>1, <3>1, PlaceWrites
    <3> QED  BY <1>3, <3>2, <3>3
  <2>2. CASE ~Placeable(schema, f)
    <3>1. ~Declares(schema, key)
      <4>1. 1 \in DOMAIN f.names /\ f.names[1] = key
        BY <1>3
      <4> QED  BY <2>2, <4>1 DEF Placeable
    <3>2. new = SetParameter(spec, key, f.value) /\ key \notin DOMAIN schema.parameters
      BY <2>2, <3>1 DEF new, Declares
    <3> QED  BY <3>1, <3>2 DEF Wrote, Same
  <2> QED  BY <2>1, <2>2
<1>6. PICK v : /\ Wrote(provision'.spec, spec, schema, key, v) /\ v.is = f.value.is /\ Same(v, f.value)
               /\ schema.properties /\ Declares(schema, key) => Lands(provision'.spec, spec, schema, key, v)
  BY <1>4, <1>5
<1>7. /\ provision'.request = r /\ provision'.schema = schema /\ provision'.next = provision.next
      /\ provision'.set = provision.set \cup {key} /\ provision'.ignored = provision.ignored
  BY <1>4
<1>8. IsSpec(provision'.spec) /\ Conforms'
  <2>1. key = "parameters" => "parameters" \in DOMAIN Request.parameters /\ v.is = Request.parameters["parameters"].is
    BY <1>1, <1>3, <1>6 DEF Request
  <2> QED  BY <1>0, <1>6, <1>7, <2>1, WriteConforms DEF Provisioned, Shape
<1>9. Shape'
  BY <1>0, <1>4, <1>8 DEF Shape
<1>10. \A g : key # "parameters" /\ key \notin Range(g.names) /\ IsPut(g) => IsPut(g)'
  BY <1>0, <1>6, <1>7, WriteKeeps DEF Shape
<1>11. Kept'
  <2>1. provision.next = Len(r.values) + 1
    <3>1. provision.next \in 1..(Len(r.values) + 1) /\ DOMAIN r.values = 1..Len(r.values) /\ Len(r.values) \in Nat
      BY <1>0, ProvisioningAssumption DEF Provisioned, Kept, Request
    <3> QED  BY <1>0, <3>1
  <2>2. \A i, g : i \in 1..(provision.next - 1) /\ g = r.values[i] =>
         \/ g.value.type = "nil" \/ g.names[1] \in provision.ignored \/ ~schema.properties \/ IsPut(g)'
         \/ provision'.set \cap ({"parameters"} \cup Range(g.names)) # {}
    <3> SUFFICES ASSUME NEW i \in 1..(provision.next - 1), NEW g, g = r.values[i]
                 PROVE  \/ g.value.type = "nil" \/ g.names[1] \in provision.ignored \/ ~schema.properties \/ IsPut(g)'
                        \/ provision'.set \cap ({"parameters"} \cup Range(g.names)) # {}
      OBVIOUS
    <3>1. \/ g.value.type = "nil" \/ g.names[1] \in provision.ignored \/ ~schema.properties \/ IsPut(g)
          \/ provision.set \cap ({"parameters"} \cup Range(g.names)) # {}
      BY DEF Provisioned, Kept, Request
    <3> QED  BY <1>7, <1>10, <3>1
  <2>3. \A k, g : k \in provision'.set \ {"parameters"} /\ g = Field(<<k>>, r.parameters[k]) =>
          \/ "parameters" \in DOMAIN r.parameters \/ ~schema.properties
          \/ Declares(schema, k) => IsPut(g)'
    <3> SUFFICES ASSUME NEW k \in provision'.set \ {"parameters"}, NEW g, g = Field(<<k>>, r.parameters[k]),
                        "parameters" \notin DOMAIN r.parameters, schema.properties, Declares(schema, k)
                 PROVE  IsPut(g)'
      OBVIOUS
    <3>1. key # "parameters"
      BY <1>1
    <3>2. CASE k = key
      <4>1. g = f
        BY <3>2
      <4>2. IsPut(f)'
        BY <1>0, <1>3, <1>6, <1>7, <3>1, <3>2, WritePuts DEF Shape
      <4> QED  BY <4>1, <4>2
    <3>3. CASE k # key
      <4>1. IsPut(g)
        BY <1>7, <3>3 DEF Provisioned, Kept, Request
      <4>2. Range(g.names) = {k}
        BY DEF Field, Range
      <4> QED  BY <1>10, <3>1, <3>3, <4>1, <4>2
    <3> QED  BY <3>2, <3>3
  <2>4. provision'.set \subseteq DOMAIN r.parameters /\ provision.next \in 1..(Len(r.values) + 1)
    BY <1>1, <1>7 DEF Provisioned, Kept, Request
  <2> QED  BY <1>7, <2>1, <2>2, <2>3, <2>4 DEF Kept, Request
<1>12. NothingDominatesThePick'
  BY <1>4 DEF Provisioned, NothingDominatesThePick, Meets, MeetsExactly, Request
<1>13. SchemaIsServers'
  BY <1>0, <1>4 DEF Provisioned, SchemaIsServers
<1> QED  BY <1>4, <1>8, <1>9, <1>11, <1>12, <1>13 DEF Provisioned, StoredOrTold, RejectedForGoodReason
------------------------------------------------------------------------------
\* What the schema of the API server refuses has no form of its type.
LEMMA RefusedIsFormless ==
  ASSUME NEW types, NEW values, NEW name,
         name \in DOMAIN types => IsCoerced(types[name], values[name])
  PROVE  FormlessIn(types, values, name)
<1> SUFFICES ASSUME name \in DOMAIN types, ~Accepts(types[name], values[name]), IsCoerced(types[name], values[name]),
                    types[name] \in {"string", "integer", "number"}
             PROVE  \/ types[name] = "string" /\ values[name].type \in {"float", "object"}
                    \/ types[name] \in {"integer", "number"} /\ values[name].type \in {"word", "object"}
  BY DEF FormlessIn
<1>1. CASE types[name] = "string"
  <2>1. values[name].type \notin {"word", "digits"}
    BY <1>1 DEF Accepts
  <2> QED  BY <1>1, <2>1 DEF IsCoerced
<1>2. CASE types[name] \in {"integer", "number"}
  <2>1. values[name].type \notin {"int", "float"}
    BY <1>2 DEF Accepts
  <2> QED  BY <1>2, <2>1 DEF IsCoerced
<1> QED  BY <1>1, <1>2

\* What is put where the schema declares it is not pruned.
LEMMA PutIsStored ==
  ASSUME NEW f, IsPut(f), provision'.stored = Pruned(provision.schema, provision.spec)
  PROVE  IsStored(f)'
<1> DEFINE schema == provision.schema
           spec == provision.spec
           stored == provision'.stored
<1>1. /\ stored.top = Restrict(spec.top, DOMAIN spec.top \cap DOMAIN schema.top)
      /\ stored.parameters = Restrict(spec.parameters, DOMAIN spec.parameters \cap DOMAIN schema.parameters)
  BY DEF Pruned
<1>2. ASSUME NEW fields, NEW types, HoldsIn(fields, types, f)
      PROVE  Holds(Restrict(fields, DOMAIN fields \cap DOMAIN types), f)
  <2>1. PICK name \in Range(f.names) \cap DOMAIN fields \cap DOMAIN types : Same(fields[name], f.value)
    BY <1>2 DEF HoldsIn
  <2> QED  BY <2>1 DEF Holds, Restrict
<1> QED  BY <1>1, <1>2 DEF IsPut, IsStored

LEMMA ApplyKeeps == Provisioned /\ Apply => Provisioned'
<1> SUFFICES ASSUME Provisioned, Apply  PROVE Provisioned'
  OBVIOUS
<1> DEFINE schema == provision.schema
           spec == provision.spec
<1>0. /\ Shape /\ IsBuilt /\ provision.at = "read" /\ events' = events /\ xrd' = xrd /\ known' = known
  BY DEF Provisioned, Apply, IsBuilt, planeVars, landscape
<1>1. \/ provision' = [provision EXCEPT !.at = "applied", !.stored = Pruned(ServerSchema, spec)]
      \/ Goes("rejected") \/ Goes("failed")
  BY DEF Apply
<1>2. /\ provision' = [at |-> provision'.at, request |-> provision.request, api |-> provision.api,
                       offer |-> provision.offer, schema |-> schema, guess |-> provision.guess,
                       next |-> provision.next, set |-> provision.set, spec |-> spec,
                       ignored |-> provision.ignored, stored |-> provision'.stored]
      /\ \/ (provision'.at = "applied" /\ provision'.stored = Pruned(ServerSchema, spec))
         \/ provision'.at \in {"rejected", "failed"}
  <2>1. CASE provision' = [provision EXCEPT !.at = "applied", !.stored = Pruned(ServerSchema, spec)]
    <3>1. ASSUME NEW s, s = Pruned(ServerSchema, spec)
          PROVE  /\ provision' = [at |-> "applied", request |-> provision.request, api |-> provision.api,
                       offer |-> provision.offer, schema |-> schema, guess |-> provision.guess,
                       next |-> provision.next, set |-> provision.set, spec |-> spec,
                       ignored |-> provision.ignored, stored |-> s]
      BY <1>0, <2>1, <3>1 DEF Shape
    <3> QED  BY <3>1
  <2>2. CASE Goes("rejected") \/ Goes("failed")
    BY <1>0, <2>2 DEF Shape, Goes
  <2> QED  BY <1>1, <2>1, <2>2
<1>3. Shape'
  BY <1>0, <1>2 DEF Shape, IsSpec
<1>4. SameCall
  BY <1>2 DEF SameCall
<1>5. Conforms' /\ Kept' /\ NothingDominatesThePick'
  BY <1>4, SameCallKeeps DEF Provisioned
<1>6. SchemaIsServers'
  BY <1>0, <1>2 DEF Provisioned, SchemaIsServers
<1>7. events = 0 /\ ~provision.guess /\ provision.api \notin Native => ServerSchema = schema
  BY <1>0 DEF Provisioned, SchemaIsServers, ServerSchema
<1>8. ServerSchema' = ServerSchema
  BY <1>0, <1>2 DEF ServerSchema
<1>9. RejectedForGoodReason'
  <2> SUFFICES ASSUME events = 0, ~provision.guess
               PROVE  /\ \A name \in DOMAIN spec.top : FormlessIn(ServerSchema.top, spec.top, name)
                      /\ \A name \in DOMAIN spec.parameters :
                           IsVerbatim(name) \/ FormlessIn(ServerSchema.parameters, spec.parameters, name)
    <3>1. \A name : IsVerbatim(name)' <=> IsVerbatim(name)
      BY <1>2 DEF IsVerbatim, Request
    <3>2. /\ provision'.spec = spec /\ provision'.guess = provision.guess
      BY <1>2
    <3> QED  BY <1>0, <1>8, <3>1, <3>2 DEF RejectedForGoodReason
  <2>1. CASE provision.api \in Native
    <3>1. DOMAIN ServerSchema.top = {} /\ DOMAIN ServerSchema.parameters = {}
      BY <2>1 DEF ServerSchema, NoSchema
    <3> QED  BY <3>1 DEF FormlessIn
  <2>2. CASE provision.api \notin Native
    <3>1. ServerSchema = schema
      BY <1>7, <2>2
    <3>2. \A name \in DOMAIN spec.top : name \in DOMAIN schema.top => IsCoerced(schema.top[name], spec.top[name])
      BY DEF Provisioned, Conforms
    <3>3. \A name \in DOMAIN spec.parameters :
            IsVerbatim(name) \/ (name \in DOMAIN schema.parameters => IsCoerced(schema.parameters[name], spec.parameters[name]))
      BY DEF Provisioned, Conforms
    <3> QED  BY <3>1, <3>2, <3>3, RefusedIsFormless
  <2> QED  BY <2>1, <2>2
<1>10. StoredOrTold'
  <2> SUFFICES ASSUME provision'.at = "applied", events = 0, ServerSchema.properties, ~provision.guess,
                      NEW r, r = provision.request
               PROVE  /\ \A f \in Range(r.values) :
                           f.value.type = "nil" \/ IsStored(f)' \/ Overridden(f)' \/ f.names[1] \in provision'.ignored
                      /\ \A key \in DOMAIN r.parameters \ {"parameters"} :
                           Declares(schema, key) => \/ IsStored(Field(<<key>>, r.parameters[key]))'
                                                    \/ "parameters" \in DOMAIN r.parameters
    <3>1. /\ provision'.request = provision.request /\ provision'.guess = provision.guess
          /\ provision'.ignored = provision.ignored /\ events' = events
      BY <1>0, <1>2
    <3>2. ASSUME provision.api \in Native  PROVE ~ServerSchema.properties
      BY <3>2 DEF ServerSchema, NoSchema
    <3>3. events = 0 /\ ~provision.guess /\ ServerSchema.properties => ServerSchema = schema
      BY <1>7, <3>2
    <3> QED  BY <1>8, <3>1, <3>3 DEF StoredOrTold, Told, Request
  <2>1. provision.api \notin Native
    BY DEF ServerSchema, NoSchema
  <2>2. schema = ServerSchema /\ schema.properties
    BY <1>7, <2>1
  <2>3. provision'.stored = Pruned(schema, spec) /\ provision'.request = r /\ provision'.ignored = provision.ignored
    BY <1>2, <2>2
  <2>4. \A f : IsPut(f) => IsStored(f)'
    BY <2>3, PutIsStored
  <2>5. /\ r \in Requests /\ Len(r.values) \in Nat /\ DOMAIN r.values = 1..Len(r.values)
        /\ provision.next \notin DOMAIN r.values /\ DOMAIN r.parameters \subseteq provision.set
    BY <1>0, ProvisioningAssumption DEF Shape, IsBuilt
  <2>6. provision.next = Len(r.values) + 1 /\ provision.set = DOMAIN r.parameters
    <3>1. provision.next \in 1..(Len(r.values) + 1) /\ provision.set \subseteq DOMAIN r.parameters
      BY DEF Provisioned, Kept, Request
    <3>2. Len(r.values) \in Nat /\ provision.next \notin 1..Len(r.values)
      BY <2>5
    <3>3. provision.next = Len(r.values) + 1
      BY <3>1, <3>2
    <3> QED  BY <2>5, <3>1, <3>3
  <2>7. ASSUME NEW f \in Range(r.values)
        PROVE  f.value.type = "nil" \/ IsStored(f)' \/ Overridden(f)' \/ f.names[1] \in provision'.ignored
    <3>1. PICK i \in 1..Len(r.values) : f = r.values[i]
      BY <2>5, <2>7 DEF Range
    <3>2. i \in 1..(provision.next - 1)
      BY <2>5, <2>6
    <3>3. \/ f.value.type = "nil" \/ f.names[1] \in provision.ignored \/ IsPut(f)
          \/ provision.set \cap ({"parameters"} \cup Range(f.names)) # {}
      BY <2>2, <3>1, <3>2 DEF Provisioned, Kept, Request
    <3>4. provision.set \cap ({"parameters"} \cup Range(f.names)) # {} => Overridden(f)'
      BY <2>3, <2>6 DEF Overridden, Request
    <3> QED  BY <2>3, <2>4, <3>3, <3>4
  <2>8. ASSUME NEW key \in DOMAIN r.parameters \ {"parameters"}, Declares(schema, key),
               "parameters" \notin DOMAIN r.parameters
        PROVE  IsStored(Field(<<key>>, r.parameters[key]))'
    <3> SUFFICES ASSUME NEW g, g = Field(<<key>>, r.parameters[key])  PROVE IsStored(g)'
      OBVIOUS
    <3>1. IsPut(g)
      BY <2>2, <2>6, <2>8 DEF Provisioned, Kept, Request
    <3> QED  BY <2>4, <3>1
  <2> QED  BY <2>7, <2>8
<1> QED  BY <1>3, <1>5, <1>6, <1>9, <1>10 DEF Provisioned

LEMMA NextProvisioned ==
  Provisioned /\ [ProvisionNext \/ (PlaneChanges /\ UNCHANGED provision)]_<<planeVars, provision>> => Provisioned'
<1> SUFFICES ASSUME Provisioned, [ProvisionNext \/ (PlaneChanges /\ UNCHANGED provision)]_<<planeVars, provision>>
             PROVE  Provisioned'
  OBVIOUS
<1>1. CASE UNCHANGED <<planeVars, provision>>
  <2>1. events' = events /\ xrd' = xrd /\ known' = known /\ provision' = provision
    BY <1>1 DEF planeVars, landscape
  <2>2. SameCall
    BY <2>1 DEF SameCall
  <2>3. Shape' /\ SchemaIsServers'
    BY <2>1 DEF Provisioned, Shape, SchemaIsServers, IsSpec
  <2>4. Conforms' /\ Kept' /\ NothingDominatesThePick'
    BY <2>2, SameCallKeeps DEF Provisioned
  <2>5. StoredOrTold' /\ RejectedForGoodReason'
    BY <2>1 DEF Provisioned, StoredOrTold, RejectedForGoodReason, ServerSchema, IsStored, Holds, Overridden, Told,
       IsVerbatim, Request
  <2> QED  BY <2>3, <2>4, <2>5 DEF Provisioned
<1> QED  BY <1>1, ResolveKeeps, FindXRDKeeps, ReadSchemaKeeps, PlaceValueKeeps, PlaceParameterKeeps, ApplyKeeps,
         PlaneChangesKeeps DEF ProvisionNext

\* The invariant of a create tool's call, from the request to the answer
\* (claim.go:59-291).
THEOREM ProvisioningInvariant == ProvisionSpec => []Provisioned
BY InitProvisioned, NextProvisioned, PTL DEF ProvisionSpec
\* Every value the caller asked for is in the object that was created, or the
\* answer says that it is not or that it was guessed at, and an explicit
\* parameter wins, in whatever order the map is walked (claim.go:237-291).
THEOREM NothingIsDroppedSilently == ProvisionSpec => []StoredOrTold
BY ProvisioningInvariant, PTL DEF Provisioned

\* Only a value that has no form of the declared type is refused, whatever
\* the schema and the request (claim.go:316-336).
THEOREM RefusalsHaveAReason == ProvisionSpec => []RejectedForGoodReason
BY ProvisioningInvariant, PTL DEF Provisioned

\* No API that meets all the hints of the chosen one, and more, is passed over
\* for it, for any hints and any words (claim.go:129-193).
THEOREM TheBestIsPicked == ProvisionSpec => []NothingDominatesThePick
BY ProvisioningInvariant, PTL DEF Provisioned
------------------------------------------------------------------------------
TypeOf(c) == IF c.type = "incomplete" THEN {} ELSE Matching(KindOf[c.type], c.type)

\* What checkCompositeType finds when discovery answers.
TypeFound ==
  /\ check.errors = IF Cardinality(TypeOf(check.composition)) # 1 THEN {"type"} ELSE {}
  /\ check.warnings = IF \E a \in TypeOf(check.composition) : CategoryOf[a] # "composite"
                        THEN {"category"} ELSE {}

Verdict ==
  known = SnapshotOf(xrd) =>
    /\ Works(check.composition) => check.errors = {}
    /\ check.errors \cup check.warnings = {} => Works(check.composition)

CheckIsRecord ==
  check = [tool |-> check.tool, at |-> check.at, composition |-> check.composition, errors |-> check.errors,
           warnings |-> check.warnings, blind |-> check.blind, dir |-> check.dir,
           expired |-> check.expired, cli |-> check.cli, heir |-> check.heir]

Checked ==
  /\ CheckIsRecord
  /\ events \in Nat
  /\ composition \in Compositions
  /\ check.at = "asked" => check.composition.type = "none"
  /\ Checks("validate", "read") \/ Checks("validate", "typed") => check.composition \in Compositions
  /\ Checks("validate", "typed") /\ ~check.blind => TypeFound
  /\ Checks("validate", "over") /\ events = 0 /\ ~check.blind /\ check.composition.type # "none" => Verdict

------------------------------------------------------------------------------
LEMMA ZeroIsNotOne == 0 # 1
OBVIOUS

LEMMA Positions ==
  ASSUME NEW n \in Nat, NEW m \in 1..n
  PROVE  /\ \A k \in 1..n : m = k \/ m \in 1..(k - 1) \/ k \in 1..(m - 1)
         /\ \A k \in 1..(m - 1) : k \in 1..n /\ k # m
OBVIOUS

\* The steps have no error exactly when the pipeline can run.
LEMMA StepsWork ==
  ASSUME NEW S, \A s \in S : s.function \in Functions \cup {""}, NEW steps \in Seq(S)
  PROVE  StepErrors(steps) = {} <=>
           /\ \A s \in Range(steps) : s.name # "" /\ s.function \in Functions
           /\ \A i, j \in DOMAIN steps : steps[i].name = steps[j].name => i = j
           /\ \A s \in Range(steps) : health[s.function] = "True"
<1>0. DOMAIN steps = 1..Len(steps) /\ Len(steps) \in Nat /\ \A i \in 1..Len(steps) : steps[i] \in S
  BY LenProperties, ElementOfSeq
<1>2. PICK n \in Nat : DOMAIN steps = 1..n
  BY <1>0
<1>1. \A s \in Range(steps) : s.function \in Functions \cup {""}
  <2>1. \A i \in DOMAIN steps : steps[i] \in S
    BY <1>0
  <2> QED  BY <2>1 DEF Range
<1> DEFINE Nameless == {t \in Range(steps) : t.name = ""}
           Doubles == {j \in DOMAIN steps : \E k \in 1..(j - 1) : steps[j].name # "" /\ steps[k].name = steps[j].name}
           Loose == {t \in Range(steps) : t.function = ""}
           Ill == {t \in Range(steps) : t.function \in Functions /\ health[t.function] # "True"}
<1> HIDE DEF Nameless, Doubles, Loose, Ill
<1>3. StepErrors(steps) = {} <=> Nameless = {} /\ Doubles = {} /\ Loose = {} /\ Ill = {}
  <2>1. StepErrors(steps) = {"name" : s \in Nameless} \cup {"duplicate" : i \in Doubles}
                              \cup {"functionRef" : s \in Loose} \cup {"function" : s \in Ill}
    BY DEF StepErrors, Nameless, Doubles, Loose, Ill
  <2> QED  BY <2>1
<1>4. Nameless = {} =>
        (Doubles = {} <=> \A i, j \in DOMAIN steps : steps[i].name = steps[j].name => i = j)
  <2> SUFFICES ASSUME Nameless = {}
               PROVE  Doubles = {} <=> \A i, j \in DOMAIN steps : steps[i].name = steps[j].name => i = j
    OBVIOUS
  <2>1. \A i \in DOMAIN steps : steps[i].name # ""
    <3>1. \A i \in DOMAIN steps : steps[i] \in Range(steps)
      BY DEF Range
    <3> QED  BY <3>1 DEF Nameless
  <2>2. ASSUME Doubles = {}, NEW i \in DOMAIN steps, NEW j \in DOMAIN steps, steps[i].name = steps[j].name
        PROVE  i = j
    <3>0. \A m \in DOMAIN steps : \A k \in 1..(m - 1) : steps[k].name # steps[m].name
      BY <2>1, <2>2 DEF Doubles
    <3>1. i \in 1..n /\ j \in 1..n
      BY <1>2, <2>2
    <3>2. i \notin 1..(j - 1) /\ j \notin 1..(i - 1)
      BY <2>2, <3>0
    <3> QED  BY <3>1, <3>2, Positions, Zenon
  <2>3. ASSUME \A i, j \in DOMAIN steps : steps[i].name = steps[j].name => i = j,
               NEW j \in DOMAIN steps, NEW k \in 1..(j - 1), steps[k].name = steps[j].name
        PROVE  FALSE
    <3>2. k \in 1..n /\ k # j
      BY <1>2, <2>3, Positions
    <3> QED  BY <1>2, <2>3, <3>2
  <2> QED  BY <2>2, <2>3 DEF Doubles
<1> QED  BY <1>1, <1>3, <1>4, CompositionsAssumption DEF Nameless, Loose, Ill

\* The type is right exactly when checkCompositeType finds nothing.
LEMMA TypeWorks ==
  ASSUME known = SnapshotOf(xrd), NEW c, c.type # ""
  PROVE  /\ Cardinality(TypeOf(c)) = 1 <=> c.type \in Offers(xrd)
         /\ c.type \in Offers(xrd) => TypeOf(c) = {c.type}
<1>1. DOMAIN known = Offers(xrd)
  BY DEF SnapshotOf
<1>2. "incomplete" \notin Offers(xrd)
  BY CompositionsAssumption DEF Offers
<1>3. TypeOf(c) = IF c.type \in Offers(xrd) THEN {c.type} ELSE {}
  <2>1. Matching(KindOf[c.type], c.type) = {a \in Offers(xrd) : KindOf[a] = KindOf[c.type] /\ c.type \in {"", a}}
    BY <1>1 DEF Matching
  <2>2. \A a : c.type \in {"", a} <=> a = c.type
    OBVIOUS
  <2> QED  BY <1>2, <2>1, <2>2 DEF TypeOf
<1>4. Cardinality({c.type}) = 1 /\ Cardinality({}) = 0
  BY FS_Singleton, FS_EmptySet
<1>5. CASE c.type \in Offers(xrd)
  <2>1. TypeOf(c) = {c.type}
    BY <1>3, <1>5
  <2>2. Cardinality(TypeOf(c)) = 1
    BY <1>4, <2>1
  <2> QED  BY <1>5, <2>1, <2>2
<1>6. CASE c.type \notin Offers(xrd)
  <2>1. TypeOf(c) = {}
    BY <1>3, <1>6
  <2>2. Cardinality(TypeOf(c)) = 0
    BY <1>4, <2>1
  <2>3. Cardinality(TypeOf(c)) # 1
    BY <2>2, ZeroIsNotOne, Zenon
  <2> QED  BY <1>6, <2>3
<1> QED  BY <1>5, <1>6

\* The two findings together are the verdict on the Composition.
LEMMA VerdictFollows ==
  ASSUME NEW c \in Compositions, known = SnapshotOf(xrd),
         NEW errors, NEW warnings,
         errors = (IF Cardinality(TypeOf(c)) # 1 THEN {"type"} ELSE {}) \cup
                    (IF c.steps = <<>> THEN (IF c.mode = "Pipeline" THEN {"empty"} ELSE {}) ELSE StepErrors(c.steps)),
         warnings = IF \E a \in TypeOf(c) : CategoryOf[a] # "composite" THEN {"category"} ELSE {}
  PROVE  /\ Works(c) => errors = {}
         /\ errors \cup warnings = {} => Works(c)
<1>1. c.type # ""
  BY CompositionsAssumption
<1>2. Cardinality(TypeOf(c)) = 1 <=> c.type \in Offers(xrd)
  BY <1>1, TypeWorks
<1>3. c.type \in Offers(xrd) => TypeOf(c) = {c.type}
  BY <1>1, TypeWorks
<1> DEFINE S == [name : STRING, function : Functions \cup {""}]
<1>4. c.steps \in Seq(S)
  BY CompositionsAssumption
<1>5. \A s \in S : s.function \in Functions \cup {""}
  OBVIOUS
<1> HIDE DEF S
<1>6. StepErrors(c.steps) = {} <=>
        /\ \A s \in Range(c.steps) : s.name # "" /\ s.function \in Functions
        /\ \A i, j \in DOMAIN c.steps : c.steps[i].name = c.steps[j].name => i = j
        /\ \A s \in Range(c.steps) : health[s.function] = "True"
  BY <1>4, <1>5, StepsWork
<1>7. c.steps = <<>> => StepErrors(c.steps) = {}
  <2> SUFFICES ASSUME c.steps = <<>>  PROVE StepErrors(c.steps) = {}
    OBVIOUS
  <2>1. Range(c.steps) = {} /\ DOMAIN c.steps = {}
    BY DEF Range
  <2> QED  BY <1>6, <2>1
<1>8. errors = {} <=> /\ c.type \in Offers(xrd)
                      /\ StepErrors(c.steps) = {}
                      /\ c.mode = "Pipeline" => c.steps # <<>>
  <2>1. (IF Cardinality(TypeOf(c)) # 1 THEN {"type"} ELSE {}) = {} <=> c.type \in Offers(xrd)
    BY <1>2
  <2> QED  BY <1>7, <2>1
<1>9. c.type \in Offers(xrd) => (warnings = {} <=> CategoryOf[c.type] = "composite")
  BY <1>3
<1> QED  BY <1>6, <1>8, <1>9 DEF Works
------------------------------------------------------------------------------
LEMMA InitChecked == PlaneInit /\ CheckInit => Checked
<1> SUFFICES ASSUME PlaneInit, CheckInit  PROVE Checked
  OBVIOUS
<1>1. PICK tool \in {"validate", "render"} : check = [NoCheck EXCEPT !.tool = tool, !.at = "asked"]
  BY DEF CheckInit
<1>2. check = [tool |-> tool, at |-> "asked", composition |-> [type |-> "none", mode |-> "", steps |-> <<>>],
               errors |-> {}, warnings |-> {}, blind |-> FALSE, dir |-> FALSE,
               expired |-> FALSE, cli |-> "none", heir |-> "none"]
  BY <1>1 DEF NoCheck
<1>3. CheckIsRecord /\ check.at = "asked" /\ check.composition.type = "none"
  BY <1>2 DEF CheckIsRecord
<1> QED  BY <1>3 DEF Checked, Checks, PlaneInit

\* A step of the call; where it leaves and where it gets to.
LEMMA CheckGoesOn ==
  ASSUME Checked, CheckNext, UNCHANGED planeVars
  PROVE  Checked'
<1>0. CheckIsRecord /\ UNCHANGED <<xrd, known, health, composition, events>>
  BY DEF Checked, planeVars, landscape
<1>1. CASE GetComposition
  <2>1. CASE check' = [check EXCEPT !.at = "read", !.composition = composition]
    <3>1. CheckIsRecord' /\ check'.at = "read" /\ check'.composition = composition
      BY <1>0, <2>1 DEF CheckIsRecord
    <3> QED  BY <1>0, <3>1 DEF Checked, Checks
  <2>2. CASE CheckGoes("over")
    <3>1. CheckIsRecord' /\ check'.at = "over" /\ check'.composition = check.composition
      BY <1>0, <2>2 DEF CheckIsRecord, CheckGoes
    <3>2. check.composition.type = "none"
      BY <1>1 DEF GetComposition, Checked
    <3> QED  BY <1>0, <3>1, <3>2 DEF Checked, Checks
  <2> QED  BY <1>1, <2>1, <2>2 DEF GetComposition
<1>2. CASE CheckCompositeType
  <2> DEFINE found == TypeOf(check.composition)
  <2>0. Checks("validate", "read")
    BY <1>2 DEF CheckCompositeType
  <2>1. \/ check' = [check EXCEPT
               !.at = "typed",
               !.errors = IF Cardinality(found) # 1 THEN {"type"} ELSE {},
               !.warnings = IF \E a \in found : CategoryOf[a] # "composite" THEN {"category"} ELSE {}]
        \/ check' = [check EXCEPT !.at = "typed", !.errors = {"type"}, !.blind = TRUE]
    BY <1>2 DEF CheckCompositeType, TypeOf
  <2>2. found' = TypeOf(check'.composition)
    BY <1>0 DEF TypeOf, Matching
  <2> HIDE DEF found
  <2>3. /\ CheckIsRecord' /\ check'.at = "typed" /\ check'.composition = check.composition /\ check'.tool = check.tool
        /\ \/ check'.blind = TRUE
           \/ /\ check'.errors = IF Cardinality(found) # 1 THEN {"type"} ELSE {}
              /\ check'.warnings = IF \E a \in found : CategoryOf[a] # "composite" THEN {"category"} ELSE {}
    <3> DEFINE e == IF Cardinality(found) # 1 THEN {"type"} ELSE {}
               w == IF \E a \in found : CategoryOf[a] # "composite" THEN {"category"} ELSE {}
    <3>1. \/ check' = [check EXCEPT !.at = "typed", !.errors = e, !.warnings = w]
          \/ check' = [check EXCEPT !.at = "typed", !.errors = {"type"}, !.blind = TRUE]
      BY <2>1
    <3> HIDE DEF e, w
    <3>2. /\ CheckIsRecord' /\ check'.at = "typed" /\ check'.composition = check.composition /\ check'.tool = check.tool
          /\ check'.blind = TRUE \/ (check'.errors = e /\ check'.warnings = w)
      BY <1>0, <3>1 DEF CheckIsRecord
    <3> QED  BY <3>2 DEF e, w
  <2>4. TypeOf(check.composition)' = found
    BY <1>0, <2>3 DEF found, TypeOf, Matching
  <2>5. ~check'.blind => TypeFound'
    BY <2>3, <2>4 DEF TypeFound
  <2>6. check'.composition \in Compositions
    BY <2>0, <2>3 DEF Checked
  <2> QED  BY <1>0, <2>3, <2>5, <2>6 DEF Checked, Checks
<1>3. CASE CheckPipeline
  <2> DEFINE c == check.composition
             more == IF c.steps = <<>> THEN (IF c.mode = "Pipeline" THEN {"empty"} ELSE {}) ELSE StepErrors(c.steps)
  <2>0. Checks("validate", "typed") /\ c \in Compositions
    BY <1>3 DEF CheckPipeline, Checked
  <2>1. \/ check' = [check EXCEPT !.at = "over", !.errors = check.errors \cup more]
        \/ check' = [check EXCEPT !.at = "over", !.warnings = check.warnings \cup {"unchecked"}]
    BY <1>3 DEF CheckPipeline
  <2> HIDE DEF more
  <2>2. /\ CheckIsRecord' /\ check'.at = "over" /\ check'.composition = c /\ check'.blind = check.blind
        /\ \/ check'.errors = check.errors \cup more /\ check'.warnings = check.warnings
           \/ check'.errors = check.errors /\ check'.warnings = check.warnings \cup {"unchecked"}
    BY <1>0, <2>1 DEF CheckIsRecord
  <2>3. ASSUME ~check.blind, known = SnapshotOf(xrd)
        PROVE  /\ Works(c) => check'.errors = {}
               /\ check'.errors \cup check'.warnings = {} => Works(c)
    <3>1. TypeFound
      BY <2>0, <2>3 DEF Checked
    <3>2. /\ Works(c) => check.errors \cup more = {}
          /\ (check.errors \cup more) \cup check.warnings = {} => Works(c)
      <4> DEFINE errors == check.errors \cup more
      <4>1. errors = (IF Cardinality(TypeOf(c)) # 1 THEN {"type"} ELSE {}) \cup
                       (IF c.steps = <<>> THEN (IF c.mode = "Pipeline" THEN {"empty"} ELSE {}) ELSE StepErrors(c.steps))
        BY <3>1 DEF TypeFound, more
      <4>2. check.warnings = IF \E a \in TypeOf(c) : CategoryOf[a] # "composite" THEN {"category"} ELSE {}
        BY <3>1 DEF TypeFound
      <4> HIDE DEF errors, c
      <4>3. /\ Works(c) => errors = {}
            /\ errors \cup check.warnings = {} => Works(c)
        BY <2>0, <2>3, <4>1, <4>2, VerdictFollows
      <4> QED  BY <4>3 DEF errors
    <3> QED  BY <2>2, <3>2
  <2>4. Works(c)' <=> Works(c)
    BY <1>0, <2>2 DEF Works, Offers
  <2>5. ~check'.blind => Verdict'
    BY <1>0, <2>2, <2>3, <2>4 DEF Verdict, Works, Offers, SnapshotOf, Preferred
  <2> QED  BY <1>0, <2>2, <2>5 DEF Checked, Checks
<1>4. CASE CLIForks \/ CLIEnds \/ HeirEnds \/ KillCLI
  <2>1. /\ CheckIsRecord'
        /\ check'.tool = check.tool /\ check'.at = check.at /\ check'.composition = check.composition
        /\ check'.errors = check.errors /\ check'.warnings = check.warnings /\ check'.blind = check.blind
    BY <1>0, <1>4 DEF CLIForks, CLIEnds, HeirEnds, KillCLI, CheckIsRecord
  <2>2. TypeFound' = TypeFound /\ Verdict' = Verdict
    BY <1>0, <2>1 DEF TypeFound, TypeOf, Matching, Verdict, Works, Offers, SnapshotOf, Preferred
  <2> QED  BY <1>0, <2>1, <2>2 DEF Checked, Checks
<1>5. CASE \/ ListFunctions \/ MakeDirectory \/ WriteFiles
           \/ Deadline \/ Environment \/ DockerAnswers \/ StartCLI \/ RunReturns \/ RemoveDirectory
  <2>1. check.tool = "render" /\ check.at # "asked"
    BY <1>5 DEF ListFunctions, MakeDirectory, WriteFiles, Deadline, Environment, DockerAnswers, StartCLI,
       RunReturns, RemoveDirectory, Checks
  <2>2. CheckIsRecord' /\ check'.tool = "render" /\ check'.at # "asked"
    BY <1>0, <1>5, <2>1 DEF ListFunctions, MakeDirectory, WriteFiles, Deadline, Environment, DockerAnswers,
       StartCLI, RunReturns, RemoveDirectory, CheckGoes, CheckIsRecord
  <2> QED  BY <1>0, <2>2 DEF Checked, Checks
<1> QED  BY <1>1, <1>2, <1>3, <1>4, <1>5 DEF CheckNext, ValidateNext, RenderNext

LEMMA NextChecked ==
  Checked /\ [CheckNext \/ (PlaneChanges /\ UNCHANGED check)]_<<planeVars, check>> => Checked'
<1> SUFFICES ASSUME Checked, [CheckNext \/ (PlaneChanges /\ UNCHANGED check)]_<<planeVars, check>>  PROVE Checked'
  OBVIOUS
<1>1. CASE CheckNext
  <2>1. UNCHANGED planeVars
    BY <1>1 DEF CheckNext, ValidateNext, RenderNext, GetComposition, CheckCompositeType, CheckPipeline,
       ListFunctions, MakeDirectory, WriteFiles, Deadline, Environment, DockerAnswers, StartCLI,
       CLIForks, CLIEnds, HeirEnds, KillCLI, RunReturns, RemoveDirectory
  <2> QED  BY <1>1, <2>1, CheckGoesOn
<1>2. CASE PlaneChanges /\ UNCHANGED check
  <2>1. events' \in Nat /\ events' # 0 /\ composition' \in Compositions /\ known' = known /\ check' = check
    BY <1>2 DEF PlaneChanges, Checked
  <2>2. TypeFound' = TypeFound
    BY <2>1 DEF TypeFound, TypeOf, Matching
  <2> QED  BY <2>1, <2>2 DEF Checked, Checks, CheckIsRecord
<1>3. CASE UNCHANGED <<planeVars, check>>
  BY <1>3 DEF Checked, Checks, CheckIsRecord, TypeFound, TypeOf, Matching, Verdict, Works, Offers, SnapshotOf,
     Preferred, planeVars, landscape
<1> QED  BY <1>1, <1>2, <1>3

\* A Composition that works here is found without an error, and one without a
\* finding works, for any APIs and functions, on a control plane nobody changes
\* while it is looked at (validate.go:33, 58-171).
THEOREM ValidationIsRight == CheckSpec => []VerdictIsRight
<1>1. Checked => VerdictIsRight
  BY DEF Checked, Verdict, VerdictIsRight
<1> QED  BY <1>1, InitChecked, NextChecked, PTL DEF CheckSpec

(***************************************************************************)
(* How a call ends.  The directory is there from MakeDirectory to the      *)
(* deferred call, and only then; the processes are, while cmd.Run waits.   *)
(***************************************************************************)
Lives == {"none", "alive", "gone"}

Tidy ==
  /\ check.at \in {"asked", "read", "typed", "listed", "writing", "written", "inspecting", "ready",
                   "running", "leaving", "over"}
  /\ check.dir <=> check.at \in {"writing", "written", "inspecting", "ready", "running", "leaving"}
  /\ check.expired \in BOOLEAN /\ check.cli \in Lives /\ check.heir \in Lives
  /\ "alive" \in {check.cli, check.heir} => check.at = "running"
  /\ check.at \notin {"running", "leaving", "over"} => check.cli = "none" /\ check.heir = "none"

\* A step of the call itself.
Alike == check'.expired = check.expired /\ check'.cli = check.cli /\ check'.heir = check.heir

LEMMA GoesTo ==
  ASSUME CheckIsRecord, NEW place, CheckGoes(place)
  PROVE  check'.at = place /\ check'.dir = check.dir /\ Alike
BY DEF CheckIsRecord, CheckGoes, Alike

\* What such a step has to do for the call to go on: get further.
LEMMA CallMovesOn ==
  ASSUME Tidy, Alike, StepsOfCall' < StepsOfCall
  PROVE  StepsToGo' < StepsToGo
<1>1. /\ StepsOfCall \in Int /\ StepsOfCall' \in Int
      /\ StepsOfProcess(check.cli) \in Int /\ StepsOfProcess(check.heir) \in Int
  BY DEF StepsOfCall, StepsOfProcess
<1>2. /\ StepsOfProcess(check.cli)' = StepsOfProcess(check.cli)
      /\ StepsOfProcess(check.heir)' = StepsOfProcess(check.heir)
      /\ (IF check.expired THEN 0 ELSE 1)' = IF check.expired THEN 0 ELSE 1
  BY DEF Alike, StepsOfProcess
<1> QED  BY <1>1, <1>2 DEF StepsToGo

LEMMA CheckMovesOn ==
  ASSUME CheckIsRecord, Tidy, CheckNext
  PROVE  Tidy' /\ StepsToGo' < StepsToGo
<1>1. CASE GetComposition
  <2>1. check.at = "asked" /\ check'.at \in {"read", "over"} /\ check'.dir = check.dir /\ Alike
    BY <1>1, GoesTo DEF GetComposition, CheckIsRecord, Alike
  <2> QED  BY <2>1, CallMovesOn DEF Tidy, Alike, StepsOfCall
<1>2. CASE CheckCompositeType
  <2>1. check.at = "read" /\ check'.at = "typed" /\ check'.dir = check.dir /\ Alike
    <3> DEFINE found == IF check.composition.type = "incomplete" THEN {}
                        ELSE Matching(KindOf[check.composition.type], check.composition.type)
               e == IF Cardinality(found) # 1 THEN {"type"} ELSE {}
               w == IF \E a \in found : CategoryOf[a] # "composite" THEN {"category"} ELSE {}
    <3>1. /\ check.at = "read"
          /\ \/ check' = [check EXCEPT !.at = "typed", !.errors = e, !.warnings = w]
             \/ check' = [check EXCEPT !.at = "typed", !.errors = {"type"}, !.blind = TRUE]
      BY <1>2 DEF CheckCompositeType, Checks
    <3> HIDE DEF e, w, found
    <3> QED  BY <3>1 DEF CheckIsRecord, Alike
  <2> QED  BY <2>1, CallMovesOn DEF Tidy, Alike, StepsOfCall
<1>3. CASE CheckPipeline
  <2>1. check.at = "typed" /\ check'.at = "over" /\ check'.dir = check.dir /\ Alike
    <3>1. check.at = "typed"
      BY <1>3 DEF CheckPipeline, Checks
    <3> DEFINE e == check.errors \cup IF check.composition.mode = "Pipeline" THEN {"empty"} ELSE {}
               f == check.errors \cup StepErrors(check.composition.steps)
               w == check.warnings \cup {"unchecked"}
    <3>2. \/ check' = [check EXCEPT !.at = "over", !.errors = e]
          \/ check' = [check EXCEPT !.at = "over", !.errors = f]
          \/ check' = [check EXCEPT !.at = "over", !.warnings = w]
      BY <1>3 DEF CheckPipeline
    <3> HIDE DEF e, f, w
    <3> QED  BY <3>1, <3>2 DEF CheckIsRecord, Alike
  <2> QED  BY <2>1, CallMovesOn DEF Tidy, Alike, StepsOfCall
<1>4. CASE ListFunctions
  <2>1. check.at = "read" /\ check'.at \in {"listed", "over"} /\ check'.dir = check.dir /\ Alike
    BY <1>4, GoesTo DEF ListFunctions, Checks
  <2> QED  BY <2>1, CallMovesOn DEF Tidy, Alike, StepsOfCall
<1>5. CASE MakeDirectory
  <2>1. /\ check.at = "listed" /\ Alike
        /\ (check'.at = "writing" /\ check'.dir) \/ (check'.at = "over" /\ check'.dir = check.dir)
    BY <1>5, GoesTo DEF MakeDirectory, Checks, CheckIsRecord, Alike
  <2> QED  BY <2>1, CallMovesOn DEF Tidy, Alike, StepsOfCall
<1>6. CASE WriteFiles
  <2>1. check.at = "writing" /\ check'.at \in {"written", "leaving"} /\ check'.dir = check.dir /\ Alike
    BY <1>6, GoesTo DEF WriteFiles, Checks
  <2> QED  BY <2>1, CallMovesOn DEF Tidy, Alike, StepsOfCall
<1>7. CASE Deadline
  <2>1. /\ ~check.expired /\ check'.expired /\ check'.at = check.at /\ check'.dir = check.dir
        /\ check'.cli = check.cli /\ check'.heir = check.heir
    BY <1>7 DEF Deadline, CheckIsRecord
  <2> QED  BY <2>1 DEF Tidy, StepsToGo, StepsOfCall, StepsOfProcess, Lives
<1>8. CASE Environment
  <2>1. check.at = "written" /\ check'.at \in {"ready", "inspecting"} /\ check'.dir = check.dir /\ Alike
    BY <1>8, GoesTo DEF Environment, Checks
  <2> QED  BY <2>1, CallMovesOn DEF Tidy, Alike, StepsOfCall
<1>9. CASE DockerAnswers
  <2>1. check.at = "inspecting" /\ check'.at = "ready" /\ check'.dir = check.dir /\ Alike
    BY <1>9, GoesTo DEF DockerAnswers, Checks
  <2> QED  BY <2>1, CallMovesOn DEF Tidy, Alike, StepsOfCall
<1>10. CASE StartCLI
  <2>1. check.at = "ready" /\ check'.dir = check.dir
    BY <1>10, GoesTo DEF StartCLI, Checks, CheckIsRecord
  <2>2. CASE CheckGoes("leaving")
    BY <2>1, <2>2, GoesTo, CallMovesOn DEF Tidy, Alike, StepsOfCall
  <2>3. CASE check' = [check EXCEPT !.at = "running", !.cli = "alive"]
    <3>1. /\ check'.at = "running" /\ check'.cli = "alive" /\ check'.heir = check.heir
          /\ check'.expired = check.expired
      BY <2>3 DEF CheckIsRecord
    <3> QED  BY <2>1, <3>1 DEF Tidy, StepsToGo, StepsOfCall, StepsOfProcess, Lives
  <2> QED  BY <1>10, <2>2, <2>3 DEF StartCLI
<1>11. CASE CLIForks
  <2>1. /\ check.cli = "alive" /\ check.heir = "none" /\ check'.heir = "alive" /\ check'.cli = check.cli
        /\ check'.at = check.at /\ check'.dir = check.dir /\ check'.expired = check.expired
    BY <1>11 DEF CLIForks, CheckIsRecord
  <2> QED  BY <2>1 DEF Tidy, StepsToGo, StepsOfCall, StepsOfProcess, Lives
<1>12. CASE CLIEnds \/ KillCLI
  <2>1. /\ check.cli = "alive" /\ check'.cli = "gone" /\ check'.heir = check.heir
        /\ check'.at = check.at /\ check'.dir = check.dir /\ check'.expired = check.expired
    BY <1>12 DEF CLIEnds, KillCLI, CheckIsRecord
  <2> QED  BY <2>1 DEF Tidy, StepsToGo, StepsOfCall, StepsOfProcess, Lives
<1>13. CASE HeirEnds
  <2>1. /\ check.heir = "alive" /\ check'.heir = "gone" /\ check'.cli = check.cli
        /\ check'.at = check.at /\ check'.dir = check.dir /\ check'.expired = check.expired
    BY <1>13 DEF HeirEnds, CheckIsRecord
  <2> QED  BY <2>1 DEF Tidy, StepsToGo, StepsOfCall, StepsOfProcess, Lives
<1>14. CASE RunReturns
  <2>1. /\ check.at = "running" /\ check.cli = "gone" /\ check.heir # "alive"
        /\ check'.at = "leaving" /\ check'.dir = check.dir /\ Alike
    BY <1>14, GoesTo DEF RunReturns, Checks
  <2> QED  BY <2>1, CallMovesOn DEF Tidy, Alike, StepsOfCall
<1>15. CASE RemoveDirectory
  <2>1. check.at = "leaving" /\ check'.at = "over" /\ ~check'.dir /\ Alike
    BY <1>15 DEF RemoveDirectory, Checks, CheckIsRecord, Alike
  <2> QED  BY <2>1, CallMovesOn DEF Tidy, Alike, StepsOfCall
<1> QED  BY <1>1, <1>2, <1>3, <1>4, <1>5, <1>6, <1>7, <1>8, <1>9, <1>10, <1>11, <1>12, <1>13, <1>14, <1>15
         DEF CheckNext, ValidateNext, RenderNext

LEMMA CheckIsChecked == CheckSpec => []CheckIsRecord
<1>1. Checked => CheckIsRecord
  BY DEF Checked
<1> QED  BY <1>1, InitChecked, NextChecked, PTL DEF CheckSpec

LEMMA InitTidy == CheckInit => Tidy
BY DEF CheckInit, NoCheck, Tidy, Lives

LEMMA NextTidy ==
  CheckIsRecord /\ Tidy /\ [CheckNext \/ (PlaneChanges /\ UNCHANGED check)]_<<planeVars, check>>
  => Tidy' /\ [StepsToGo' < StepsToGo]_check
<1> SUFFICES ASSUME CheckIsRecord, Tidy, [CheckNext \/ (PlaneChanges /\ UNCHANGED check)]_<<planeVars, check>>
             PROVE  Tidy' /\ (check' = check \/ StepsToGo' < StepsToGo)
  OBVIOUS
<1>1. CASE UNCHANGED check
  BY <1>1 DEF Tidy
<1>2. CASE CheckNext
  BY <1>2, CheckMovesOn
<1> QED  BY <1>1, <1>2

\* However a validation or a render ends, and whatever fails on the way, its
\* directory is gone by then, and no process that holds the pipes of the render
\* survives it there (render.go:84-109).
THEOREM NothingStaysBehind == CheckSpec => []NothingIsLeft
<1>1. Tidy => NothingIsLeft
  BY DEF Tidy, NothingIsLeft, Checks
<1> QED  BY <1>1, CheckIsChecked, InitTidy, NextTidy, PTL DEF CheckSpec

\* A validation or a render goes through its stages once, and so do its
\* processes: at most fourteen steps, its deadline and theirs included.  What
\* fairness has to add to RenderEnds is that those the server owes are made.
THEOREM ChecksGoDown == CheckSpec => CheckGoesDown
<1>1. CheckSpec => [](CheckIsRecord /\ Tidy)
  BY CheckIsChecked, InitTidy, NextTidy, PTL DEF CheckSpec
<1> QED  BY <1>1, NextTidy, PTL DEF CheckSpec, CheckGoesDown
==============================================================================
