---------------------------- MODULE Listing_proofs ----------------------------
(***************************************************************************)
(* Proofs about Client.Query and the tools that list with it.              *)
(*                                                                         *)
(* KindQuery, for every finite set of kinds, every set of objects and      *)
(* every concurrency limit: the inductive invariant Bookkeeping, the three *)
(* safety properties that follow from it, that Query implements the        *)
(* abstract search of KindSweep, and that its goroutines never all wait    *)
(* for each other and have so many steps to go (NobodyWaitsForGood,        *)
(* QueriesGoDown).  Nothing of this uses an assumption that Listing adds.  *)
(*                                                                         *)
(* FieldDiff, for any two documents, any keys and any cap: diffFields      *)
(* reports the first drifts.  There is no induction over documents: the    *)
(* proofs take the least number for which something fails.                 *)
(*                                                                         *)
(* Listing, for any arguments, looks and words, and any number of changes: *)
(* nothing the caller wants to know is hidden, the Composition shown is an *)
(* object's own, and the fields reported as drifted are those that are.    *)
(* The inductive invariant ListingInv keeps Bookkeeping under the cut-off  *)
(* lists and says in addition that a list has what stayed, and what an     *)
(* answer was made from.  Its search implements KindSweep with a limit.    *)
(***************************************************************************)
EXTENDS Listing, FiniteSetTheorems, WellFoundedInduction, TLAPS

(***************************************************************************)
(* The comparison of two documents.                                        *)
(***************************************************************************)
\* Every set of numbers that has one has a least one: the form in which proofs
\* below go through the levels of a document and the keys of a level.
LEMMA LeastOf == ASSUME NEW S, S \subseteq Nat, S # {}  PROVE \E x \in S : \A y \in S : x <= y
<1> DEFINE R == OpToRel(<, Nat)
<1>1. IsWellFoundedOn(R, Nat)
  BY NatLessThanWellFounded
<1> HIDE DEF R
<1>2. PICK x \in S : \A y \in S : ~(<<y, x>> \in R)
  BY <1>1, WFMin
<1>3. \A y \in S : x <= y
  <2> SUFFICES ASSUME NEW y \in S, y < x  PROVE FALSE
    OBVIOUS
  <2>1. <<y, x>> \in R
    BY DEF R, OpToRel
  <2> QED  BY <1>2, <2>1
<1> QED  BY <1>3

\* f is the function FlattenSeq defines, up to n.
FlattenTo(lists, f, n) == f = [i \in 1..n |-> IF i = 1 THEN lists[i] ELSE f[i-1] \o lists[i]]

\* There is such a function.
LEMMA FlattenExists ==
  ASSUME NEW lists, NEW N \in Nat
  PROVE  \E f : FlattenTo(lists, f, N)
<1> DEFINE Missing == {n \in Nat : ~(\E f : FlattenTo(lists, f, n))}
<1> SUFFICES ASSUME Missing # {}  PROVE FALSE
  OBVIOUS
<1>1. PICK n \in Missing : \A m \in Missing : n <= m
  BY LeastOf
<1>2. CASE n = 0
  <2> DEFINE g == [i \in 1..0 |-> IF i = 1 THEN lists[i] ELSE i]
  <2>1. g = [i \in 1..0 |-> IF i = 1 THEN lists[i] ELSE g[i-1] \o lists[i]]
    OBVIOUS
  <2>2. FlattenTo(lists, g, 0)
    BY <2>1 DEF FlattenTo
  <2> QED  BY <1>2, <2>2
<1>3. CASE n # 0
  <2>1. n - 1 \in Nat /\ n - 1 \notin Missing
    BY <1>1, <1>3
  <2>2. PICK f : FlattenTo(lists, f, n - 1)
    BY <2>1
  <2> DEFINE g == [i \in 1..n |-> IF i = n THEN (IF i = 1 THEN lists[i] ELSE f[i-1] \o lists[i]) ELSE f[i]]
  <2>3. \A i \in 1..n : g[i] = IF i = 1 THEN lists[i] ELSE g[i-1] \o lists[i]
    <3> SUFFICES ASSUME NEW i \in 1..n  PROVE g[i] = IF i = 1 THEN lists[i] ELSE g[i-1] \o lists[i]
      OBVIOUS
    <3>0. n \in Nat
      BY <1>1
    <3>1. i # 1 => i - 1 \in 1..n /\ i - 1 # n
      BY <3>0
    <3>2. i # 1 => g[i-1] = f[i-1]
      BY <3>1
    <3>3. i # n => f[i] = IF i = 1 THEN lists[i] ELSE f[i-1] \o lists[i]
      <4>1. i # n => i \in 1..(n - 1)
        BY <3>0
      <4>2. f = [j \in 1..(n - 1) |-> IF j = 1 THEN lists[j] ELSE f[j-1] \o lists[j]]
        BY <2>2 DEF FlattenTo
      <4>3. \A j \in 1..(n - 1) : f[j] = IF j = 1 THEN lists[j] ELSE f[j-1] \o lists[j]
        BY <4>2
      <4> QED  BY <4>1, <4>3
    <3> HIDE DEF g
    <3>4. i = n => g[i] = IF i = 1 THEN lists[i] ELSE f[i-1] \o lists[i]
      BY DEF g
    <3>5. i # n => g[i] = f[i]
      BY DEF g
    <3> QED  BY <3>2, <3>3, <3>4, <3>5
  <2>4. g = [i \in 1..n |-> IF i = 1 THEN lists[i] ELSE g[i-1] \o lists[i]]
    <3>1. g = [i \in 1..n |-> g[i]]
      OBVIOUS
    <3> HIDE DEF g
    <3> QED  BY <2>3, <3>1
  <2>5. FlattenTo(lists, g, n)
    <3> HIDE DEF g
    <3> QED  BY <2>4 DEF FlattenTo
  <2> QED  BY <1>1, <2>5
<1> QED  BY <1>2, <1>3

\* FlattenSeq appends one list after the other.
LEMMA FlattenStepwise ==
  ASSUME NEW S, NEW lists \in Seq(Seq(S)), Len(lists) # 0
  PROVE  \E f : /\ FlattenSeq(lists) = f[Len(lists)]
                /\ f[1] = lists[1]
                /\ \A i \in 2..Len(lists) : f[i] = f[i-1] \o lists[i]
<1> DEFINE f == CHOOSE f : f = [i \in 1..Len(lists) |-> IF i = 1 THEN lists[i] ELSE f[i-1] \o lists[i]]
<1>1. FlattenSeq(lists) = f[Len(lists)]
  BY DEF FlattenSeq
<1>2. Len(lists) \in Nat
  OBVIOUS
<1>3. \E g : g = [i \in 1..Len(lists) |-> IF i = 1 THEN lists[i] ELSE g[i-1] \o lists[i]]
  BY <1>2, FlattenExists DEF FlattenTo
<1>4. f = [i \in 1..Len(lists) |-> IF i = 1 THEN lists[i] ELSE f[i-1] \o lists[i]]
  BY <1>3
<1> HIDE DEF f
<1>5. f[1] = lists[1]
  BY <1>2, <1>4
<1>6. ASSUME NEW i \in 2..Len(lists)  PROVE f[i] = f[i-1] \o lists[i]
  <2>1. i \in 1..Len(lists) /\ i # 1
    BY <1>2
  <2> QED  BY <1>4, <2>1
<1> QED  BY <1>1, <1>5, <1>6

Paths == Seq(Range(Keys))

\* s lists elements of A in order, without gaps among its first MaxDriftFields:
\* what it leaves out comes after those, and there are that many.
FirstOf(s, A) ==
  /\ s \in Seq(Paths)
  /\ \A i \in 1..Len(s) : s[i] \in A
  /\ \A i, j \in 1..Len(s) : i < j => Before(s[i], s[j])
  /\ \A p \in A :
       \/ \E i \in 1..Len(s) : s[i] = p
       \/ Len(s) >= MaxDriftFields /\ \A j \in 1..MaxDriftFields : Before(s[j], p)

\* It may be cut already: the first drifts of two parts, one before the other,
\* are the first drifts of both.
LEMMA FirstOfBoth ==
  ASSUME NEW s, NEW t, NEW A, NEW B, FirstOf(s, A), FirstOf(t, B),
         \A p \in A, q \in B : Before(p, q)
  PROVE  FirstOf(s \o t, A \cup B)
<1> USE DriftAssumption
<1> DEFINE u == s \o t
<1>1. s \in Seq(Paths) /\ t \in Seq(Paths) /\ Len(s) \in Nat /\ Len(t) \in Nat
  BY DEF FirstOf
<1>2. u \in Seq(Paths) /\ Len(u) = Len(s) + Len(t)
  BY <1>1
<1>3. /\ \A i \in 1..Len(s) : u[i] = s[i]
      /\ \A i \in 1..Len(t) : u[i + Len(s)] = t[i]
  BY <1>1
<1>4. \A i \in 1..Len(u) : i > Len(s) => i - Len(s) \in 1..Len(t) /\ u[i] = t[i - Len(s)]
  BY <1>1, <1>2
<1> HIDE DEF u
<1>5. ASSUME NEW i \in 1..Len(u)  PROVE u[i] \in A \cup B
  <2>1. CASE i <= Len(s)
    <3>1. i \in 1..Len(s)
      BY <1>1, <1>2, <2>1
    <3> QED  BY <3>1, <1>3 DEF FirstOf
  <2>2. CASE i > Len(s)
    BY <2>2, <1>4 DEF FirstOf
  <2> QED  BY <1>1, <1>2, <2>1, <2>2
<1>6. \A i, j \in 1..Len(u) : i < j => Before(u[i], u[j])
  <2> SUFFICES ASSUME NEW i \in 1..Len(u), NEW j \in 1..Len(u), i < j  PROVE Before(u[i], u[j])
    OBVIOUS
  <2>1. CASE j <= Len(s)
    <3>1. i \in 1..Len(s) /\ j \in 1..Len(s)
      BY <1>1, <1>2, <2>1
    <3> QED  BY <3>1, <1>3 DEF FirstOf
  <2>2. CASE i > Len(s)
    <3>1. i - Len(s) < j - Len(s) /\ j > Len(s)
      BY <1>1, <1>2, <2>2
    <3> QED  BY <3>1, <2>2, <1>4 DEF FirstOf
  <2>3. CASE i <= Len(s) /\ j > Len(s)
    <3>1. i \in 1..Len(s)
      BY <1>1, <1>2, <2>3
    <3>2. u[i] \in A /\ u[j] \in B
      BY <3>1, <2>3, <1>3, <1>4 DEF FirstOf
    <3> QED  BY <3>2
  <2> QED  BY <1>1, <1>2, <2>1, <2>2, <2>3
<1>7. ASSUME NEW p \in A
      PROVE  \/ \E i \in 1..Len(u) : u[i] = p
             \/ Len(u) >= MaxDriftFields /\ \A j \in 1..MaxDriftFields : Before(u[j], p)
  <2>1. CASE \E i \in 1..Len(s) : s[i] = p
    <3>1. PICK i \in 1..Len(s) : s[i] = p
      BY <2>1
    <3>2. i \in 1..Len(u) /\ u[i] = p
      BY <3>1, <1>1, <1>2, <1>3
    <3> QED  BY <3>2
  <2>2. CASE Len(s) >= MaxDriftFields /\ \A j \in 1..MaxDriftFields : Before(s[j], p)
    <3>1. \A j \in 1..MaxDriftFields : u[j] = s[j]
      BY <2>2, <1>1, <1>3
    <3>2. Len(u) >= MaxDriftFields
      BY <2>2, <1>1, <1>2
    <3> QED  BY <3>1, <3>2, <2>2
  <2> QED  BY <2>1, <2>2 DEF FirstOf
<1>8. ASSUME NEW p \in B
      PROVE  \/ \E i \in 1..Len(u) : u[i] = p
             \/ Len(u) >= MaxDriftFields /\ \A j \in 1..MaxDriftFields : Before(u[j], p)
  <2>1. CASE \E i \in 1..Len(t) : t[i] = p
    <3>1. PICK i \in 1..Len(t) : t[i] = p
      BY <2>1
    <3>2. i + Len(s) \in 1..Len(u) /\ u[i + Len(s)] = p
      BY <3>1, <1>1, <1>2, <1>3
    <3> QED  BY <3>2
  <2>2. CASE Len(t) >= MaxDriftFields /\ \A j \in 1..MaxDriftFields : Before(t[j], p)
    <3>1. Len(u) >= MaxDriftFields
      BY <2>2, <1>1, <1>2
    <3>2. ASSUME NEW j \in 1..MaxDriftFields  PROVE Before(u[j], p)
      <4>1. CASE j <= Len(s)
        <5>1. j \in 1..Len(s)
          BY <4>1, <1>1
        <5>2. u[j] \in A
          BY <5>1, <1>3 DEF FirstOf
        <5> QED  BY <5>2
      <4>2. CASE j > Len(s)
        <5>1. j \in 1..Len(u) /\ j - Len(s) \in 1..MaxDriftFields
          BY <4>2, <1>1, <3>1
        <5> QED  BY <5>1, <4>2, <2>2, <1>4
      <4> QED  BY <4>1, <4>2, <1>1
    <3> QED  BY <3>1, <3>2
  <2> QED  BY <2>1, <2>2 DEF FirstOf
<1> QED  BY <1>2, <1>5, <1>6, <1>7, <1>8 DEF FirstOf, u

\* Cutting off leaves the first drifts.
LEMMA FirstOfCapped ==
  ASSUME NEW s, NEW A, FirstOf(s, A)
  PROVE  FirstOf(Capped(s), A) /\ Len(Capped(s)) <= MaxDriftFields
<1> USE DriftAssumption
<1>1. s \in Seq(Paths) /\ Len(s) \in Nat
  BY DEF FirstOf
<1>2. CASE Len(s) <= MaxDriftFields
  BY <1>1, <1>2 DEF Capped
<1>3. CASE Len(s) > MaxDriftFields
  <2> DEFINE c == SubSeq(s, 1, MaxDriftFields)
  <2>1. Capped(s) = c
    BY <1>3 DEF Capped
  <2>2. c \in Seq(Paths) /\ Len(c) = MaxDriftFields
    BY <1>1, <1>3
  <2>3. \A i \in 1..MaxDriftFields : c[i] = s[i] /\ i \in 1..Len(s)
    BY <1>1, <1>3
  <2> HIDE DEF c
  <2>4. \A i \in 1..Len(c) : c[i] \in A
    BY <2>2, <2>3 DEF FirstOf
  <2>5. \A i, j \in 1..Len(c) : i < j => Before(c[i], c[j])
    BY <2>2, <2>3 DEF FirstOf
  <2>6. ASSUME NEW p \in A
        PROVE  \/ \E i \in 1..Len(c) : c[i] = p
               \/ Len(c) >= MaxDriftFields /\ \A j \in 1..MaxDriftFields : Before(c[j], p)
    <3>1. CASE \E i \in 1..Len(s) : s[i] = p
      <4>1. PICK i \in 1..Len(s) : s[i] = p
        BY <3>1
      <4>2. CASE i <= MaxDriftFields
        <5>1. i \in 1..Len(c)
          BY <4>2, <2>2
        <5> QED  BY <5>1, <4>1, <2>2, <2>3
      <4>3. CASE i > MaxDriftFields
        <5>1. \A j \in 1..MaxDriftFields : j \in 1..Len(s) /\ j < i
          BY <4>3, <1>1
        <5>2. \A j \in 1..MaxDriftFields : Before(s[j], p)
          BY <5>1, <4>1 DEF FirstOf
        <5> QED  BY <5>2, <2>2, <2>3
      <4> QED  BY <4>2, <4>3
    <3>2. CASE Len(s) >= MaxDriftFields /\ \A j \in 1..MaxDriftFields : Before(s[j], p)
      BY <3>2, <2>2, <2>3
    <3> QED  BY <3>1, <3>2 DEF FirstOf
  <2>7. FirstOf(c, A)
    BY <2>2, <2>4, <2>5, <2>6 DEF FirstOf
  <2> QED  BY <2>1, <2>2, <2>7
<1> QED  BY <1>1, <1>2, <1>3

\* A key has one place in the order of keys.
LEMMA KeyPlaces ==
  /\ Keys \in Seq(Range(Keys))
  /\ \A i \in DOMAIN Keys : Keys[i] \in Range(Keys) /\ Place(Keys[i]) = i
  /\ \A key \in Range(Keys) : Place(key) \in DOMAIN Keys /\ Keys[Place(key)] = key
<1>1. \A i \in DOMAIN Keys : Keys[i] \in Range(Keys)
  BY DEF Range
<1>2. \A i, j \in DOMAIN Keys : Keys[i] = Keys[j] => i = j
  BY DriftAssumption DEF IsInjective
<1>3. ASSUME NEW key \in Range(Keys)  PROVE Place(key) \in DOMAIN Keys /\ Keys[Place(key)] = key
  <2>1. \E i \in DOMAIN Keys : Keys[i] = key
    BY DEF Range
  <2> QED  BY <2>1 DEF Place
<1>4. \A i \in DOMAIN Keys : Place(Keys[i]) = i
  BY <1>1, <1>2, <1>3
<1> QED  BY <1>1, <1>3, <1>4, DriftAssumption

\* A path goes on below another path with one key if it goes on there and has
\* that key next.
LEMMA PrefixStep ==
  ASSUME NEW K, NEW p \in Seq(K), NEW prefix \in Seq(K), NEW key \in K, Len(p) > Len(prefix)
  PROVE  SubSeq(p, 1, Len(prefix) + 1) = Append(prefix, key)
           <=> SubSeq(p, 1, Len(prefix)) = prefix /\ p[Len(prefix) + 1] = key
<1> DEFINE n == Len(prefix)
           long == SubSeq(p, 1, n + 1)
           short == SubSeq(p, 1, n)
           path == Append(prefix, key)
<1>1. n \in Nat /\ Len(p) \in Nat /\ Len(p) > n
  OBVIOUS
<1>2. long \in Seq(K) /\ Len(long) = n + 1 /\ \A i \in 1..(n + 1) : long[i] = p[i]
  BY <1>1
<1>3. short \in Seq(K) /\ Len(short) = n /\ \A i \in 1..n : short[i] = p[i]
  BY <1>1
<1>4. path \in Seq(K) /\ Len(path) = n + 1 /\ path[n + 1] = key /\ \A i \in 1..n : path[i] = prefix[i]
  BY <1>1
<1>5. prefix \in Seq(K) /\ Len(prefix) = n
  OBVIOUS
<1> HIDE DEF n, long, short, path
<1>6. long = path => short = prefix /\ p[n + 1] = key
  <2> SUFFICES ASSUME long = path  PROVE short = prefix /\ p[n + 1] = key
    OBVIOUS
  <2>1. p[n + 1] = key
    BY <1>1, <1>2, <1>4
  <2>2. \A i \in 1..n : short[i] = prefix[i]
    BY <1>1, <1>2, <1>3, <1>4
  <2> QED  BY <2>1, <2>2, <1>3, <1>5
<1>7. ASSUME short = prefix, p[n + 1] = key  PROVE long = path
  <2>1. ASSUME NEW i \in 1..(n + 1)  PROVE long[i] = path[i]
    <3>1. CASE i = n + 1
      BY <3>1, <1>7, <1>1, <1>2, <1>4
    <3>2. CASE i # n + 1
      <4>1. i \in 1..n
        BY <3>2, <1>1
      <4> QED  BY <4>1, <1>7, <1>1, <1>2, <1>3, <1>4
    <3> QED  BY <3>1, <3>2
  <2> QED  BY <2>1, <1>2, <1>4
<1> QED  BY <1>6, <1>7 DEF n, long, short, path

\* The drifts of the two documents that are below a path.
DriftsBelow(prefix, desired, observed) ==
  {p \in DriftedPaths(desired, observed) : Len(p) > Len(prefix) /\ SubSeq(p, 1, Len(prefix)) = prefix}

\* Those that go on with one key.
Under(key, prefix, desired, observed) ==
  {p \in DriftsBelow(prefix, desired, observed) : p[Len(prefix) + 1] = key}

\* What drifts and where the walk goes are paths.
LEMMA DriftPaths ==
  ASSUME NEW desired, NEW observed, IsDocument(desired), IsDocument(observed)
  PROVE  /\ DriftedPaths(desired, observed) \subseteq Paths
         /\ Levels(desired, observed) \subseteq Paths
BY DEF DriftedPaths, Levels, IsDocument, Paths

\* What a level has for one of its keys are the first drifts under that key.
LEMMA DriftsAtKey ==
  ASSUME NEW desired, NEW observed, IsDocument(desired), IsDocument(observed),
         NEW prefix \in Levels(desired, observed), NEW key \in Range(Keys), NEW below,
         Append(prefix, key) \in Levels(desired, observed) =>
           FirstOf(below[Append(prefix, key)], DriftsBelow(Append(prefix, key), desired, observed))
  PROVE  FirstOf(DriftsAt(Append(prefix, key), desired, observed, below), Under(key, prefix, desired, observed))
<1> DEFINE n == Len(prefix)
           path == Append(prefix, key)
           all == Under(key, prefix, desired, observed)
<1>1. prefix \in Paths /\ path \in Paths /\ n \in Nat /\ Len(path) = n + 1
  BY DriftPaths DEF Paths
<1>2. \A p \in Paths : Len(p) \in Nat
  BY DEF Paths
<1>3. \A p \in Paths : Len(p) > n =>
        (SubSeq(p, 1, n + 1) = path <=> SubSeq(p, 1, n) = prefix /\ p[n + 1] = key)
  BY <1>1, PrefixStep DEF Paths
<1>4. all = {p \in DriftedPaths(desired, observed) : Len(p) > n /\ SubSeq(p, 1, n + 1) = path}
  BY <1>3, DriftPaths DEF Under, DriftsBelow
<1>5. \A p \in Paths : Len(p) = n + 1 => SubSeq(p, 1, n + 1) = p
  BY <1>1 DEF Paths
<1>6. \A p \in all : Len(p) = n + 1 => p = path
  BY <1>4, <1>5, DriftPaths
<1> HIDE DEF n, path, all
\* Whatever is further down has a map here, in both documents.
<1>7. ASSUME NEW p \in all, Len(p) # n + 1
      PROVE  path \in Levels(desired, observed)
  <2>1. p \in DOMAIN desired \cap DOMAIN observed /\ Len(p) \in Nat /\ Len(p) > n + 1
    BY <1>1, <1>2, <1>4, <1>7, DriftPaths DEF DriftedPaths
  <2>2. n + 1 \in 0..(Len(p) - 1)
    BY <1>1, <2>1
  <2>3. SubSeq(p, 1, n + 1) = path
    BY <1>4
  <2> QED  BY <2>1, <2>2, <2>3 DEF IsDocument, Levels
<1>8. CASE path \in Levels(desired, observed)
  <2>1. path \notin DriftedPaths(desired, observed)
    BY <1>8 DEF Levels, DriftedPaths
  <2>2. DriftsBelow(path, desired, observed) = all
    <3>1. DriftsBelow(path, desired, observed)
            = {p \in DriftedPaths(desired, observed) : Len(p) > n + 1 /\ SubSeq(p, 1, n + 1) = path}
      BY <1>1 DEF DriftsBelow
    <3>2. \A p \in all : Len(p) # n + 1
      BY <1>4, <1>6, <2>1
    <3> QED  BY <3>1, <3>2, <1>1, <1>2, <1>4, DriftPaths
  <2>3. DriftsAt(path, desired, observed, below) = below[path]
    BY <1>8 DEF DriftsAt, Levels
  <2> QED  BY <2>2, <2>3, <1>8 DEF path, all
<1>9. CASE path \notin Levels(desired, observed)
  <2>1. \A p \in all : p = path
    BY <1>6, <1>7, <1>9
  <2>2. all = {p \in {path} : path \in DriftedPaths(desired, observed)}
    <3>1. path \in DriftedPaths(desired, observed) => path \in all
      BY <1>1, <1>4, <1>5
    <3>2. all \subseteq DriftedPaths(desired, observed)
      BY <1>4
    <3> QED  BY <2>1, <3>1, <3>2
  <2>3. CASE path \in DriftedPaths(desired, observed)
    <3>1. DriftsAt(path, desired, observed, below) = <<path>>
      BY <2>3, <1>9 DEF DriftsAt, DriftedPaths
    <3>2. all = {path}
      BY <2>2, <2>3
    <3>3. FirstOf(<<path>>, {path})
      BY <1>1 DEF FirstOf
    <3> QED  BY <3>1, <3>2, <3>3 DEF path, all
  <2>4. CASE path \notin DriftedPaths(desired, observed)
    <3>1. DriftsAt(path, desired, observed, below) = <<>>
      BY <2>4, <1>9 DEF DriftsAt, DriftedPaths
    <3>2. all = {}
      BY <2>2, <2>4
    <3>3. FirstOf(<<>>, {})
      BY DEF FirstOf
    <3> QED  BY <3>1, <3>2, <3>3 DEF path, all
  <2> QED  BY <2>3, <2>4
<1> QED  BY <1>8, <1>9

\* What a level reports, given that the levels below report the first drifts
\* below them.
LEMMA DriftsOfLevel ==
  ASSUME NEW desired, NEW observed, IsDocument(desired), IsDocument(observed),
         NEW prefix \in Levels(desired, observed), NEW below,
         \A key \in Range(Keys) : Append(prefix, key) \in Levels(desired, observed) =>
           FirstOf(below[Append(prefix, key)], DriftsBelow(Append(prefix, key), desired, observed))
  PROVE  /\ FirstOf(DriftsOf(prefix, desired, observed, below), DriftsBelow(prefix, desired, observed))
         /\ Len(DriftsOf(prefix, desired, observed, below)) <= MaxDriftFields
<1> DEFINE n == Len(prefix)
           all == DriftsBelow(prefix, desired, observed)
           lists == [i \in DOMAIN Keys |-> DriftsAt(Append(prefix, Keys[i]), desired, observed, below)]
           UpTo(i) == {p \in all : Place(p[n + 1]) <= i}
           At(i) == Under(Keys[i], prefix, desired, observed)
<1>1. Len(Keys) \in Nat /\ DOMAIN Keys = 1..Len(Keys)
  BY DriftAssumption
<1>2. \A i \in 1..Len(Keys) : FirstOf(lists[i], At(i))
  BY DriftsAtKey, KeyPlaces, <1>1
<1>3. lists \in Seq(Seq(Paths)) /\ Len(lists) = Len(Keys)
  <2>1. \A i \in 1..Len(Keys) : lists[i] \in Seq(Paths)
    BY <1>2 DEF FirstOf
  <2>2. DOMAIN lists = 1..Len(Keys)
    BY <1>1
  <2>3. lists = [i \in 1..Len(Keys) |-> lists[i]]
    BY <1>1
  <2> HIDE DEF lists
  <2> QED  BY <1>1, <2>1, <2>2, <2>3
<1>4. /\ prefix \in Paths /\ n \in Nat
      /\ \A p \in all : /\ p \in Paths /\ Len(p) > n /\ SubSeq(p, 1, n) = prefix
                        /\ p[n + 1] \in Range(Keys)
                        /\ Place(p[n + 1]) \in 1..Len(Keys) /\ Keys[Place(p[n + 1])] = p[n + 1]
  <2>1. prefix \in Paths /\ n \in Nat
    BY DriftPaths DEF Paths
  <2>2. \A p \in all : p \in Paths /\ Len(p) > n /\ SubSeq(p, 1, n) = prefix
    BY DriftPaths DEF DriftsBelow
  <2>3. \A p \in Paths : Len(p) > n => p[n + 1] \in Range(Keys)
    BY <2>1 DEF Paths
  <2> HIDE DEF all
  <2> QED  BY <2>1, <2>2, <2>3, KeyPlaces, <1>1
<1>5. \A i \in 1..Len(Keys) : At(i) = {p \in all : Place(p[n + 1]) = i}
  <2> SUFFICES ASSUME NEW i \in 1..Len(Keys)  PROVE At(i) = {p \in all : Place(p[n + 1]) = i}
    OBVIOUS
  <2>1. Place(Keys[i]) = i
    BY KeyPlaces, <1>1
  <2>2. At(i) = {p \in all : p[n + 1] = Keys[i]}
    BY DEF Under
  <2> HIDE DEF At, all
  <2> QED  BY <2>1, <2>2, <1>4
<1>6. \A p, q \in all : Place(p[n + 1]) < Place(q[n + 1]) => Before(p, q)
  <2> SUFFICES ASSUME NEW p \in all, NEW q \in all, Place(p[n + 1]) < Place(q[n + 1])  PROVE Before(p, q)
    OBVIOUS
  <2>1. n + 1 \in DOMAIN p \cap DOMAIN q
    BY <1>4 DEF Paths
  <2>2. SubSeq(p, 1, (n + 1) - 1) = SubSeq(q, 1, (n + 1) - 1)
    BY <1>4
  <2> HIDE DEF n, all
  <2> QED  BY <2>1, <2>2 DEF Before
<1> HIDE DEF n, all, lists, At
<1>7. FirstOf(FlattenSeq(lists), all)
  <2>1. CASE Len(Keys) = 0
    <3>1. FlattenSeq(lists) = <<>>
      BY <1>3, <2>1 DEF FlattenSeq
    <3>2. all = {}
      BY <1>4, <2>1
    <3> QED  BY <3>1, <3>2 DEF FirstOf
  <2>2. CASE Len(Keys) # 0
    <3>1. PICK f : /\ FlattenSeq(lists) = f[Len(Keys)]
                   /\ f[1] = lists[1]
                   /\ \A i \in 2..Len(Keys) : f[i] = f[i-1] \o lists[i]
      <4>1. Len(lists) # 0
        BY <1>3, <2>2
      <4>2. \E f : /\ FlattenSeq(lists) = f[Len(lists)]
                   /\ f[1] = lists[1]
                   /\ \A i \in 2..Len(lists) : f[i] = f[i-1] \o lists[i]
        BY <1>3, <4>1, FlattenStepwise
      <4> QED  BY <4>2, <1>3
    <3> DEFINE Good(i) == FirstOf(f[i], UpTo(i))
               Wrong == {i \in 1..Len(Keys) : ~Good(i)}
    <3>2. Wrong = {}
      <4> SUFFICES ASSUME Wrong # {}  PROVE FALSE
        OBVIOUS
      <4>1. PICK i \in Wrong : \A j \in Wrong : i <= j
        <5> HIDE DEF Good
        <5>1. Wrong \subseteq Nat
          BY <1>1
        <5> QED  BY <5>1, LeastOf
      <4>2. CASE i = 1
        <5>1. UpTo(1) = At(1)
          BY <1>1, <1>4, <1>5, <2>2
        <5> QED  BY <5>1, <3>1, <4>1, <4>2, <1>2
      <4>3. CASE i # 1
        <5>1. i \in 2..Len(Keys) /\ i \in 1..Len(Keys) /\ i - 1 \in 1..Len(Keys) /\ i - 1 < i
          BY <4>1, <4>3, <1>1
        <5>2. Good(i - 1)
          <6> HIDE DEF Good
          <6> QED  BY <4>1, <5>1, <1>1
        <5>3. FirstOf(lists[i], At(i))
          BY <5>1, <1>2
        <5>4. \A p \in UpTo(i - 1), q \in At(i) : Before(p, q)
          BY <5>1, <1>4, <1>5, <1>6
        <5>5. FirstOf(f[i - 1] \o lists[i], UpTo(i - 1) \cup At(i))
          <6> HIDE DEF UpTo
          <6> QED  BY <5>2, <5>3, <5>4, FirstOfBoth
        <5>6. UpTo(i - 1) \cup At(i) = UpTo(i)
          BY <5>1, <1>1, <1>4, <1>5
        <5> QED  BY <5>1, <5>5, <5>6, <4>1, <3>1
      <4> QED  BY <4>2, <4>3
    <3>3. UpTo(Len(Keys)) = all
      BY <1>1, <1>4
    <3>4. Good(Len(Keys))
      <4>1. Len(Keys) \in 1..Len(Keys)
        BY <1>1, <2>2
      <4> HIDE DEF Good
      <4> QED  BY <3>2, <4>1
    <3> QED  BY <3>1, <3>3, <3>4
  <2> QED  BY <2>1, <2>2
<1>8. DriftsOf(prefix, desired, observed, below) = Capped(FlattenSeq(lists))
  BY DEF DriftsOf, lists
<1> QED  BY <1>7, <1>8, FirstOfCapped DEF all

\* A document has no path as long as it has paths.
LEMMA DocumentDepth ==
  ASSUME NEW d, IsDocument(d), NEW p \in DOMAIN d
  PROVE  Cardinality(DOMAIN d) \in Nat /\ Len(p) \in Nat /\ Len(p) < Cardinality(DOMAIN d)
<1> DEFINE S == 0..Len(p)
           f == [i \in S |-> SubSeq(p, 1, i)]
<1>1. p \in Seq(Range(Keys)) /\ Len(p) \in Nat
  BY DEF IsDocument
<1>2. \A i \in S : f[i] \in DOMAIN d
  <2>1. \A i \in 0..(Len(p) - 1) : SubSeq(p, 1, i) \in DOMAIN d
    BY DEF IsDocument
  <2>2. SubSeq(p, 1, Len(p)) = p
    BY <1>1
  <2>3. \A i \in S : i = Len(p) \/ i \in 0..(Len(p) - 1)
    BY <1>1
  <2> QED  BY <2>1, <2>2, <2>3
<1>3. \A i \in S : Len(f[i]) = i
  BY <1>1
<1>4. f \in Injection(S, DOMAIN d)
  <2>1. f \in [S -> DOMAIN d]
    BY <1>2
  <2>2. \A i, j \in S : f[i] = f[j] => i = j
    <3> HIDE DEF f
    <3> QED  BY <1>3
  <2> HIDE DEF f, S
  <2> QED  BY <2>1, <2>2 DEF Injection, IsInjective
<1>5. IsFiniteSet(DOMAIN d)
  BY DEF IsDocument
<1>6. Cardinality(DOMAIN d) \in Nat /\ Cardinality(S) <= Cardinality(DOMAIN d)
  <2> HIDE DEF f, S
  <2> QED  BY <1>4, <1>5, FS_Injection, FS_CardinalityType
<1>7. Cardinality(S) = Len(p) + 1
  BY <1>1, FS_Interval
<1> QED  BY <1>1, <1>6, <1>7

\* A level looks only at the levels right below it.
LEMMA DriftsOfAgree ==
  ASSUME NEW desired, NEW observed, NEW prefix, NEW f, NEW g,
         \A i \in DOMAIN Keys : Append(prefix, Keys[i]) \in Levels(desired, observed) =>
           f[Append(prefix, Keys[i])] = g[Append(prefix, Keys[i])]
  PROVE  DriftsOf(prefix, desired, observed, f) = DriftsOf(prefix, desired, observed, g)
<1>1. \A i \in DOMAIN Keys : DriftsAt(Append(prefix, Keys[i]), desired, observed, f)
                               = DriftsAt(Append(prefix, Keys[i]), desired, observed, g)
  BY DEF DriftsAt
<1>2. [i \in DOMAIN Keys |-> DriftsAt(Append(prefix, Keys[i]), desired, observed, f)]
        = [i \in DOMAIN Keys |-> DriftsAt(Append(prefix, Keys[i]), desired, observed, g)]
  BY <1>1
<1> QED  BY <1>2 DEF DriftsOf

\* The levels that are less than n from the deepest.
Deep(desired, observed, n) ==
  {p \in Levels(desired, observed) : Len(p) + n >= Cardinality(DOMAIN desired)}

\* f is the walk of DiffFields from there on.
WalksFrom(desired, observed, n, f) ==
  f = [p \in Deep(desired, observed, n) |-> DriftsOf(p, desired, observed, f)]

\* A key leads one level down.
LEMMA LevelDepth ==
  ASSUME NEW desired, NEW observed, IsDocument(desired)
  PROVE  /\ Cardinality(DOMAIN desired) \in Nat
         /\ \A p \in Levels(desired, observed) :
              /\ p \in Paths /\ Len(p) \in Nat /\ Len(p) < Cardinality(DOMAIN desired)
              /\ \A i \in DOMAIN Keys : Len(Append(p, Keys[i])) = Len(p) + 1
<1>1. <<>> \in DOMAIN desired
  BY DEF IsDocument
<1>2. Cardinality(DOMAIN desired) \in Nat
  BY <1>1, DocumentDepth
<1>3. ASSUME NEW p \in Levels(desired, observed)
      PROVE  p \in Paths /\ Len(p) \in Nat /\ Len(p) < Cardinality(DOMAIN desired)
  BY DocumentDepth DEF Levels, IsDocument, Paths
<1>4. ASSUME NEW p \in Paths  PROVE \A i \in DOMAIN Keys : Len(Append(p, Keys[i])) = Len(p) + 1
  BY KeyPlaces DEF Paths
<1> QED  BY <1>2, <1>3, <1>4

\* There is a walk of every number of levels: a level looks only further down,
\* and a document ends somewhere.
LEMMA WalkExists ==
  ASSUME NEW desired, NEW observed, IsDocument(desired), NEW N \in Nat
  PROVE  \E f : WalksFrom(desired, observed, N, f)
<1> DEFINE D == Cardinality(DOMAIN desired)
           Missing == {n \in Nat : ~(\E f : WalksFrom(desired, observed, n, f))}
<1> SUFFICES ASSUME Missing # {}  PROVE FALSE
  OBVIOUS
<1>1. PICK n \in Missing : \A m \in Missing : n <= m
  BY LeastOf
<1>2. D \in Nat /\ n \in Nat
  BY <1>1, LevelDepth
<1>3. CASE n = 0
  <2>1. Deep(desired, observed, 0) = {}
    BY LevelDepth DEF Deep
  <2> DEFINE g == [p \in {} |-> p]
  <2>2. g = [p \in {} |-> DriftsOf(p, desired, observed, g)]
    OBVIOUS
  <2>3. WalksFrom(desired, observed, 0, g)
    <3> HIDE DEF g
    <3> QED  BY <2>1, <2>2 DEF WalksFrom
  <2> QED  BY <1>1, <1>3, <2>3
<1>4. CASE n # 0
  <2>1. n - 1 \in Nat /\ n - 1 \notin Missing
    BY <1>1, <1>4
  <2>2. PICK f : WalksFrom(desired, observed, n - 1, f)
    BY <2>1
  <2> DEFINE L == Deep(desired, observed, n)
             g == [p \in L |-> IF p \in Deep(desired, observed, n - 1) THEN f[p] ELSE DriftsOf(p, desired, observed, f)]
  <2>3. ASSUME NEW p \in L  PROVE g[p] = DriftsOf(p, desired, observed, f)
    <3>1. f = [q \in Deep(desired, observed, n - 1) |-> DriftsOf(q, desired, observed, f)]
      BY <2>2 DEF WalksFrom
    <3>2. p \in Deep(desired, observed, n - 1) => f[p] = DriftsOf(p, desired, observed, f)
      BY <3>1
    <3> QED  BY <3>2
  <2>4. ASSUME NEW p \in L, NEW i \in DOMAIN Keys, Append(p, Keys[i]) \in Levels(desired, observed)
        PROVE  f[Append(p, Keys[i])] = g[Append(p, Keys[i])]
    <3> DEFINE q == Append(p, Keys[i])
    <3>1. p \in Levels(desired, observed) /\ Len(p) + n >= D
      BY DEF Deep
    <3>2. Len(q) = Len(p) + 1 /\ Len(p) \in Nat
      BY <3>1, LevelDepth
    <3>3. Len(q) + (n - 1) >= D /\ Len(q) + n >= D
      BY <1>2, <3>1, <3>2
    <3>4. q \in L /\ q \in Deep(desired, observed, n - 1)
      BY <2>4, <3>3 DEF Deep
    <3> QED  BY <3>4
  <2>5. ASSUME NEW p \in L  PROVE g[p] = DriftsOf(p, desired, observed, g)
    <3> HIDE DEF g
    <3>1. DriftsOf(p, desired, observed, f) = DriftsOf(p, desired, observed, g)
      BY <2>4, DriftsOfAgree
    <3> QED  BY <2>3, <3>1
  <2>6. g = [p \in L |-> DriftsOf(p, desired, observed, g)]
    <3>1. g = [p \in L |-> g[p]]
      OBVIOUS
    <3> HIDE DEF g
    <3> QED  BY <2>5, <3>1
  <2>7. WalksFrom(desired, observed, n, g)
    <3> HIDE DEF g
    <3> QED  BY <2>6 DEF WalksFrom
  <2> QED  BY <1>1, <2>7
<1> QED  BY <1>3, <1>4

\* DiffFields is what the walk has at the root, and the walk is what its
\* definition says.
LEMMA WalkStepwise ==
  ASSUME NEW desired, NEW observed, IsDocument(desired)
  PROVE  \E walk : /\ DiffFields(desired, observed) = walk[<<>>]
                   /\ \A p \in Levels(desired, observed) : walk[p] = DriftsOf(p, desired, observed, walk)
<1> DEFINE walk == CHOOSE f : f = [p \in Levels(desired, observed) |-> DriftsOf(p, desired, observed, f)]
<1>1. DiffFields(desired, observed) = walk[<<>>]
  BY DEF DiffFields
<1>2. \E f : f = [p \in Levels(desired, observed) |-> DriftsOf(p, desired, observed, f)]
  <2>1. Deep(desired, observed, Cardinality(DOMAIN desired)) = Levels(desired, observed)
    BY LevelDepth DEF Deep
  <2> QED  BY <2>1, LevelDepth, WalkExists DEF WalksFrom
<1>3. walk = [p \in Levels(desired, observed) |-> DriftsOf(p, desired, observed, walk)]
  BY <1>2
<1> HIDE DEF walk
<1> QED  BY <1>1, <1>3

\* However deep two documents are, and although every level cuts its own list:
\* diffFields reports the first maxDriftFields paths at which they differ, in
\* order, and all of them if there are no more (drift.go:148-191).
THEOREM DiffFieldsFirst ==
  ASSUME NEW desired, NEW observed, IsDocument(desired), IsDocument(observed)
  PROVE  /\ FirstOf(DiffFields(desired, observed), DriftedPaths(desired, observed))
         /\ Len(DiffFields(desired, observed)) <= MaxDriftFields
<1> DEFINE D == Cardinality(DOMAIN desired)
<1>1. PICK walk : /\ DiffFields(desired, observed) = walk[<<>>]
                  /\ \A p \in Levels(desired, observed) : walk[p] = DriftsOf(p, desired, observed, walk)
  BY WalkStepwise
<1> DEFINE Good(p) == FirstOf(walk[p], DriftsBelow(p, desired, observed))
           Wrong == {n \in Nat : \E p \in Levels(desired, observed) : Len(p) + n = D /\ ~Good(p)}
<1>2. D \in Nat /\ \A p \in Levels(desired, observed) : Len(p) \in Nat /\ Len(p) < D
  BY LevelDepth
<1>3. Wrong = {}
  <2> SUFFICES ASSUME Wrong # {}  PROVE FALSE
    OBVIOUS
  <2>1. PICK n \in Wrong : \A m \in Wrong : n <= m
    <3> HIDE DEF Good
    <3> QED  BY LeastOf
  <2>2. PICK p \in Levels(desired, observed) : Len(p) + n = D /\ ~Good(p)
    <3> HIDE DEF Good
    <3> QED  BY <2>1
  <2>3. ASSUME NEW key \in Range(Keys), Append(p, key) \in Levels(desired, observed)
        PROVE  Good(Append(p, key))
    <3> DEFINE q == Append(p, key)
    <3>1. Len(q) = Len(p) + 1
      BY LevelDepth, KeyPlaces
    <3>2. n \in Nat /\ n - 1 \in Nat /\ Len(q) + (n - 1) = D
      BY <1>2, <2>1, <2>2, <2>3, <3>1
    <3>3. n - 1 \notin Wrong
      <4> HIDE DEF Wrong
      <4> QED  BY <2>1, <3>2
    <3> HIDE DEF Good
    <3> QED  BY <2>3, <3>2, <3>3
  <2>4. Good(p)
    BY <2>3, <1>1, DriftsOfLevel
  <2> QED  BY <2>2, <2>4
<1>4. <<>> \in Levels(desired, observed) /\ Len(<<>>) = 0
  BY DEF Levels, IsDocument
<1>5. Good(<<>>)
  <2> HIDE DEF Good
  <2>1. D \notin Wrong
    BY <1>3
  <2> QED  BY <1>2, <1>4, <2>1
<1>6. DriftsBelow(<<>>, desired, observed) = DriftedPaths(desired, observed)
  <2>1. ASSUME NEW p \in DriftedPaths(desired, observed)
        PROVE  Len(p) > Len(<<>>) /\ SubSeq(p, 1, Len(<<>>)) = <<>>
    <3>1. p \in Seq(Range(Keys)) /\ p # <<>>
      BY DriftPaths DEF DriftedPaths, IsDocument, Paths
    <3> QED  BY <3>1
  <2> QED  BY <2>1 DEF DriftsBelow
<1>7. ASSUME NEW key \in Range(Keys), Append(<<>>, key) \in Levels(desired, observed)
      PROVE  Good(Append(<<>>, key))
  <2> DEFINE q == Append(<<>>, key)
  <2>1. D - Len(q) \in Nat /\ Len(q) + (D - Len(q)) = D
    BY <1>2, <1>7
  <2> HIDE DEF Good
  <2> QED  BY <1>3, <1>7, <2>1
<1>8. Len(walk[<<>>]) <= MaxDriftFields
  BY <1>1, <1>4, <1>7, DriftsOfLevel
<1> QED  BY <1>1, <1>5, <1>6, <1>8

\* No path comes before itself.
LEMMA BeforeIsStrict ==
  ASSUME NEW p \in Paths
  PROVE  ~Before(p, p)
<1>1. \A i \in DOMAIN p : p[i] \in Range(Keys)
  BY DEF Paths
<1>2. \A i \in DOMAIN p : Place(p[i]) \in Nat
  BY <1>1, KeyPlaces, DriftAssumption
<1> QED  BY <1>2 DEF Before

\* A list whose elements are in order has as many of them as it is long.
LEMMA InOrderIsDistinct ==
  ASSUME NEW s \in Seq(Paths), \A i, j \in 1..Len(s) : i < j => Before(s[i], s[j])
  PROVE  Cardinality({s[i] : i \in DOMAIN s}) = Len(s)
<1> DEFINE T == {s[i] : i \in DOMAIN s}
<1>1. Len(s) \in Nat /\ DOMAIN s = 1..Len(s) /\ \A i \in 1..Len(s) : s[i] \in Paths
  OBVIOUS
<1>2. \A i, j \in 1..Len(s) : s[i] = s[j] => i = j
  BY <1>1, BeforeIsStrict
<1>3. s \in Bijection(1..Len(s), T)
  <2>1. s \in [1..Len(s) -> T]
    BY <1>1
  <2>2. \A t \in T : \E i \in 1..Len(s) : s[i] = t
    BY <1>1
  <2> HIDE DEF T
  <2> QED  BY <1>2, <2>1, <2>2 DEF Bijection, Injection, Surjection, IsInjective
<1>4. ExistsBijection(1..Len(s), T)
  <2> HIDE DEF T
  <2> QED  BY <1>3 DEF ExistsBijection
<1>5. Cardinality(T) = Len(s)
  <2> HIDE DEF T
  <2> QED  BY <1>1, <1>4, FS_CountingElements
<1> QED  BY <1>5

\* What a report tells of the drifts of one resource.
TellsTheFirst(fields, all) ==
  LET told == {fields[i] : i \in DOMAIN fields}
  IN /\ told \subseteq all
     /\ Cardinality(told) = Len(fields)
     /\ \A i, j \in DOMAIN fields : i < j => Before(fields[i], fields[j])
     /\ all # told => /\ Len(fields) = MaxDriftFields
                      /\ \A p \in all \ told, q \in told : Before(q, p)

LEMMA WhatIsTold ==
  ASSUME NEW desired, NEW observed, IsDocument(desired), IsDocument(observed)
  PROVE  TellsTheFirst(DiffFields(desired, observed), DriftedPaths(desired, observed))
<1> DEFINE fields == DiffFields(desired, observed)
           all == DriftedPaths(desired, observed)
           told == {fields[i] : i \in DOMAIN fields}
<1>1. FirstOf(fields, all) /\ Len(fields) <= MaxDriftFields
  BY DiffFieldsFirst
<1> HIDE DEF fields, all
<1>2. fields \in Seq(Paths) /\ Len(fields) \in Nat /\ DOMAIN fields = 1..Len(fields)
  BY <1>1 DEF FirstOf
<1>3. told \subseteq all /\ \A i, j \in DOMAIN fields : i < j => Before(fields[i], fields[j])
  BY <1>1, <1>2 DEF FirstOf
<1>4. Cardinality(told) = Len(fields)
  BY <1>2, <1>3, InOrderIsDistinct
<1>5. ASSUME NEW p \in all \ told
      PROVE  Len(fields) = MaxDriftFields /\ \A q \in told : Before(q, p)
  <2>1. Len(fields) >= MaxDriftFields /\ \A j \in 1..MaxDriftFields : Before(fields[j], p)
    BY <1>1, <1>2, <1>5 DEF FirstOf
  <2>2. Len(fields) = MaxDriftFields
    <3>1. MaxDriftFields \in Nat /\ Len(fields) \in Nat /\ Len(fields) <= MaxDriftFields /\ Len(fields) >= MaxDriftFields
      BY <1>1, <1>2, <2>1, DriftAssumption
    <3> QED  BY <3>1
  <2> QED  BY <2>1, <2>2, <1>2
<1> QED  BY <1>3, <1>4, <1>5 DEF TellsTheFirst, fields, all

\* Nothing is reported exactly when nothing differs.
LEMMA NoneDrifted ==
  ASSUME NEW desired, NEW observed, IsDocument(desired), IsDocument(observed)
  PROVE  DiffFields(desired, observed) = <<>> <=> DriftedPaths(desired, observed) = {}
<1> DEFINE fields == DiffFields(desired, observed)
<1>1. FirstOf(fields, DriftedPaths(desired, observed))
  BY DiffFieldsFirst
<1> HIDE DEF fields
<1>2. fields \in Seq(Paths) /\ Len(fields) \in Nat
  BY <1>1 DEF FirstOf
<1>3. fields = <<>> <=> Len(fields) = 0
  BY <1>2
<1>4. Len(fields) = 0 => DriftedPaths(desired, observed) = {}
  BY <1>1, <1>2, DriftAssumption DEF FirstOf
<1>5. Len(fields) # 0 => DriftedPaths(desired, observed) # {}
  <2>1. Len(fields) # 0 => 1 \in 1..Len(fields)
    BY <1>2
  <2> QED  BY <1>1, <2>1 DEF FirstOf
<1> QED  BY <1>3, <1>4, <1>5 DEF fields

------------------------------------------------------------------------------
(***************************************************************************)
(* Client.Query.                                                           *)
(***************************************************************************)
USE KindsAssumption, ConcurrencyAssumption, NobodyAssumption

\* Sets of kinds are finite, so their cardinalities are numbers.
LEMMA KindSubset ==
  ASSUME NEW S \in SUBSET Kinds
  PROVE  IsFiniteSet(S) /\ Cardinality(S) \in Nat
BY FS_Subset, FS_CardinalityType

\* Counting one kind more, or one kind less.
LEMMA CountIn ==
  ASSUME NEW S \in SUBSET Kinds, NEW k \in Kinds, k \notin S
  PROVE  Cardinality(S \cup {k}) = Cardinality(S) + 1
BY KindSubset, FS_AddElement

LEMMA CountOut ==
  ASSUME NEW S \in SUBSET Kinds, NEW k \in S
  PROVE  Cardinality(S \ {k}) = Cardinality(S) - 1
BY KindSubset, FS_RemoveElement

------------------------------------------------------------------------------
\* The initial state satisfies the inductive invariant.
LEMMA InitBookkeeping == Init => Bookkeeping
<1> SUFFICES ASSUME Init PROVE Bookkeeping
  OBVIOUS
<1> USE DEF Init, Sweep!NoAnswer, Sweep!Pending
<1>1. TypeOK
  BY DEF TypeOK, SliceValues, Places, Sweep!Tallies
<1>2. Holders = {} /\ Runners = {}
  BY DEF Holders, Runners
<1>3. TokensCounted /\ WaitGroupCounted
  <2> HIDE DEF Init
  <2>1. sem = 0 /\ wg = 0
    BY DEF Init
  <2> QED
    BY <1>2, <2>1, FS_EmptySet DEF TokensCounted, WaitGroupCounted
<1>4. MutexHeld /\ ReadIsCurrent /\ OutcomeKnown /\ ScopeStarted
  BY DEF MutexHeld, ReadIsCurrent, OutcomeKnown, ScopeStarted, Settled
<1>5. NothingLost
  BY DEF NothingLost, Appended
<1> QED
  BY <1>1, <1>3, <1>4, <1>5 DEF Bookkeeping

(***************************************************************************)
(* One lemma per kind of step.  A step of goroutine k that takes no token  *)
(* leaves Holders alone, and so on for the other counters: the parts of    *)
(* Bookkeeping a step does not touch follow from the type and the move.    *)
(***************************************************************************)
LEMMA AcquireStep ==
  ASSUME Bookkeeping, NEW k \in Kinds, Acquire(k)
  PROVE  Bookkeeping'
<1> USE DEF Acquire, Move, server
<1>1. TypeOK'
  BY DEF Bookkeeping, TypeOK, Places
<1>2. Holders' = Holders \cup {k} /\ k \notin Holders /\ Holders \in SUBSET Kinds
  BY DEF Bookkeeping, TypeOK, Holders
<1>3. Runners' = Runners
  BY DEF Bookkeeping, TypeOK, Runners
<1>4. TokensCounted'
  <2>1. Cardinality(Holders') = Cardinality(Holders) + 1
    BY <1>2, CountIn
  <2> QED
    BY <2>1 DEF Bookkeeping, TypeOK, TokensCounted
<1>5. WaitGroupCounted'
  BY <1>3 DEF Bookkeeping, WaitGroupCounted
<1>6. MutexHeld' /\ ReadIsCurrent' /\ OutcomeKnown' /\ ScopeStarted'
  BY DEF Bookkeeping, TypeOK, MutexHeld, ReadIsCurrent, OutcomeKnown, ScopeStarted, Settled
<1>7. NothingLost'
  BY DEF Bookkeeping, TypeOK, NothingLost, Appended
<1> QED
  BY <1>1, <1>4, <1>5, <1>6, <1>7 DEF Bookkeeping

LEMMA ListStep ==
  ASSUME Bookkeeping, NEW k \in Kinds, NEW result \in Sweep!Tallies,
         result # Sweep!Pending, ListReturns(k, result)
  PROVE  Bookkeeping'
<1> USE DEF ListReturns, Move, server
<1>1. TypeOK'
  BY DEF Bookkeeping, TypeOK, Places
<1>2. Holders' = Holders /\ Runners' = Runners
  BY DEF Bookkeeping, TypeOK, Holders, Runners
<1>3. TokensCounted' /\ WaitGroupCounted'
  BY <1>2 DEF Bookkeeping, TokensCounted, WaitGroupCounted
<1>4. MutexHeld' /\ ReadIsCurrent' /\ OutcomeKnown' /\ ScopeStarted'
  BY DEF Bookkeeping, TypeOK, MutexHeld, ReadIsCurrent, OutcomeKnown, ScopeStarted, Settled
<1>5. NothingLost'
  BY DEF Bookkeeping, TypeOK, NothingLost, Appended
<1> QED
  BY <1>1, <1>3, <1>4, <1>5 DEF Bookkeeping

LEMMA LockStep ==
  ASSUME Bookkeeping, NEW k \in Kinds, Lock(k)
  PROVE  Bookkeeping'
<1> USE DEF Lock, Move, server
<1>1. TypeOK'
  BY DEF Bookkeeping, TypeOK, Places
<1>2. Holders' = Holders /\ Runners' = Runners
  BY DEF Bookkeeping, TypeOK, Holders, Runners
<1>3. TokensCounted' /\ WaitGroupCounted'
  BY <1>2 DEF Bookkeeping, TokensCounted, WaitGroupCounted
<1>4. MutexHeld' /\ ReadIsCurrent' /\ OutcomeKnown' /\ ScopeStarted'
  BY DEF Bookkeeping, TypeOK, MutexHeld, ReadIsCurrent, OutcomeKnown, ScopeStarted, Settled
<1>5. NothingLost'
  BY DEF Bookkeeping, TypeOK, NothingLost, Appended
<1> QED
  BY <1>1, <1>3, <1>4, <1>5 DEF Bookkeeping

LEMMA AppendStep ==
  ASSUME Bookkeeping, NEW k \in Kinds, AddResult(k)
  PROVE  Bookkeeping'
<1> USE DEF AddResult, Move, server
<1>1. seen[k] = slices /\ outcome[k] \in Sweep!Tallies
  BY DEF Bookkeeping, ReadIsCurrent, TypeOK
<1>2. outcome[k].items \in SUBSET Objs
  BY <1>1 DEF Sweep!Tallies, Sweep!Pending, Sweep!Warned, Sweep!Dropped, Sweep!Listed
<1>3. TypeOK'
  BY <1>1, <1>2 DEF Bookkeeping, TypeOK, Places, SliceValues, With
<1>4. Holders' = Holders /\ Runners' = Runners
  BY DEF Bookkeeping, TypeOK, Holders, Runners
<1>5. TokensCounted' /\ WaitGroupCounted'
  BY <1>4 DEF Bookkeeping, TokensCounted, WaitGroupCounted
<1>6. MutexHeld' /\ ReadIsCurrent' /\ OutcomeKnown' /\ ScopeStarted'
  BY DEF Bookkeeping, TypeOK, MutexHeld, ReadIsCurrent, OutcomeKnown, ScopeStarted, Settled
<1>7. NothingLost'
  BY <1>1, <1>2 DEF Bookkeeping, TypeOK, NothingLost, Appended, With
<1> QED
  BY <1>3, <1>5, <1>6, <1>7 DEF Bookkeeping

LEMMA ReleaseStep ==
  ASSUME Bookkeeping, NEW k \in Kinds, Release(k)
  PROVE  Bookkeeping'
<1> USE DEF Release, Move, server
<1>1. Holders' = Holders \ {k} /\ k \in Holders /\ Holders \in SUBSET Kinds
  BY DEF Bookkeeping, TypeOK, Holders
<1>2. Runners' = Runners
  BY DEF Bookkeeping, TypeOK, Runners
<1>3. Cardinality(Holders') = Cardinality(Holders) - 1 /\ Cardinality(Holders') \in Nat
  BY <1>1, CountOut, KindSubset
<1>4. TokensCounted' /\ sem' \in Nat
  BY <1>3 DEF Bookkeeping, TypeOK, TokensCounted
<1>5. TypeOK'
  BY <1>4 DEF Bookkeeping, TypeOK, Places
<1>6. WaitGroupCounted'
  BY <1>2 DEF Bookkeeping, WaitGroupCounted
<1>7. MutexHeld' /\ ReadIsCurrent' /\ OutcomeKnown' /\ ScopeStarted'
  BY DEF Bookkeeping, TypeOK, MutexHeld, ReadIsCurrent, OutcomeKnown, ScopeStarted, Settled
<1>8. NothingLost'
  BY DEF Bookkeeping, TypeOK, NothingLost, Appended
<1> QED
  BY <1>4, <1>5, <1>6, <1>7, <1>8 DEF Bookkeeping

LEMMA DoneStep ==
  ASSUME Bookkeeping, NEW k \in Kinds, Done(k)
  PROVE  Bookkeeping'
<1> USE DEF Done, Move, server
<1>1. Runners' = Runners \ {k} /\ k \in Runners /\ Runners \in SUBSET Kinds
  BY DEF Bookkeeping, TypeOK, Runners
<1>2. Holders' = Holders
  BY DEF Bookkeeping, TypeOK, Holders
<1>3. Cardinality(Runners') = Cardinality(Runners) - 1 /\ Cardinality(Runners') \in Nat
  BY <1>1, CountOut, KindSubset
<1>4. wg # 0
  BY <1>3, <1>1, KindSubset DEF Bookkeeping, WaitGroupCounted
<1>5. WaitGroupCounted' /\ wg' \in Nat
  BY <1>3 DEF Bookkeeping, TypeOK, WaitGroupCounted
<1>6. TypeOK'
  BY <1>5 DEF Bookkeeping, TypeOK, Places
<1>7. TokensCounted'
  BY <1>2 DEF Bookkeeping, TokensCounted
<1>8. MutexHeld' /\ ReadIsCurrent' /\ OutcomeKnown' /\ ScopeStarted'
  BY <1>4 DEF Bookkeeping, TypeOK, MutexHeld, ReadIsCurrent, OutcomeKnown, ScopeStarted, Settled
<1>9. NothingLost'
  BY DEF Bookkeeping, TypeOK, NothingLost, Appended
<1> QED
  BY <1>5, <1>6, <1>7, <1>8, <1>9 DEF Bookkeeping

LEMMA SpawnStep ==
  ASSUME Bookkeeping, NEW k \in Kinds, Spawn(k)
  PROVE  Bookkeeping'
<1> USE DEF Spawn, Move, server
<1>1. TypeOK'
  BY DEF Bookkeeping, TypeOK, Places
<1>2. Runners' = Runners \cup {k} /\ k \notin Runners /\ Runners \in SUBSET Kinds
  BY DEF Bookkeeping, TypeOK, Runners
<1>3. Holders' = Holders
  BY DEF Bookkeeping, TypeOK, Holders
<1>4. WaitGroupCounted'
  BY <1>2, CountIn DEF Bookkeeping, TypeOK, WaitGroupCounted
<1>5. TokensCounted'
  BY <1>3 DEF Bookkeeping, TokensCounted
<1>6. MutexHeld' /\ ReadIsCurrent' /\ OutcomeKnown' /\ ScopeStarted'
  BY DEF Bookkeeping, TypeOK, MutexHeld, ReadIsCurrent, OutcomeKnown, ScopeStarted, Settled
<1>7. NothingLost'
  BY DEF Bookkeeping, TypeOK, NothingLost, Appended
<1> QED
  BY <1>1, <1>4, <1>5, <1>6, <1>7 DEF Bookkeeping

\* The steps of the caller and of the environment move no goroutine.
LEMMA CallerStep ==
  ASSUME Bookkeeping, KindsFor \/ SpawnedAll \/ Return
  PROVE  Bookkeeping'
<1> USE DEF server
<1>1. CASE KindsFor
  <2> USE <1>1 DEF KindsFor
  <2>1. TypeOK'
    BY DEF Bookkeeping, TypeOK
  <2>2. Holders' = Holders /\ Runners' = Runners
    BY DEF Holders, Runners
  <2>3. TokensCounted' /\ WaitGroupCounted' /\ MutexHeld' /\ ReadIsCurrent' /\ OutcomeKnown'
    BY <2>2 DEF Bookkeeping, TokensCounted, WaitGroupCounted, MutexHeld, ReadIsCurrent,
                OutcomeKnown, Settled
  <2>4. ScopeStarted'
    BY DEF Bookkeeping, TypeOK, ScopeStarted
  <2>5. NothingLost'
    BY DEF Bookkeeping, NothingLost, Appended
  <2> QED
    BY <2>1, <2>3, <2>4, <2>5 DEF Bookkeeping
<1>2. CASE SpawnedAll \/ Return
  <2> USE <1>2 DEF SpawnedAll, Return
  <2>1. TypeOK'
    BY DEF Bookkeeping, TypeOK
  <2>2. Holders' = Holders /\ Runners' = Runners
    BY DEF Holders, Runners
  <2>3. TokensCounted' /\ WaitGroupCounted' /\ MutexHeld' /\ ReadIsCurrent' /\ OutcomeKnown'
    BY <2>2 DEF Bookkeeping, TokensCounted, WaitGroupCounted, MutexHeld, ReadIsCurrent,
                OutcomeKnown, Settled
  <2>4. ScopeStarted'
    BY DEF Bookkeeping, TypeOK, ScopeStarted
  <2>5. NothingLost'
    BY DEF Bookkeeping, NothingLost, Appended
  <2> QED
    BY <2>1, <2>3, <2>4, <2>5 DEF Bookkeeping
<1> QED
  BY <1>1, <1>2

LEMMA EnvironmentStep ==
  ASSUME Bookkeeping, Cancel \/ ServerStep
  PROVE  Bookkeeping'
<1> USE DEF Cancel, ServerStep, ChangeObjects, ChangeKinds, server
<1>1. TypeOK'
  BY DEF Bookkeeping, TypeOK
<1>2. UNCHANGED <<caller, kinds, todo, pc, outcome, slices, seen, mu, sem, wg>>
  OBVIOUS
<1>3. Holders' = Holders /\ Runners' = Runners
  BY <1>2 DEF Holders, Runners
<1>4. TokensCounted' /\ WaitGroupCounted' /\ MutexHeld' /\ ReadIsCurrent' /\ OutcomeKnown'
  BY <1>2, <1>3 DEF Bookkeeping, TokensCounted, WaitGroupCounted, MutexHeld, ReadIsCurrent,
                    OutcomeKnown, Settled
<1>5. ScopeStarted' /\ NothingLost'
  BY <1>2 DEF Bookkeeping, ScopeStarted, NothingLost, Appended
<1> QED
  BY <1>1, <1>4, <1>5 DEF Bookkeeping
------------------------------------------------------------------------------
LEMMA NextBookkeeping == Bookkeeping /\ [Next]_vars => Bookkeeping'
<1> SUFFICES ASSUME Bookkeeping, [Next]_vars PROVE Bookkeeping'
  OBVIOUS
<1>1. CASE KindsFor \/ SpawnedAll \/ Return
  BY <1>1, CallerStep
<1>2. ASSUME NEW k \in Kinds, Spawn(k) PROVE Bookkeeping'
  BY <1>2, SpawnStep
<1>3. ASSUME NEW k \in Kinds, Goroutine(k) PROVE Bookkeeping'
  <2>1. CASE Acquire(k)
    BY <2>1, AcquireStep
  <2>2. CASE ListAnswered(k) \/ ListRefused(k) \/ ListCancelled(k)
    <3>1. PICK result \in Sweep!Tallies : result # Sweep!Pending /\ ListReturns(k, result)
      BY <2>2 DEF ListAnswered, ListRefused, ListCancelled, Bookkeeping, TypeOK, Sweep!Tallies,
                  Sweep!Pending, Sweep!Warned, Sweep!Dropped, Sweep!Listed
    <3> QED
      BY <3>1, ListStep
  <2>3. CASE Lock(k)
    BY <2>3, LockStep
  <2>4. CASE AddResult(k)
    BY <2>4, AppendStep
  <2>5. CASE Release(k)
    BY <2>5, ReleaseStep
  <2>6. CASE Done(k)
    BY <2>6, DoneStep
  <2> QED
    BY <1>3, <2>1, <2>2, <2>3, <2>4, <2>5, <2>6 DEF Goroutine
<1>4. CASE Cancel \/ ServerStep
  BY <1>4, EnvironmentStep
<1>5. CASE UNCHANGED vars
  BY <1>5 DEF vars, server, Bookkeeping, TypeOK, TokensCounted, WaitGroupCounted, MutexHeld,
              ReadIsCurrent, OutcomeKnown, ScopeStarted, NothingLost, Holders, Runners,
              Settled, Appended
<1> QED
  BY <1>1, <1>2, <1>3, <1>4, <1>5 DEF Next

\* The bookkeeping of a search never goes out of step (query.go:57-91).
THEOREM BookkeepingInvariant == Spec => []Bookkeeping
BY InitBookkeeping, NextBookkeeping, PTL DEF Spec

\* Every variable stays within its type.
THEOREM TypeCorrect == Spec => []TypeOK
BY BookkeepingInvariant, PTL DEF Bookkeeping

\* However many kinds a control plane has, at most listConcurrency list
\* requests of a search are in flight (query.go:14-18).
THEOREM InFlightBound == Spec => []InFlightBounded
<1>1. Bookkeeping => InFlightBounded
  <2> SUFFICES ASSUME Bookkeeping PROVE InFlightBounded
    OBVIOUS
  <2> DEFINE Listing == {k \in Kinds : pc[k] = "listing"}
  <2>1. Listing \in SUBSET Holders /\ Holders \in SUBSET Kinds
    BY DEF Holders
  <2>2. Cardinality(Listing) <= Cardinality(Holders)
    BY <2>1, KindSubset, FS_Subset
  <2>3. Cardinality(Listing) \in Nat /\ Cardinality(Holders) \in Nat
    BY <2>1, KindSubset
  <2>4. Cardinality(Holders) <= ListConcurrency
    BY DEF Bookkeeping, TokensCounted
  <2>5. Cardinality(Listing) <= ListConcurrency
    BY <2>2, <2>3, <2>4
  <2> QED
    BY <2>5 DEF InFlightBounded
<1> QED
  BY <1>1, BookkeepingInvariant, PTL

\* No append of a concurrent goroutine is lost or doubled (query.go:78-88).
THEOREM NothingIsLost == Spec => []NothingLost
BY BookkeepingInvariant, PTL DEF Bookkeeping

\* When the WaitGroup lets the caller go, every goroutine of the call is done.
LEMMA ReturnedMeansDone ==
  ASSUME Bookkeeping, caller \in {"waiting", "returned"}, wg = 0
  PROVE  /\ \A k \in Kinds : pc[k] = IF k \in kinds THEN "done" ELSE "idle"
         /\ Holders = {}
<1>1. Runners \in SUBSET Kinds
  BY DEF Runners
<1>2. IsFiniteSet(Runners) /\ Cardinality(Runners) = 0
  BY <1>1, KindSubset DEF Bookkeeping, WaitGroupCounted
<1>3. Runners = {}
  BY <1>2, FS_EmptySet
<1>4. \A k \in Kinds : pc[k] \in {"idle", "done"}
  BY <1>3 DEF Runners
<1>5. \A k \in Kinds : pc[k] = "idle" <=> k \notin kinds
  BY DEF Bookkeeping, ScopeStarted
<1> QED
  BY <1>4, <1>5 DEF Holders

\* Query accounts for every kind in scope before it returns, and leaves no
\* goroutine behind (query.go:91-105).
THEOREM AnswersAreComplete == Spec => []AnswerComplete
<1>1. Bookkeeping => AnswerComplete
  <2> SUFFICES ASSUME Bookkeeping, caller = "returned" PROVE AnswerComplete!2
    BY DEF AnswerComplete
  <2>1. wg = 0 /\ kinds \in SUBSET Kinds
    BY DEF Bookkeeping, ScopeStarted, TypeOK
  <2>2. \A k \in kinds : pc[k] = "done"
    BY <2>1, ReturnedMeansDone
  <2>3. \A k \in Kinds : pc[k] # "appending"
    BY <2>1, ReturnedMeansDone
  <2>4. mu = Nobody
    BY <2>3 DEF Bookkeeping, MutexHeld, TypeOK
  <2>5. sem = 0
    BY <2>1, ReturnedMeansDone, FS_EmptySet DEF Bookkeeping, TokensCounted
  <2>6. \A k \in kinds : Appended(k) /\ outcome[k] # Sweep!Pending
    BY <2>1, <2>2 DEF Bookkeeping, OutcomeKnown, Settled, Appended
  <2>7. \A k \in kinds : outcome[k].status = "warned" <=> k \in slices.warnings
    BY <2>1, <2>6 DEF Bookkeeping, NothingLost
  <2>8. \A k \in kinds, o \in Objs : <<k, o>> \in slices.objects <=> o \in outcome[k].items
    BY <2>1, <2>6 DEF Bookkeeping, NothingLost
  <2> QED
    BY <2>2, <2>4, <2>5, <2>6, <2>7, <2>8
<1> QED
  BY <1>1, BookkeepingInvariant, PTL
------------------------------------------------------------------------------
(***************************************************************************)
(* Refinement.  The abstract search settles a kind when its goroutine's    *)
(* List returns, and publishes when the caller's Wait does; every other    *)
(* step of a goroutine is a stutter.                                       *)
(***************************************************************************)
LEMMA InitSweep == Init => Sweep!Init
BY DEF Init, Sweep!Init, Sweep!NoAnswer, Sweep!Pending

\* What the abstract search would publish is what the slices hold.
LEMMA SlicesAreTheAnswer ==
  ASSUME Bookkeeping, caller = "waiting", wg = 0
  PROVE  slices = Sweep!AnswerOf(outcome) /\ \A k \in kinds : outcome[k] # Sweep!Pending
<1>1. \A k \in Kinds : pc[k] = IF k \in kinds THEN "done" ELSE "idle"
  BY ReturnedMeansDone
<1>2. \A k \in Kinds : Appended(k) <=> outcome[k] # Sweep!Pending
  BY <1>1 DEF Bookkeeping, OutcomeKnown, Settled, Appended
<1>3. \A k \in kinds : outcome[k] # Sweep!Pending
  BY <1>1 DEF Bookkeeping, OutcomeKnown, Settled, TypeOK
<1>4. slices.objects = {p \in Kinds \X Objs : p[2] \in outcome[p[1]].items}
  <2>1. \A p \in Kinds \X Objs : p[2] \in outcome[p[1]].items => Appended(p[1])
    BY <1>2 DEF Sweep!Pending
  <2> QED
    BY <2>1 DEF Bookkeeping, NothingLost
<1>5. slices.warnings = {k \in Kinds : outcome[k].status = "warned"}
  <2>1. \A k \in Kinds : outcome[k].status = "warned" => Appended(k)
    BY <1>2 DEF Sweep!Pending
  <2> QED
    BY <2>1 DEF Bookkeeping, NothingLost
<1>6. slices \in SliceValues
  BY DEF Bookkeeping, TypeOK
<1> QED
  BY <1>3, <1>4, <1>5, <1>6 DEF Sweep!AnswerOf, SliceValues

\* A goroutine that is under way is for a kind in scope, and its caller waits
\* for it, or will.
LEMMA RunnersAreAwaited ==
  ASSUME Bookkeeping, NEW k \in Kinds, k \in Runners
  PROVE  k \in kinds /\ caller \in {"spawning", "waiting"}
<1>1. Cardinality(Runners) # 0
  BY KindSubset, FS_EmptySet DEF Runners
<1>2. wg # 0 /\ k \in kinds
  BY <1>1 DEF Bookkeeping, WaitGroupCounted, ScopeStarted, Runners, TypeOK
<1> QED
  BY <1>2 DEF Bookkeeping, ScopeStarted, TypeOK

LEMMA StepSweep ==
  ASSUME Bookkeeping, [Next]_vars
  PROVE  [Sweep!Next]_(Sweep!vars)
<1> USE DEF server
<1>1. CASE KindsFor
  BY <1>1 DEF KindsFor, Sweep!Next, Sweep!Begin, Sweep!Reject
<1>2. CASE SpawnedAll
  BY <1>2 DEF SpawnedAll, Sweep!vars
<1>3. CASE Return
  <2>1. Sweep!Publish
    BY <1>3, SlicesAreTheAnswer DEF Return, Sweep!Publish
  <2> QED
    BY <2>1 DEF Sweep!Next
<1>4. ASSUME NEW k \in Kinds, Spawn(k) PROVE UNCHANGED Sweep!vars
  BY <1>4 DEF Spawn, Sweep!vars
<1>5. ASSUME NEW k \in Kinds, Goroutine(k) PROVE [Sweep!Next]_(Sweep!vars)
  <2>1. k \in Runners
    BY <1>5 DEF Runners, Goroutine, Acquire, ListAnswered, ListRefused, ListCancelled,
                ListReturns, Lock, AddResult, Release, Done, Move
  <2>2. k \in kinds /\ caller \in {"spawning", "waiting"}
    BY <2>1, RunnersAreAwaited
  <2>4. CASE ListAnswered(k) \/ ListRefused(k) \/ ListCancelled(k)
    <3>1. Sweep!Settle(k)
      BY <2>2, <2>4 DEF ListAnswered, ListRefused, ListCancelled, ListReturns, Move,
            Sweep!Settle, Sweep!Pages, Bookkeeping, OutcomeKnown, Settled, TypeOK
    <3> QED
      BY <3>1 DEF Sweep!Next
  <2>5. CASE Acquire(k) \/ Lock(k) \/ AddResult(k) \/ Release(k) \/ Done(k)
    BY <2>2, <2>5 DEF Acquire, Lock, AddResult, Release, Done, Sweep!vars
  <2> QED
    BY <1>5, <2>4, <2>5 DEF Goroutine
<1>6. CASE Cancel
  BY <1>6 DEF Cancel, Sweep!vars
<1>7. CASE ServerStep
  BY <1>7 DEF ServerStep, ChangeObjects, ChangeKinds, Sweep!Next, Sweep!ServerStep
<1>8. CASE UNCHANGED vars
  BY <1>8 DEF vars, Sweep!vars
<1> QED
  BY <1>1, <1>2, <1>3, <1>4, <1>5, <1>6, <1>7, <1>8 DEF Next

\* Query implements the one-goroutine search: each kind is settled once, by
\* what the API server held at one instant of the call, and the answer is
\* exactly what was settled.
THEOREM QueryImplementsSweep == Spec => ImplementsSweep
<1>1. Bookkeeping /\ [Next]_vars => [Sweep!Next]_(Sweep!vars)
  BY StepSweep
<1> QED
  BY <1>1, InitSweep, BookkeepingInvariant, PTL DEF Spec, ImplementsSweep, Sweep!Spec
------------------------------------------------------------------------------
(***************************************************************************)
(* The tools that list: the inductive invariant of Listing.                *)
(***************************************************************************)
ListingTyped ==
  /\ args \in Arguments
  /\ look \in Looks
  /\ steady \in SUBSET (Kinds \X Objs)
  /\ \A p \in steady : p[2] \in content[p[1]]
  /\ \A k \in Kinds \ served : content[k] = {}

\* What was there all the time is in the list of its kind, if that was neither
\* refused nor cut off.
ListedWhatStayed ==
  \A k \in Kinds : Settled(k) =>
    \/ outcome[k].status = "warned"
    \/ Cut(k)
    \/ \A o \in Objs : <<k, o>> \in steady => o \in outcome[k].items

Answer(r) == [r EXCEPT !.status = "ok", !.warnings = slices.warnings]

\* An answer is what the tool makes of the slices, which nobody touches now.
AnswersTheQuery ==
  report.status = "ok" =>
    /\ caller = "returned"
    /\ \/ args.tool = "summary" /\ report = Answer(Summary(slices.objects))
       \/ args.tool = "managed" /\ report = Answer(ManagedList(slices.objects))
       \/ /\ args.tool = "category"
          /\ \E index \in Indexes(slices.objects) : report = Answer(CategoryList(slices.objects, index))
       \/ args.tool = "drift" /\ report = Answer(DriftReport(slices.objects))

ListingInv == Bookkeeping /\ ListingTyped /\ ListedWhatStayed /\ AnswersTheQuery

LEMMA ListingBegins == ListingInit => ListingInv
<1> SUFFICES ASSUME ListingInit  PROVE ListingInv
  OBVIOUS
<1>1. Bookkeeping
  BY InitBookkeeping DEF ListingInit
<1>2. ListingTyped
  BY DEF ListingInit, Init, ListingTyped
<1>3. ListedWhatStayed
  BY DEF ListingInit, Init, ListedWhatStayed, Settled
<1>4. AnswersTheQuery
  BY DEF ListingInit, NoReport, AnswersTheQuery
<1> QED
  BY <1>1, <1>2, <1>3, <1>4 DEF ListingInv

\* A rendering depends on the arguments, the looks and the kinds' words.
LEMMA RenderingsStay ==
  ASSUME UNCHANGED <<slices, args, word, look>>
  PROVE  /\ Summary(slices.objects)' = Summary(slices.objects)
         /\ ManagedList(slices.objects)' = ManagedList(slices.objects)
         /\ Indexes(slices.objects)' = Indexes(slices.objects)
         /\ \A index : CategoryList(slices.objects, index)' = CategoryList(slices.objects, index)
         /\ DriftReport(slices.objects)' = DriftReport(slices.objects)
<1>1. Summary(slices.objects)' = Summary(slices.objects)
  BY DEF Summary, CountByKind, NoReport
<1>2. ManagedList(slices.objects)' = ManagedList(slices.objects)
  BY DEF ManagedList, StatusMatches, NoReport
<1>3. Indexes(slices.objects)' = Indexes(slices.objects)
  BY DEF Indexes, ObjectKey
<1>4. \A index : CategoryList(slices.objects, index)' = CategoryList(slices.objects, index)
  BY DEF CategoryList, StatusMatches, ObjectKey, NoReport
<1>5. DriftReport(slices.objects)' = DriftReport(slices.objects)
  BY DEF DriftReport, InspectDrift, NoReport
<1> QED
  BY <1>1, <1>2, <1>3, <1>4, <1>5

\* Nobody touches what an answer was made of.
LEMMA AnswersStay ==
  ASSUME AnswersTheQuery, UNCHANGED <<caller, slices, args, word, look, report>>
  PROVE  AnswersTheQuery'
<1>1. \A r : Answer(r)' = Answer(r)
  BY DEF Answer
<1> SUFFICES ASSUME report'.status = "ok"  PROVE AnswersTheQuery!2'
  BY DEF AnswersTheQuery
<1>2. CASE args.tool = "summary" /\ report = Answer(Summary(slices.objects))
  BY RenderingsStay, <1>1, <1>2 DEF AnswersTheQuery
<1>3. CASE args.tool = "managed" /\ report = Answer(ManagedList(slices.objects))
  BY RenderingsStay, <1>1, <1>3 DEF AnswersTheQuery
<1>4. CASE args.tool = "category" /\ \E index \in Indexes(slices.objects) : report = Answer(CategoryList(slices.objects, index))
  BY RenderingsStay, <1>1, <1>4 DEF AnswersTheQuery
<1>5. CASE args.tool = "drift" /\ report = Answer(DriftReport(slices.objects))
  BY RenderingsStay, <1>1, <1>5 DEF AnswersTheQuery
<1> QED
  BY <1>2, <1>3, <1>4, <1>5 DEF AnswersTheQuery

\* A page that was not cut off is the whole list.
LEMMA PageIsWhole ==
  ASSUME ListingInv, NEW k \in Kinds, NEW page \in SUBSET content[k],
         Cardinality(page) = IF args.limit # 0 /\ args.limit < Cardinality(content[k])
                               THEN args.limit ELSE Cardinality(content[k])
  PROVE  page = content[k] \/ (args.limit # 0 /\ Cardinality(page) >= args.limit)
<1>1. content[k] \in SUBSET Objs /\ args.limit \in Nat
  BY ListingAssumption DEF ListingInv, Bookkeeping, TypeOK, ListingTyped
<1>2. IsFiniteSet(content[k]) /\ Cardinality(content[k]) \in Nat
  BY <1>1, FS_Subset, FS_CardinalityType, ListingAssumption
<1>3. Cardinality(content[k]) = Cardinality(page) => page = content[k]
  BY <1>2, FS_Subset
<1> QED
  BY <1>1, <1>2, <1>3

LEMMA PageStep ==
  ASSUME ListingInv, NEW k \in Kinds, ListPage(k), UNCHANGED toolVars
  PROVE  ListingInv'
<1>1. PICK page \in SUBSET content[k] :
        /\ Cardinality(page) = IF args.limit # 0 /\ args.limit < Cardinality(content[k])
                                 THEN args.limit ELSE Cardinality(content[k])
        /\ ListReturns(k, IF k \in served THEN Sweep!Listed(page) ELSE Sweep!Dropped)
  BY DEF ListPage
<1> DEFINE result == IF k \in served THEN Sweep!Listed(page) ELSE Sweep!Dropped
<1>2. content[k] \in SUBSET Objs /\ pc \in [Kinds -> Places] /\ outcome \in [Kinds -> Sweep!Tallies]
  BY DEF ListingInv, Bookkeeping, TypeOK
<1>3. result \in Sweep!Tallies /\ result # Sweep!Pending
  BY <1>2 DEF Sweep!Tallies, Sweep!Listed, Sweep!Dropped, Sweep!Pending
<1>4. Bookkeeping'
  BY <1>1, <1>3, ListStep DEF ListingInv
<1>5. pc' = [pc EXCEPT ![k] = "locking"] /\ outcome' = [outcome EXCEPT ![k] = result]
      /\ pc[k] = "listing"
  BY <1>1 DEF ListReturns, Move
<1>6. UNCHANGED <<caller, slices, content, served, args, look, word, steady, report>>
  BY <1>1 DEF ListReturns, server, toolVars
<1>7. ListingTyped'
  BY <1>6 DEF ListingInv, ListingTyped
<1>8. \A o \in Objs : <<k, o>> \in steady => o \in content[k]
  BY DEF ListingInv, ListingTyped
<1>9. page = content[k] \/ (args.limit # 0 /\ Cardinality(page) >= args.limit)
  BY <1>1, PageIsWhole
<1>10. outcome'[k] = result
  BY <1>2, <1>5
<1>11. Cut(k)' \/ \A o \in Objs : <<k, o>> \in steady => o \in result.items
  <2>1. CASE k \in served
    BY <2>1, <1>6, <1>8, <1>9, <1>10 DEF Cut, Sweep!Listed
  <2>2. CASE k \notin served
    BY <2>2, <1>8 DEF ListingInv, ListingTyped
  <2> QED
    BY <2>1, <2>2
<1>12. ListedWhatStayed'
  <2> SUFFICES ASSUME NEW j \in Kinds, Settled(j)'
               PROVE  \/ outcome'[j].status = "warned"
                      \/ Cut(j)'
                      \/ \A o \in Objs : <<j, o>> \in steady' => o \in outcome'[j].items
    BY DEF ListedWhatStayed
  <2>1. CASE j = k
    BY <2>1, <1>6, <1>10, <1>11
  <2>2. CASE j # k
    <3>1. outcome'[j] = outcome[j] /\ Settled(j)
      BY <2>2, <1>2, <1>5 DEF Settled
    <3> QED
      BY <3>1, <1>6 DEF ListingInv, ListedWhatStayed, Cut
  <2> QED
    BY <2>1, <2>2
<1>13. AnswersTheQuery'
  BY <1>6, AnswersStay DEF ListingInv
<1> QED
  BY <1>4, <1>7, <1>12, <1>13 DEF ListingInv

\* What an answer holds.
LEMMA AnswerOf ==
  ASSUME NEW r, r = Answer([NoReport EXCEPT !.rows = r.rows, !.counts = r.counts])
  PROVE  r = [status |-> "ok", rows |-> r.rows, counts |-> r.counts, warnings |-> slices.warnings]
BY DEF Answer, NoReport

LEMMA QueryingStep ==
  ASSUME ListingInv, Querying
  PROVE  ListingInv'
<1>1. UNCHANGED toolVars
  BY DEF Querying
<1>2. ASSUME NEW k \in Kinds, ListPage(k)  PROVE ListingInv'
  BY <1>1, <1>2, PageStep
<1>3. ASSUME NEW k \in Kinds, ListRefused(k) \/ ListCancelled(k)
      PROVE  ListingInv'
  <2>1. ListReturns(k, Sweep!Warned)
    BY <1>3 DEF ListRefused, ListCancelled
  <2>2. Bookkeeping'
    BY <2>1, ListStep DEF ListingInv, Sweep!Tallies, Sweep!Warned, Sweep!Pending
  <2>3. UNCHANGED <<caller, slices, content, served, args, look, word, steady, report>>
    BY <1>1, <2>1 DEF ListReturns, server, toolVars
  <2>4. ListingTyped'
    BY <2>3 DEF ListingInv, ListingTyped
  <2>5. ListedWhatStayed'
    <3>1. outcome \in [Kinds -> Sweep!Tallies] /\ pc \in [Kinds -> Places]
      BY DEF ListingInv, Bookkeeping, TypeOK
    <3>2. outcome' = [outcome EXCEPT ![k] = Sweep!Warned] /\ pc' = [pc EXCEPT ![k] = "locking"]
      BY <2>1 DEF ListReturns, Move
    <3>3. outcome'[k].status = "warned"
      BY <3>1, <3>2 DEF Sweep!Warned
    <3>4. \A j \in Kinds \ {k} : outcome'[j] = outcome[j] /\ pc'[j] = pc[j]
      BY <3>1, <3>2
    <3> QED
      BY <2>3, <3>3, <3>4 DEF ListingInv, ListedWhatStayed, Cut, Settled
  <2>6. AnswersTheQuery'
    BY <2>3, AnswersStay DEF ListingInv
  <2> QED
    BY <2>2, <2>4, <2>5, <2>6 DEF ListingInv
<1>4. ASSUME UNCHANGED <<outcome, content, served>>, Bookkeeping',
             \A k \in Kinds : Settled(k)' => Settled(k),
             report.status = "ok" => UNCHANGED <<caller, slices>>
      PROVE  ListingInv'
  <2>1. ListingTyped'
    BY <1>1, <1>4 DEF toolVars, ListingInv, ListingTyped
  <2>2. ListedWhatStayed'
    BY <1>1, <1>4 DEF toolVars, ListingInv, ListedWhatStayed, Cut
  <2>3. AnswersTheQuery'
    <3>1. CASE report.status = "ok"
      BY <1>1, <1>4, <3>1, AnswersStay DEF toolVars, ListingInv
    <3>2. CASE report.status # "ok"
      BY <1>1, <3>2 DEF toolVars, AnswersTheQuery
    <3> QED
      BY <3>1, <3>2
  <2> QED
    BY <1>4, <2>1, <2>2, <2>3 DEF ListingInv
<1>5. CASE KindsFor \/ SpawnedAll \/ Return
  <2>1. Bookkeeping'
    BY <1>5, CallerStep DEF ListingInv
  <2>2. caller # "returned" /\ UNCHANGED <<outcome, content, served, pc, slices>>
    BY <1>5 DEF KindsFor, SpawnedAll, Return, server
  <2>3. report.status # "ok"
    BY <2>2 DEF ListingInv, AnswersTheQuery
  <2> QED
    BY <1>4, <2>1, <2>2, <2>3 DEF Settled
<1>6. ASSUME NEW k \in Kinds, Spawn(k)  PROVE ListingInv'
  <2>1. Bookkeeping'
    BY <1>6, SpawnStep DEF ListingInv
  <2>2. UNCHANGED <<outcome, content, served, caller, slices>>
    BY <1>6 DEF Spawn, server
  <2>3. \A j \in Kinds : Settled(j)' => Settled(j)
    BY <1>6 DEF ListingInv, Bookkeeping, TypeOK, Spawn, Move, Settled
  <2> QED
    BY <1>4, <2>1, <2>2, <2>3
<1>7. ASSUME NEW k \in Kinds, Acquire(k) \/ Lock(k) \/ AddResult(k) \/ Release(k) \/ Done(k)
      PROVE  ListingInv'
  <2>1. Bookkeeping'
    BY <1>7, AcquireStep, LockStep, AppendStep, ReleaseStep, DoneStep DEF ListingInv
  <2>2. UNCHANGED <<outcome, content, served>>
    BY <1>7 DEF Acquire, Lock, AddResult, Release, Done, server
  <2>3. \A j \in Kinds : Settled(j)' => Settled(j)
    BY <1>7 DEF ListingInv, Bookkeeping, TypeOK, Acquire, Lock, AddResult, Release, Done, Move, Settled
  <2>4. report.status = "ok" => UNCHANGED <<caller, slices>>
    <3>1. CASE AddResult(k)
      <4>1. pc[k] = "appending"
        BY <3>1 DEF AddResult, Move
      <4>2. ~(caller = "returned")
        BY <4>1, ReturnedMeansDone DEF ListingInv, Bookkeeping, ScopeStarted
      <4> QED
        BY <4>2 DEF ListingInv, AnswersTheQuery
    <3>2. CASE Acquire(k) \/ Lock(k) \/ Release(k) \/ Done(k)
      BY <3>2 DEF Acquire, Lock, Release, Done
    <3> QED
      BY <1>7, <3>1, <3>2
  <2> QED
    BY <1>4, <2>1, <2>2, <2>3, <2>4
<1>8. CASE Cancel
  <2>1. Bookkeeping'
    BY <1>8, EnvironmentStep DEF ListingInv
  <2>2. UNCHANGED <<outcome, content, served, pc, caller, slices>>
    BY <1>8 DEF Cancel, server
  <2> QED
    BY <1>4, <2>1, <2>2 DEF Settled
<1> QED
  BY <1>2, <1>3, <1>5, <1>6, <1>7, <1>8 DEF Querying

LEMMA OthersActStep ==
  ASSUME ListingInv, OthersAct
  PROVE  ListingInv'
<1>1. Bookkeeping'
  BY EnvironmentStep DEF ListingInv, OthersAct
<1>2. UNCHANGED <<caller, outcome, pc, slices, args, word, look, report>>
  BY DEF OthersAct, ServerStep
<1>3. steady' = {p \in steady : p[2] \in content'[p[1]]}
  BY DEF OthersAct
<1>4. ListingTyped'
  <2>1. content \in [Kinds -> SUBSET Objs]
    BY DEF ListingInv, Bookkeeping, TypeOK
  <2>2. \A k \in Kinds \ served' : content'[k] = {}
    BY <2>1 DEF ListingInv, ListingTyped, OthersAct, ServerStep, ChangeObjects, ChangeKinds
  <2> QED
    BY <1>2, <1>3, <2>2 DEF ListingInv, ListingTyped
<1>5. ListedWhatStayed'
  BY <1>2, <1>3 DEF ListingInv, ListedWhatStayed, Cut, Settled
<1>6. AnswersTheQuery'
  BY <1>2, AnswersStay DEF ListingInv
<1> QED
  BY <1>1, <1>4, <1>5, <1>6 DEF ListingInv

LEMMA ReportStep ==
  ASSUME ListingInv, Report \/ ReportError
  PROVE  ListingInv'
<1>1. UNCHANGED vars /\ UNCHANGED <<args, word, look, steady, changes>>
  BY DEF Report, ReportError, Answers
<1>2. UNCHANGED <<caller, kinds, todo, pc, outcome, slices, seen, mu, sem, wg, cancelled, content, served>>
  BY <1>1 DEF vars, server
<1>3. Bookkeeping'
  BY <1>1, NextBookkeeping DEF ListingInv
<1>4. ListingTyped' /\ ListedWhatStayed'
  BY <1>1, <1>2 DEF ListingInv, ListingTyped, ListedWhatStayed, Cut, Settled
<1>5. AnswersTheQuery'
  <2>1. CASE ReportError
    <3>1. report'.status = "error"
      BY <2>1 DEF ReportError, NoReport
    <3> QED
      BY <3>1 DEF AnswersTheQuery
  <2>2. CASE Report
    <3>1. caller = "returned"
      BY <2>2 DEF Report
    <3>2. \A r : Answer(r)' = Answer(r)
      BY <1>2 DEF Answer
    <3>3. caller' = "returned" /\ args' = args
      BY <3>1, <1>1, <1>2
    <3>4. CASE args.tool = "summary" /\ Answers(Summary(slices.objects))
      <4>1. Summary(slices.objects)' = Summary(slices.objects)
        BY <1>1, <1>2, RenderingsStay
      <4>2. report' = Answer(Summary(slices.objects))
        BY <3>4 DEF Answers, Answer
      <4> QED
        BY <3>2, <3>3, <3>4, <4>1, <4>2 DEF AnswersTheQuery
    <3>5. CASE args.tool = "managed" /\ Answers(ManagedList(slices.objects))
      <4>1. ManagedList(slices.objects)' = ManagedList(slices.objects)
        BY <1>1, <1>2, RenderingsStay
      <4>2. report' = Answer(ManagedList(slices.objects))
        BY <3>5 DEF Answers, Answer
      <4> QED
        BY <3>2, <3>3, <3>5, <4>1, <4>2 DEF AnswersTheQuery
    <3>6. CASE args.tool = "category" /\ \E index \in Indexes(slices.objects) : Answers(CategoryList(slices.objects, index))
      <4>1. PICK index \in Indexes(slices.objects) : Answers(CategoryList(slices.objects, index))
        BY <3>6
      <4>2. index \in Indexes(slices.objects)' /\ CategoryList(slices.objects, index)' = CategoryList(slices.objects, index)
        BY <1>1, <1>2, RenderingsStay
      <4>3. report' = Answer(CategoryList(slices.objects, index))
        BY <4>1 DEF Answers, Answer
      <4> QED
        BY <3>2, <3>3, <3>6, <4>2, <4>3 DEF AnswersTheQuery
    <3>7. CASE args.tool = "drift" /\ Answers(DriftReport(slices.objects))
      <4>1. DriftReport(slices.objects)' = DriftReport(slices.objects)
        BY <1>1, <1>2, RenderingsStay
      <4>2. report' = Answer(DriftReport(slices.objects))
        BY <3>7 DEF Answers, Answer
      <4> QED
        BY <3>2, <3>3, <3>7, <4>1, <4>2 DEF AnswersTheQuery
    <3> QED
      BY <2>2, <3>4, <3>5, <3>6, <3>7 DEF Report
  <2> QED
    BY <2>1, <2>2
<1> QED
  BY <1>3, <1>4, <1>5 DEF ListingInv

\* When Query is back the slices are what the lists of the kinds in scope gave.
LEMMA SlicesWhenReturned ==
  ASSUME Bookkeeping, caller = "returned"
  PROVE  /\ \A k \in kinds : k \in Kinds /\ Settled(k)
         /\ \A k \in kinds : outcome[k].status = "warned" <=> k \in slices.warnings
         /\ \A k \in kinds, o \in Objs : <<k, o>> \in slices.objects <=> o \in outcome[k].items
         /\ \A p \in slices.objects : p \in Kinds \X Objs /\ p[1] \in kinds
<1>1. wg = 0 /\ kinds \in SUBSET Kinds
  BY DEF Bookkeeping, ScopeStarted, TypeOK
<1>2. \A k \in Kinds : pc[k] = IF k \in kinds THEN "done" ELSE "idle"
  BY <1>1, ReturnedMeansDone
<1>3. \A k \in Kinds : k \in kinds <=> Appended(k)
  BY <1>2 DEF Appended
<1>4. \A k \in kinds : k \in Kinds /\ Settled(k)
  BY <1>1, <1>2 DEF Settled
<1>5. NothingLost
  BY DEF Bookkeeping
<1>6. \A k \in kinds : outcome[k].status = "warned" <=> k \in slices.warnings
  BY <1>1, <1>3, <1>5 DEF NothingLost
<1>7. \A k \in kinds, o \in Objs : <<k, o>> \in slices.objects <=> o \in outcome[k].items
  BY <1>1, <1>3, <1>5 DEF NothingLost
<1>8. \A p \in slices.objects : p \in Kinds \X Objs /\ p[1] \in kinds
  BY <1>3, <1>5 DEF NothingLost
<1> QED
  BY <1>4, <1>6, <1>7, <1>8

\* An index entry has the word and the name of the object it is asked for.
LEMMA IndexedByKindAndName ==
  ASSUME ListingInv
  PROVE  CompositionIsItsOwn
<1> SUFFICES ASSUME report.status = "ok", args.tool = "category", NEW r \in report.rows
             PROVE  r.composition = r.of \/ \E k \in kinds \ {r.of[1]} : word[k] = word[r.of[1]]
  BY DEF CompositionIsItsOwn
<1> DEFINE O == slices.objects
<1>1. caller = "returned"
  BY DEF ListingInv, AnswersTheQuery
<1>2. PICK index \in Indexes(O) : report = Answer(CategoryList(O, index))
  BY DEF ListingInv, AnswersTheQuery
<1>3. report.rows = {[of |-> p, composition |-> index[ObjectKey(p)]] :
                       p \in {q \in O : StatusMatches(q[2], args.status)}}
  BY <1>2 DEF Answer, CategoryList, NoReport
<1>4. PICK p \in O : r = [of |-> p, composition |-> index[ObjectKey(p)]]
  BY <1>3
<1> DEFINE c == index[ObjectKey(p)]
<1>5. c \in O /\ ObjectKey(c) = ObjectKey(p)
  BY <1>2 DEF Indexes
<1>6. p \in Kinds \X Objs /\ c \in Kinds \X Objs /\ c[1] \in kinds
  BY <1>1, <1>5, SlicesWhenReturned DEF ListingInv
<1>7. word[c[1]] = word[p[1]] /\ c[2] = p[2]
  BY <1>5 DEF ObjectKey
<1>8. c = p \/ c[1] # p[1]
  BY <1>6, <1>7
<1> QED
  BY <1>4, <1>6, <1>7, <1>8

\* What the caller may ask for, and what objects may look like.
LEMMA WhatIsAsked ==
  ASSUME ListingInv
  PROVE  /\ args.tool \in {"summary", "managed", "category", "drift"}
         /\ args.status \in {"any", "ready", "not-ready", "not-synced"}
         /\ args.tool \in {"summary", "drift"} => args.status = "any"
         /\ \A o \in Objs :
              /\ look[o].ready \in {"True", "False", "Unknown"}
              /\ look[o].synced \in {"True", "False", "Unknown"}
              /\ look[o].policies \subseteq {"*", "Create", "Update", "LateInitialize", "Observe", "Delete"}
              /\ IsDocument(look[o].desired) /\ IsDocument(look[o].observed)
<1>1. args \in Arguments /\ look \in Looks
  BY DEF ListingInv, ListingTyped
<1> QED
  BY <1>1, ListingAssumption

\* The status an object must have is the status it is shown for.
LEMMA MatchingIsWanted ==
  ASSUME ListingInv, NEW o \in Objs, args.tool # "drift"
  PROVE  Wanted(o) <=> StatusMatches(o, args.status)
BY WhatIsAsked DEF Wanted, StatusMatches

\* A resource is corrected unless its management policies only look.
LEMMA WritingIsNotLooking ==
  ASSUME NEW P, P \subseteq {"*", "Create", "Update", "LateInitialize", "Observe", "Delete"}
  PROVE  WritesToProvider(P) <=> ~OnlyLooks(P)
BY DEF WritesToProvider, OnlyLooks

\* What a drift row leaves out is what the caller does not want to know.
LEMMA ShownIsWanted ==
  ASSUME ListingInv, NEW p \in Kinds \X Objs, args.tool = "drift"
  PROVE  Wanted(p[2]) <=> ~(args.driftedOnly /\ InspectDrift(p).correcting /\ InspectDrift(p).fields = <<>>)
<1> DEFINE o == look[p[2]]
<1>1. args.status = "any"
  BY WhatIsAsked
<1>2. InspectDrift(p).correcting <=> (~o.paused /\ WritesToProvider(o.policies) /\ o.synced = "True")
  BY DEF InspectDrift
<1>3. InspectDrift(p).fields = DiffFields(o.desired, o.observed)
  BY DEF InspectDrift
<1>4. WritesToProvider(o.policies) <=> ~OnlyLooks(o.policies)
  BY WhatIsAsked, WritingIsNotLooking
<1>5. InspectDrift(p).correcting <=> Corrected(p[2])
  BY <1>2, <1>4 DEF Corrected
<1>6. InspectDrift(p).fields = <<>> <=> DriftedPaths(o.desired, o.observed) = {}
  BY <1>3, WhatIsAsked, NoneDrifted
<1> QED
  BY <1>1, <1>5, <1>6 DEF Wanted

\* A row for each of M, and no other, is about M.
LEMMA RowsAreAbout ==
  ASSUME NEW M, \A r \in report.rows : r.of \in M, \A p \in M : \E r \in report.rows : r.of = p
  PROVE  RowObjects = M
BY DEF RowObjects

\* What the rows of each tool are about.
LEMMA RowsAreWanted ==
  ASSUME ListingInv, report.status = "ok"
  PROVE  RowObjects = IF args.tool = "summary" THEN {} ELSE {p \in slices.objects : Wanted(p[2])}
<1> DEFINE O == slices.objects
<1>1. caller = "returned"
  BY DEF ListingInv, AnswersTheQuery
<1>2. O \subseteq Kinds \X Objs
  BY <1>1, SlicesWhenReturned DEF ListingInv
<1>3. CASE args.tool = "summary" /\ report = Answer(Summary(O))
  <2>1. report.rows = {}
    BY <1>3 DEF Answer, Summary, NoReport
  <2> QED
    BY <1>3, <2>1 DEF RowObjects
<1>4. CASE args.tool = "managed" /\ report = Answer(ManagedList(O))
  <2>1. report.rows = {[of |-> p] : p \in {q \in O : StatusMatches(q[2], args.status)}}
    BY <1>4 DEF Answer, ManagedList, NoReport
  <2>2. RowObjects = {q \in O : StatusMatches(q[2], args.status)}
    <3>1. \A r \in report.rows : r.of \in {q \in O : StatusMatches(q[2], args.status)}
      BY <2>1
    <3>2. \A p \in {q \in O : StatusMatches(q[2], args.status)} : [of |-> p] \in report.rows /\ [of |-> p].of = p
      BY <2>1
    <3> QED
      BY <3>1, <3>2, RowsAreAbout
  <2> QED
    BY <1>2, <1>4, <2>2, MatchingIsWanted
<1>5. CASE args.tool = "category" /\ \E index \in Indexes(O) : report = Answer(CategoryList(O, index))
  <2>1. PICK index \in Indexes(O) : report = Answer(CategoryList(O, index))
    BY <1>5
  <2>2. report.rows = {[of |-> p, composition |-> index[ObjectKey(p)]] :
                         p \in {q \in O : StatusMatches(q[2], args.status)}}
    BY <2>1 DEF Answer, CategoryList, NoReport
  <2>3. RowObjects = {q \in O : StatusMatches(q[2], args.status)}
    <3> DEFINE Row(p) == [of |-> p, composition |-> index[ObjectKey(p)]]
    <3>1. \A r \in report.rows : r.of \in {q \in O : StatusMatches(q[2], args.status)}
      BY <2>2
    <3>2. \A p \in {q \in O : StatusMatches(q[2], args.status)} : Row(p) \in report.rows /\ Row(p).of = p
      BY <2>2
    <3> QED
      BY <3>1, <3>2, RowsAreAbout
  <2> QED
    BY <1>2, <1>5, <2>3, MatchingIsWanted
<1>6. CASE args.tool = "drift" /\ report = Answer(DriftReport(O))
  <2>1. report.rows = {r \in {InspectDrift(p) : p \in O} :
                         ~(args.driftedOnly /\ r.correcting /\ r.fields = <<>>)}
    BY <1>6 DEF Answer, DriftReport, NoReport
  <2>2. \A p \in O : InspectDrift(p).of = p
    BY DEF InspectDrift
  <2>3. RowObjects = {p \in O : ~(args.driftedOnly /\ InspectDrift(p).correcting /\ InspectDrift(p).fields = <<>>)}
    BY <2>1, <2>2 DEF RowObjects
  <2> QED
    BY <1>2, <1>6, <2>3, ShownIsWanted
<1> QED
  BY <1>3, <1>4, <1>5, <1>6 DEF ListingInv, AnswersTheQuery

\* The summary counts at least what was there all the time.
LEMMA SummaryCounts ==
  ASSUME ListingInv, report.status = "ok", args.tool = "summary",
         NEW k \in Kinds, \A o \in Objs : <<k, o>> \in steady => <<k, o>> \in slices.objects,
         \E o \in Objs : <<k, o>> \in slices.objects
  PROVE  LET there == {o \in Objs : <<k, o>> \in steady} IN
           /\ report.counts[k].total >= Cardinality(there)
           /\ report.counts[k].ready >= Cardinality({o \in there : look[o].ready = "True"})
<1> DEFINE O == slices.objects
           there == {o \in Objs : <<k, o>> \in steady}
           names == {o \in Objs : <<k, o>> \in O}
           readyThere == {o \in there : look[o].ready = "True"}
           readyNames == {o \in names : look[o].ready = "True"}
<1>1. report.counts = CountByKind(O)
  BY DEF ListingInv, AnswersTheQuery, Answer, Summary, NoReport
<1>2. k \in {p[1] : p \in O}
  OBVIOUS
<1>3. report.counts[k].total = Cardinality(names) /\ report.counts[k].ready = Cardinality(readyNames)
  BY <1>1, <1>2 DEF CountByKind
<1>4. there \in SUBSET names /\ readyThere \in SUBSET readyNames
      /\ names \in SUBSET Objs /\ readyNames \in SUBSET Objs
  OBVIOUS
<1>5. IsFiniteSet(names) /\ IsFiniteSet(readyNames)
  BY <1>4, FS_Subset, ListingAssumption
<1>6. Cardinality(there) <= Cardinality(names) /\ Cardinality(readyThere) <= Cardinality(readyNames)
  BY <1>4, <1>5, FS_Subset
<1>7. /\ Cardinality(there) \in Nat /\ Cardinality(names) \in Nat
      /\ Cardinality(readyThere) \in Nat /\ Cardinality(readyNames) \in Nat
  BY <1>4, <1>5, FS_Subset, FS_CardinalityType
<1>8. report.counts[k].total >= Cardinality(there) /\ report.counts[k].ready >= Cardinality(readyThere)
  BY <1>3, <1>6, <1>7
<1> QED
  BY <1>8

\* Who is in no row is counted in the summary, or one of the excuses holds.
LEMMA WantedIsShown ==
  ASSUME ListingInv
  PROVE  NothingWantedIsHidden
<1> SUFFICES ASSUME report.status = "ok"  PROVE NothingWantedIsHidden!2
  BY DEF NothingWantedIsHidden
<1>1. caller = "returned" /\ report.warnings = slices.warnings
  <2>1. caller = "returned"
    BY DEF ListingInv, AnswersTheQuery
  <2>2. PICK r : report = Answer(r)
    BY DEF ListingInv, AnswersTheQuery
  <2> QED
    BY <2>1, <2>2 DEF Answer
<1>2. \A p \in RowObjects : p \in slices.objects /\ Wanted(p[2])
  BY RowsAreWanted
<1>3. ASSUME NEW p \in steady, p[1] \in kinds, Wanted(p[2]),
             p[1] \notin report.warnings, ~Cut(p[1]), p \notin RowObjects
      PROVE  /\ args.tool = "summary"
             /\ LET there == {o \in Objs : <<p[1], o>> \in steady} IN
                /\ report.counts[p[1]].total >= Cardinality(there)
                /\ report.counts[p[1]].ready >= Cardinality({o \in there : look[o].ready = "True"})
  <2> DEFINE k == p[1]
  <2>1. k \in Kinds /\ p[2] \in Objs /\ p = <<k, p[2]>>
    BY DEF ListingInv, ListingTyped
  <2>2. Settled(k) /\ outcome[k].status # "warned"
    BY <1>1, <1>3, SlicesWhenReturned DEF ListingInv
  <2>3. \A o \in Objs : <<k, o>> \in steady => o \in outcome[k].items
    BY <1>3, <2>1, <2>2 DEF ListingInv, ListedWhatStayed
  <2>4. \A o \in Objs : <<k, o>> \in steady => <<k, o>> \in slices.objects
    BY <1>1, <1>3, <2>3, SlicesWhenReturned DEF ListingInv
  <2>5. p \in slices.objects
    BY <1>3, <2>1, <2>4
  <2>6. args.tool = "summary"
    BY <1>3, <2>5, RowsAreWanted
  <2>7. \E o \in Objs : <<k, o>> \in slices.objects
    BY <2>1, <2>5
  <2> QED
    BY <2>1, <2>4, <2>6, <2>7, SummaryCounts
<1> QED
  BY <1>2, <1>3

\* A drift row has the fields of its object's two documents.
LEMMA FieldsAreTold ==
  ASSUME ListingInv
  PROVE  FieldsAreExact
<1> SUFFICES ASSUME report.status = "ok", args.tool = "drift", NEW r \in report.rows
             PROVE  TellsTheFirst(r.fields, DriftedPaths(look[r.of[2]].desired, look[r.of[2]].observed))
  BY DEF FieldsAreExact, TellsTheFirst
<1> DEFINE o == look[r.of[2]]
<1>1. caller = "returned" /\ report = Answer(DriftReport(slices.objects))
  BY DEF ListingInv, AnswersTheQuery
<1>2. slices.objects \subseteq Kinds \X Objs
  BY <1>1, SlicesWhenReturned DEF ListingInv
<1>3. r \in {InspectDrift(p) : p \in slices.objects}
  BY <1>1 DEF Answer, DriftReport, NoReport
<1>4. PICK p \in slices.objects : r = InspectDrift(p)
  BY <1>3
<1>5. r.of = p /\ r.of[2] \in Objs
  BY <1>2, <1>4 DEF InspectDrift
<1>6. r.fields = DiffFields(o.desired, o.observed)
  BY <1>4, <1>5 DEF InspectDrift
<1>7. IsDocument(o.desired) /\ IsDocument(o.observed)
  BY <1>5, WhatIsAsked
<1>8. TellsTheFirst(DiffFields(o.desired, o.observed), DriftedPaths(o.desired, o.observed))
  BY <1>7, WhatIsTold
<1> QED  BY <1>6, <1>8

------------------------------------------------------------------------------
LEMMA ListingGoesOn == ListingInv /\ [ListingNext]_listingVars => ListingInv'
<1> SUFFICES ASSUME ListingInv, [ListingNext]_listingVars  PROVE ListingInv'
  OBVIOUS
<1>1. CASE Querying
  BY <1>1, QueryingStep
<1>2. CASE OthersAct
  BY <1>2, OthersActStep
<1>3. CASE Report \/ ReportError
  BY <1>3, ReportStep
<1>4. CASE UNCHANGED listingVars
  <2>1. UNCHANGED vars /\ UNCHANGED toolVars
    BY <1>4 DEF listingVars
  <2>2. Bookkeeping'
    BY <2>1, NextBookkeeping DEF ListingInv
  <2>3. UNCHANGED <<caller, slices, outcome, pc, content, served, args, word, look, report, steady>>
    BY <2>1 DEF vars, server, toolVars
  <2>4. ListingTyped' /\ ListedWhatStayed'
    BY <2>3 DEF ListingInv, ListingTyped, ListedWhatStayed, Cut, Settled
  <2>5. AnswersTheQuery'
    BY <2>3, AnswersStay DEF ListingInv
  <2> QED
    BY <2>2, <2>4, <2>5 DEF ListingInv
<1> QED
  BY <1>1, <1>2, <1>3, <1>4 DEF ListingNext

\* Query's bookkeeping holds under the limit too, a list that was neither
\* refused nor cut off has what stayed on the API server, and an answer is made
\* from slices nobody touches any more (client.go:338-344, query.go:57-105).
THEOREM ListingInvariant == ListingSpec => []ListingInv
BY ListingBegins, ListingGoesOn, PTL DEF ListingSpec

\* Whatever the limit, the status asked for, the tool and the changes: who was
\* there all the time and is asked for is in the answer or counted in it, or the
\* answer warns about its kind, or the limit was reached there; and nothing else
\* is in the answer (managed.go:121-173, drift.go:73-107).
THEOREM WantedIsNotHidden == ListingSpec => []NothingWantedIsHidden
BY ListingInvariant, WantedIsShown, PTL

\* However many objects share a name, the Composition shown is an object's own
\* unless two resource types in scope share a kind (inspect.go:241-252).
THEOREM CompositionsAreOwn == ListingSpec => []CompositionIsItsOwn
BY ListingInvariant, IndexedByKindAndName, PTL

\* Whatever two resources' declared and observed values: a drift report has the
\* fields at which they differ, the first maxDriftFields of them in order
\* (drift.go:73-107, 148-191).
THEOREM DriftsAreExact == ListingSpec => []FieldsAreExact
BY ListingInvariant, FieldsAreTold, PTL
------------------------------------------------------------------------------
(***************************************************************************)
(* What keeps a search going.                                              *)
(***************************************************************************)
StepsAhead == {p \in Kinds \X (1..7) : p[2] <= StepsOf(pc[p[1]])}

LEMMA StepsAreCounted ==
  /\ StepsLeft = Cardinality(StepsAhead) + CallerSteps
  /\ IsFiniteSet(StepsAhead) /\ Cardinality(StepsAhead) \in Nat
  /\ CallerSteps \in 0..3
<1>1. IsFiniteSet(1..7)
  <2>1. \A n \in Nat : IsFiniteSet(1..n)
    BY FS_Interval
  <2>2. 7 \in Nat
    OBVIOUS
  <2> QED  BY <2>1, <2>2, Zenon
<1>2. IsFiniteSet(Kinds \X (1..7))
  BY <1>1, FS_Product
<1>3. StepsAhead \in SUBSET (Kinds \X (1..7))
  BY DEF StepsAhead
<1>4. CallerSteps \in 0..3
  BY DEF CallerSteps
<1> QED  BY <1>2, <1>3, <1>4, FS_Subset, FS_CardinalityType DEF StepsLeft, StepsAhead

\* A goroutine that moves on has fewer steps to go.
LEMMA MovingOn ==
  ASSUME TypeOK, NEW k \in Kinds, NEW to \in Places, StepsOf(to) < StepsOf(pc[k]),
         pc' = [pc EXCEPT ![k] = to], caller' = caller
  PROVE  StepsLeft' < StepsLeft
<1>1. \A place \in Places : StepsOf(place) \in 0..7
  BY DEF Places, StepsOf
<1>2. pc[k] \in Places /\ pc'[k] = to /\ \A j \in Kinds \ {k} : pc'[j] = pc[j]
  BY DEF TypeOK
<1>3. StepsAhead' \in SUBSET StepsAhead
  <2> SUFFICES ASSUME NEW j \in Kinds, NEW i \in 1..7, i <= StepsOf(pc'[j])  PROVE i <= StepsOf(pc[j])
    BY DEF StepsAhead
  <2>1. CASE j = k
    <3>1. StepsOf(to) \in 0..7 /\ StepsOf(pc[k]) \in 0..7
      BY <1>1, <1>2
    <3> QED  BY <1>2, <2>1, <3>1
  <2> QED  BY <1>2, <2>1
<1> DEFINE p == <<k, StepsOf(pc[k])>>
<1>4. p \in StepsAhead /\ p \notin StepsAhead'
  <2>1. StepsOf(to) \in 0..7 /\ StepsOf(pc[k]) \in 1..7 /\ ~(StepsOf(pc[k]) <= StepsOf(to))
    BY <1>1, <1>2
  <2> QED  BY <1>2, <2>1 DEF StepsAhead
<1>5. IsFiniteSet(StepsAhead) /\ Cardinality(StepsAhead) \in Nat
  BY StepsAreCounted
<1>6. Cardinality(StepsAhead') < Cardinality(StepsAhead)
  BY <1>3, <1>4, <1>5, FS_Subset, FS_CardinalityType
<1>7. StepsLeft' = Cardinality(StepsAhead') + CallerSteps
  BY DEF StepsLeft, StepsAhead, CallerSteps
<1> QED  BY <1>5, <1>6, <1>7, <1>3, StepsAreCounted, FS_Subset, FS_CardinalityType

\* So has a caller.
LEMMA CallerMovingOn ==
  ASSUME UNCHANGED pc, CallerSteps' < CallerSteps
  PROVE  StepsLeft' < StepsLeft
<1>1. StepsLeft' = Cardinality(StepsAhead) + CallerSteps'
  BY DEF StepsLeft, StepsAhead
<1>2. CallerSteps' \in Int
  BY DEF CallerSteps
<1> QED  BY <1>1, <1>2, StepsAreCounted

\* What the goroutine of kind k does, whatever its list returns.
LEMMA GoroutinesMoveOn ==
  ASSUME TypeOK, NEW k \in Kinds,
         Spawn(k) \/ Acquire(k) \/ (\E result : ListReturns(k, result)) \/ Lock(k) \/ AddResult(k) \/ Release(k) \/ Done(k)
  PROVE  StepsLeft' < StepsLeft
<1>1. caller' = caller
  BY DEF Spawn, Acquire, ListReturns, Lock, AddResult, Release, Done
<1>2. \E to \in Places : pc' = [pc EXCEPT ![k] = to] /\ StepsOf(to) < StepsOf(pc[k])
  BY DEF Spawn, Acquire, ListReturns, Lock, AddResult, Release, Done, Move, StepsOf, Places
<1> QED  BY <1>1, <1>2, MovingOn

\* The steps of the query that are not the environment's.
LEMMA CallersMoveOn ==
  ASSUME KindsFor \/ SpawnedAll \/ Return
  PROVE  StepsLeft' < StepsLeft
<1>1. UNCHANGED pc /\ CallerSteps' < CallerSteps
  BY DEF KindsFor, SpawnedAll, Return, CallerSteps
<1> QED  BY <1>1, CallerMovingOn

LEMMA OthersTakeNothingBack ==
  ASSUME Cancel \/ ServerStep
  PROVE  StepsLeft' = StepsLeft
<1>1. UNCHANGED <<pc, caller>>
  BY DEF Cancel, ServerStep
<1> QED  BY <1>1 DEF StepsLeft, CallerSteps

\* Some goroutine that has started and is not through can go on: the holder of
\* the mutex if there is one, else one of those with a token, else any.
LEMMA SomebodyGoesOn == Bookkeeping => NobodyIsStuck
<1> SUFFICES ASSUME Bookkeeping  PROVE NobodyIsStuck
  OBVIOUS
<1>1. ASSUME Runners # {}  PROVE \E k \in Runners : CanGoOn(k)
  <2>1. CASE mu # Nobody
    <3>1. mu \in Kinds /\ pc[mu] = "appending"
      BY <2>1 DEF Bookkeeping, TypeOK, MutexHeld
    <3> QED  BY <3>1 DEF Runners, CanGoOn
  <2>2. CASE mu = Nobody /\ Holders # {}
    <3>1. PICK k \in Holders : TRUE
      BY <2>2
    <3> QED  BY <2>2, <3>1 DEF Holders, Runners, CanGoOn
  <2>3. CASE mu = Nobody /\ Holders = {}
    <3>1. sem = 0
      BY <2>3, FS_EmptySet DEF Bookkeeping, TokensCounted
    <3> QED  BY <1>1, <2>3, <3>1 DEF CanGoOn, Runners
  <2> QED  BY <2>1, <2>2, <2>3
<1>2. wg = 0 \/ Runners # {}
  BY FS_EmptySet DEF Bookkeeping, WaitGroupCounted
<1> QED  BY <1>1, <1>2 DEF NobodyIsStuck

\* No goroutine of a search waits for good, and nor does the caller, for any
\* number of kinds and of tokens (query.go:57-91).
THEOREM NobodyWaitsForGood == Spec => []NobodyIsStuck
BY BookkeepingInvariant, SomebodyGoesOn, PTL

\* A search is over after at most seven steps of each goroutine and three of
\* its caller, in whatever order they come (query.go:50-106).
THEOREM QueriesGoDown == Spec => QueryGoesDown /\ [](StepsLeft \in Nat)
<1>1. Bookkeeping /\ [Next]_vars
        => [IF Cancel \/ ServerStep THEN StepsLeft' = StepsLeft ELSE StepsLeft' < StepsLeft]_vars
  <2> SUFFICES ASSUME Bookkeeping, Next, ~(Cancel \/ ServerStep)  PROVE StepsLeft' < StepsLeft
    BY OthersTakeNothingBack
  <2>1. TypeOK
    BY DEF Bookkeeping
  <2>2. ASSUME NEW k \in Kinds, Goroutine(k)  PROVE StepsLeft' < StepsLeft
    BY <2>1, <2>2, GoroutinesMoveOn DEF Goroutine, ListAnswered, ListRefused, ListCancelled
  <2> QED  BY <2>1, <2>2, GoroutinesMoveOn, CallersMoveOn DEF Next
<1>2. StepsLeft \in Nat
  BY StepsAreCounted
<1> QED  BY <1>1, <1>2, BookkeepingInvariant, PTL DEF Spec, QueryGoesDown

\* The same of the tools that list, whatever the limit; so that their answer
\* waits for the API server alone, and for that no longer than the deadline.
THEOREM ListingsGoDown == ListingSpec => QueryGoesDown /\ []NobodyIsStuck
<1>1. ListingInv /\ [ListingNext]_listingVars
        => [IF Cancel \/ ServerStep THEN StepsLeft' = StepsLeft ELSE StepsLeft' < StepsLeft]_vars
  <2> SUFFICES ASSUME ListingInv, ListingNext, ~(Cancel \/ ServerStep), ~UNCHANGED vars
               PROVE  StepsLeft' < StepsLeft
    BY OthersTakeNothingBack DEF listingVars
  <2>1. TypeOK
    BY DEF ListingInv, Bookkeeping
  <2>2. CASE Querying
    <3>1. ASSUME NEW k \in Kinds, ListPage(k) \/ ListRefused(k) \/ ListCancelled(k)
          PROVE  \E result : ListReturns(k, result)
      BY <3>1 DEF ListPage, ListRefused, ListCancelled
    <3> QED  BY <2>1, <2>2, <3>1, GoroutinesMoveOn, CallersMoveOn DEF Querying
  <2>3. ~OthersAct /\ ~Report /\ ~ReportError
    BY DEF OthersAct, Report, ReportError, Answers
  <2> QED  BY <2>2, <2>3 DEF ListingNext
<1>2. ListingInv => NobodyIsStuck
  BY SomebodyGoesOn DEF ListingInv
<1> QED  BY <1>1, <1>2, ListingInvariant, PTL DEF ListingSpec, QueryGoesDown
------------------------------------------------------------------------------
(***************************************************************************)
(* The tools that list implement the search under their limit.             *)
(***************************************************************************)
\* Cardinality means the same in the instance.
LEMMA LimitedCardinality == \A S : LimitedSweep!Cardinality(S) = Cardinality(S)
BY DEF LimitedSweep!Cardinality, Cardinality

LEMMA LimitedPages ==
  ASSUME ListingInv, NEW k \in Kinds, ListPage(k), UNCHANGED toolVars
  PROVE  LimitedSweep!Settle(k)
<1>1. k \in Runners
  BY DEF ListPage, ListReturns, Move, Runners
<1>2. k \in kinds /\ caller \in {"spawning", "waiting"} /\ outcome[k] = Sweep!Pending
  BY <1>1, RunnersAreAwaited DEF ListingInv, Bookkeeping, OutcomeKnown, Settled, ListPage, ListReturns, Move
<1>3. UNCHANGED <<args, caller, kinds, content, served, slices>>
  BY DEF ListPage, ListReturns, toolVars, server
<1>4. PICK page \in SUBSET content[k] :
        /\ Cardinality(page) = IF args.limit # 0 /\ args.limit < Cardinality(content[k])
                                 THEN args.limit ELSE Cardinality(content[k])
        /\ ListReturns(k, IF k \in served THEN Sweep!Listed(page) ELSE Sweep!Dropped)
  BY DEF ListPage
<1>6. page \in LimitedSweep!Pages(k)
  BY <1>4, LimitedCardinality DEF LimitedSweep!Pages
<1>5. outcome' = [outcome EXCEPT ![k] = IF k \in served THEN LimitedSweep!Listed(page) ELSE LimitedSweep!Dropped]
  BY <1>4 DEF ListReturns, Sweep!Listed, Sweep!Dropped, LimitedSweep!Listed, LimitedSweep!Dropped
<1> QED  BY <1>2, <1>3, <1>5, <1>6 DEF LimitedSweep!Settle, LimitedSweep!Pending, Sweep!Pending

LEMMA QueryingSweeps ==
  ASSUME ListingInv, Querying
  PROVE  [LimitedSweep!Next]_(LimitedSweep!vars)
<1>0. Bookkeeping /\ UNCHANGED toolVars
  BY DEF ListingInv, Querying
<1> USE DEF server, toolVars
<1>1. CASE KindsFor
  BY <1>0, <1>1 DEF KindsFor, LimitedSweep!Next, LimitedSweep!Begin, LimitedSweep!Reject
<1>2. CASE SpawnedAll \/ Cancel
  BY <1>0, <1>2 DEF SpawnedAll, Cancel, LimitedSweep!vars
<1>3. CASE Return
  <2>1. slices = Sweep!AnswerOf(outcome) /\ \A k \in kinds : outcome[k] # Sweep!Pending
    BY <1>0, <1>3, SlicesAreTheAnswer DEF Return
  <2>2. LimitedSweep!Publish
    BY <1>0, <1>3, <2>1 DEF Return, LimitedSweep!Publish, LimitedSweep!AnswerOf, Sweep!AnswerOf,
                            LimitedSweep!Pending, Sweep!Pending
  <2> QED  BY <2>2 DEF LimitedSweep!Next
<1>4. ASSUME NEW k \in Kinds, Spawn(k)  PROVE UNCHANGED LimitedSweep!vars
  BY <1>0, <1>4 DEF Spawn, LimitedSweep!vars
<1>5. ASSUME NEW k \in Kinds, ListRefused(k) \/ ListCancelled(k)  PROVE LimitedSweep!Next
  <2>1. ListReturns(k, Sweep!Warned)
    BY <1>5 DEF ListRefused, ListCancelled
  <2>2. k \in Runners /\ ~Settled(k)
    BY <2>1 DEF ListReturns, Move, Runners, Settled
  <2>3. k \in kinds /\ caller \in {"spawning", "waiting"} /\ outcome[k] = Sweep!Pending
    BY <1>0, <2>2, RunnersAreAwaited DEF Bookkeeping, OutcomeKnown
  <2>4. LimitedSweep!Settle(k)
    BY <1>0, <2>1, <2>3 DEF ListReturns, LimitedSweep!Settle, LimitedSweep!Pending, Sweep!Pending,
                            LimitedSweep!Warned, Sweep!Warned
  <2> QED  BY <2>4 DEF LimitedSweep!Next
<1>6. ASSUME NEW k \in Kinds, Acquire(k) \/ Lock(k) \/ AddResult(k) \/ Release(k) \/ Done(k)
      PROVE  UNCHANGED LimitedSweep!vars
  <2>1. k \in Runners
    BY <1>6 DEF Acquire, Lock, AddResult, Release, Done, Move, Runners
  <2>2. caller \in {"spawning", "waiting"}
    BY <1>0, <2>1, RunnersAreAwaited
  <2> QED  BY <1>0, <1>6, <2>2 DEF Acquire, Lock, AddResult, Release, Done, LimitedSweep!vars
<1>7. ASSUME NEW k \in Kinds, ListPage(k)  PROVE LimitedSweep!Next
  BY <1>0, <1>7, LimitedPages DEF LimitedSweep!Next
<1> QED  BY <1>1, <1>2, <1>3, <1>4, <1>5, <1>6, <1>7 DEF Querying

\* The tools that list implement the search of one goroutine under their
\* limit: each kind is settled once, by what it held at one instant of the call
\* or by as much of that as the limit lets through (client.go:329-355).
THEOREM ListingsImplementLimitedSweep == ListingSpec => ImplementsLimitedSweep
<1>1. ListingInit => LimitedSweep!Init
  BY ListingAssumption DEF ListingInit, Init, LimitedSweep!Init, LimitedSweep!NoAnswer, LimitedSweep!Pending,
                           Sweep!NoAnswer, Sweep!Pending
<1>2. ListingInv /\ [ListingNext]_listingVars => [LimitedSweep!Next]_(LimitedSweep!vars)
  <2> SUFFICES ASSUME ListingInv, [ListingNext]_listingVars  PROVE [LimitedSweep!Next]_(LimitedSweep!vars)
    OBVIOUS
  <2>1. CASE OthersAct
    BY <2>1 DEF OthersAct, ServerStep, ChangeObjects, ChangeKinds, LimitedSweep!Next, LimitedSweep!ServerStep
  <2>2. CASE Report \/ ReportError \/ UNCHANGED listingVars
    BY <2>2 DEF Report, ReportError, Answers, listingVars, toolVars, vars, server, LimitedSweep!vars
  <2> QED  BY <2>1, <2>2, QueryingSweeps DEF ListingNext
<1> QED  BY <1>1, <1>2, ListingInvariant, PTL DEF ListingSpec, ImplementsLimitedSweep, LimitedSweep!Spec
==============================================================================
