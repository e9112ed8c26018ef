------------------------------ MODULE MCListing ------------------------------
(***************************************************************************)
(* Two resource types, of one kind or of two, with two objects each: one   *)
(* is as it should be, the other differs from it in what Looks says.       *)
(***************************************************************************)
EXTENDS Listing, TLC

CONSTANTS k1, k2, good, bad

MCWords == {k1 :> "Bucket" @@ k2 :> w : w \in {"Bucket", "Queue"}}
MCKeys == <<"a", "b", "c">>

\* The document that has these leaves, and maps above them.
Holding(leaves) ==
  [p \in UNION {{SubSeq(q, 1, i) : i \in 0..Len(q)} : q \in DOMAIN leaves} |->
     IF p \in DOMAIN leaves THEN leaves[p] ELSE Map]

Declared == Holding(<<"a">> :> "1" @@ <<"b", "a">> :> "1" @@ <<"b", "b">> :> "2" @@ <<"c">> :> "3")
Fine == [ready |-> "True", synced |-> "True", paused |-> FALSE, policies |-> {"*"},
         desired |-> Declared, observed |-> Declared]

\* Drifted below a map, with a field more and one less, or on more paths than
\* are told; a map became a leaf; or not reconciled any more.
Oddities ==
  {[Fine EXCEPT !.ready = "Unknown",
                !.observed = Holding(<<"a">> :> "1" @@ <<"b", "b">> :> "0" @@ <<"b", "c">> :> "9")],
   [Fine EXCEPT !.synced = "False",
                !.observed = [p \in DOMAIN Declared |-> IF Declared[p] = Map THEN Map ELSE "0"]],
   [Fine EXCEPT !.observed = Holding(<<"a", "a">> :> "1" @@ <<"b">> :> "1" @@ <<"c">> :> "3")],
   [Fine EXCEPT !.ready = "False", !.policies = {"Observe"}],
   [Fine EXCEPT !.paused = TRUE, !.policies = {}]}

MCLooks == {good :> Fine @@ bad :> odd : odd \in Oddities}

Ask(tool, status, limit, driftedOnly) ==
  [tool |-> tool, status |-> status, limit |-> limit, driftedOnly |-> driftedOnly]

MCArguments ==
  {Ask("summary", "any", 0, FALSE),
   Ask("managed", "not-ready", 1, FALSE),
   Ask("managed", "not-ready", 3, FALSE),
   Ask("category", "any", 3, FALSE),
   Ask("drift", "any", 3, TRUE),
   Ask("drift", "any", 2, FALSE)}

\* Only drift detection looks at more than the conditions, and other clients
\* bring about the contents that no call starts with.
MCInit ==
  /\ ListingInit
  /\ content[k1] = {good, bad} /\ content[k2] \in {{}, {good, bad}}
  /\ args.tool # "category" => word[k2] = "Queue"
  /\ args.tool # "drift" => look[bad].ready = "Unknown"
  /\ args.tool = "drift" /\ ~args.driftedOnly => look[bad].paused

MCSpec == MCInit /\ [][ListingNext]_listingVars /\ ListingFairness
==============================================================================
