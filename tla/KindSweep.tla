------------------------------ MODULE KindSweep ------------------------------
(***************************************************************************)
(* What a search over several resource types promises its caller,         *)
(* whatever the number of goroutines behind it: every kind in scope is     *)
(* settled exactly once, from what the API server held at one instant of   *)
(* the call, all of it or as much as the limit lets through, and the       *)
(* answer is published once, when no kind is pending, and contains exactly *)
(* what was settled.                                                       *)
(*                                                                         *)
(* KindQuery, the specification of Client.Query, implements this one       *)
(* without a limit, and Listing, that of the tools that list, with one.    *)
(***************************************************************************)
EXTENDS Naturals, FiniteSets

CONSTANTS
  Kinds,    (* the resource types discovery can offer           *)
  Objs      (* names of the objects a kind can hold             *)

VARIABLES
  limit,    (* of the objects of a kind; 0 is none              *)
  phase,    (* "resolving", "sweeping", "failed" or "answered"  *)
  scope,    (* the kinds this search covers                     *)
  content,  (* the API server: the objects of each kind         *)
  served,   (* the API server: the kinds it still serves        *)
  tally,    (* what each kind of the scope was settled as       *)
  answer    (* what the caller gets                             *)

vars == <<limit, phase, scope, content, served, tally, answer>>

Pending == [status |-> "pending", items |-> {}]
Warned  == [status |-> "warned", items |-> {}]
Dropped == [status |-> "gone", items |-> {}]
Listed(items) == [status |-> "listed", items |-> items]

Tallies == {Pending, Warned, Dropped} \cup {Listed(items) : items \in SUBSET Objs}

NoAnswer == [objects |-> {}, warnings |-> {}]

\* The answer that reports exactly what was settled.
AnswerOf(t) ==
  [objects  |-> {p \in Kinds \X Objs : p[2] \in t[p[1]].items},
   warnings |-> {k \in Kinds : t[k].status = "warned"}]

Init ==
  /\ limit \in Nat
  /\ phase = "resolving"
  /\ scope = {}
  /\ served \in SUBSET Kinds
  /\ content \in [Kinds -> SUBSET Objs]
  /\ \A k \in Kinds \ served : content[k] = {}
  /\ tally = [k \in Kinds |-> Pending]
  /\ answer = NoAnswer

Begin ==
  /\ phase = "resolving"
  /\ phase' = "sweeping"
  /\ scope' \in SUBSET Kinds
  /\ UNCHANGED <<limit, content, served, tally, answer>>

Reject ==
  /\ phase = "resolving"
  /\ phase' = "failed"
  /\ UNCHANGED <<limit, scope, content, served, tally, answer>>

\* What a list of kind k may return: all there is, or as many as the limit.
Pages(k) ==
  {page \in SUBSET content[k] :
     Cardinality(page) = IF limit # 0 /\ limit < Cardinality(content[k]) THEN limit ELSE Cardinality(content[k])}

\* A kind is settled by what the API server holds now, or by an error.
Settle(k) ==
  /\ phase = "sweeping"
  /\ k \in scope
  /\ tally[k] = Pending
  /\ \E t \in {Warned} \cup (IF k \in served THEN {Listed(page) : page \in Pages(k)} ELSE {Dropped}) :
       tally' = [tally EXCEPT ![k] = t]
  /\ UNCHANGED <<limit, phase, scope, content, served, answer>>

Publish ==
  /\ phase = "sweeping"
  /\ \A k \in scope : tally[k] # Pending
  /\ phase' = "answered"
  /\ answer' = AnswerOf(tally)
  /\ UNCHANGED <<limit, scope, content, served, tally>>

\* Everybody else who uses the control plane.
ServerStep ==
  /\ \E k \in Kinds :
       \/ /\ k \in served
          /\ \E items \in SUBSET Objs : content' = [content EXCEPT ![k] = items]
          /\ UNCHANGED served
       \/ /\ served' = served \ {k}
          /\ content' = [content EXCEPT ![k] = {}]
       \/ /\ served' = served \cup {k}
          /\ UNCHANGED content
  /\ UNCHANGED <<limit, phase, scope, tally, answer>>

Next == Begin \/ Reject \/ (\E k \in Kinds : Settle(k)) \/ Publish \/ ServerStep

Spec == Init /\ [][Next]_vars
==============================================================================
