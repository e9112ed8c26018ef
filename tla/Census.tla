------------------------------- MODULE Census -------------------------------
(***************************************************************************)
(* What a report on a whole control plane promises: it looks once at every *)
(* kind in its scope, in any order, or says to itself that it could not;   *)
(* looking at a kind counts those of its objects that meet what the report *)
(* picks, each as it is at that instant, whatever becomes of it; and there *)
(* is an answer only when no kind is left.  It may also break off, with no *)
(* answer.                                                                 *)
(*                                                                         *)
(* HealthReport, with its sections, its rows, its search for usages and    *)
(* all that fails on the way, implements this one.                         *)
(***************************************************************************)
CONSTANTS
  Kinds,      (* the resource types there may be                             *)
  Objects,    (* the objects there may be                                    *)
  KindOf,     (* the kind of each                                            *)
  States,     (* what an object may be like                                  *)
  Absent      (* the state of one that is not there                          *)

VARIABLES
  picks,      (* the states the report counts                                *)
  scope,      (* the kinds it is about                                       *)
  world,      (* the API server: the state of every object                   *)
  settled,    (* the kinds that were looked at, or could not be              *)
  missing,    (* those that could not be                                     *)
  counted,    (* objects, each as it was                                     *)
  stage       (* "reading", "answered" or "panicked"                         *)

vars == <<picks, scope, world, settled, missing, counted, stage>>

Worlds == [Objects -> States \cup {Absent}]

Init ==
  /\ picks \in SUBSET States
  /\ scope \in SUBSET Kinds
  /\ world \in Worlds
  /\ settled = {} /\ missing = {} /\ counted = {}
  /\ stage = "reading"

Open(k) == stage = "reading" /\ k \in scope \ settled

LookAt(k) ==
  /\ Open(k)
  /\ settled' = settled \cup {k}
  /\ counted' = counted \cup
       {[obj |-> o, state |-> world[o]] : o \in {p \in Objects : KindOf[p] = k /\ world[p] \in picks}}
  /\ UNCHANGED <<picks, scope, world, missing, stage>>

PassOver(S) ==
  /\ \A k \in S : Open(k)
  /\ settled' = settled \cup S
  /\ missing' = missing \cup S
  /\ UNCHANGED <<picks, scope, world, counted, stage>>

Answer ==
  /\ stage = "reading" /\ settled = scope
  /\ stage' = "answered"
  /\ UNCHANGED <<picks, scope, world, settled, missing, counted>>

BreakOff ==
  /\ stage = "reading"
  /\ stage' = "panicked"
  /\ settled' = scope
  /\ UNCHANGED <<picks, scope, world, missing, counted>>

WorldChanges ==
  /\ world' \in Worlds
  /\ UNCHANGED <<picks, scope, settled, missing, counted, stage>>

Next ==
  \/ \E k \in Kinds : LookAt(k)
  \/ \E S \in SUBSET Kinds : PassOver(S)
  \/ Answer \/ BreakOff \/ WorldChanges

Spec == Init /\ [][Next]_vars
=============================================================================
