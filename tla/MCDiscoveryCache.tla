-------------------------- MODULE MCDiscoveryCache --------------------------
(***************************************************************************)
(* Two goroutines that race for one cache, or one goroutine that serves    *)
(* the inspection tools over both: the two together are too many states.   *)
(***************************************************************************)
EXTENDS KindResolution, TLC

VARIABLE active    (* the goroutines that have anything to do                 *)

Symmetry == Permutations(Callers) \cup Permutations(APIs)
MCGroups == APIs \cup {AnyGroup}

MCInit ==
  /\ ResolutionInit
  /\ active \in {Callers} \cup {{c} : c \in Callers}

Racing ==
  /\ active = Callers
  /\ Next
  /\ \A c \in Callers : caller'[c].of # "mapper"
  /\ UNCHANGED call

Inspecting ==
  /\ active # Callers
  /\ ResolutionNext
  /\ \A c \in Callers \ active : caller'[c] = caller[c]

MCNext == (Racing \/ Inspecting) /\ UNCHANGED active

MCSpec == MCInit /\ [][MCNext]_<<resolutionVars, active>>
=============================================================================
