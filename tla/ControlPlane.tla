---------------------------- MODULE ControlPlane ----------------------------
(***************************************************************************)
(* What the platform tools read: the XRDs of a control plane and the APIs  *)
(* they define, a Composition, the Functions it may call, and the          *)
(* discovery snapshot (client.go) of an earlier moment that says which     *)
(* APIs there are.  All of it is external but the snapshot's use.          *)
(*                                                                         *)
(* An API is a kind in a group.  An XRD is a function from the versions it *)
(* serves to the schema of spec; the version discovery prefers is the      *)
(* highest.  APIs of Native have no XRD and are always there.              *)
(***************************************************************************)
EXTENDS Naturals, Sequences, FiniteSets, SequencesExt, TLC

CONSTANTS
  APIs,          (* in the order of discovery: by group and kind, a sequence  *)
  KindOf,        (* the kind of each, in lower case                          *)
  CategoryOf,    (* "claim", "composite" or "none"                           *)
  Native,        (* those no XRD defines                                     *)
  Landscapes,    (* the XRDs there may be: functions from APIs to XRDs        *)
  Functions,     (* packages a pipeline step may call                        *)
  Compositions,  (* what the Composition in question may be                  *)
  MaxEvents      (* changes of the control plane during a call, at most      *)

VARIABLES
  xrd,           (* the XRD of each API, or NoXRD                            *)
  known,         (* the discovery snapshot: the version of each known API    *)
  health,        (* the Healthy condition of each Function, or "absent"      *)
  composition,   (* the Composition                                          *)
  events         (* how often any of it has changed                          *)

landscape == <<xrd, health, composition>>
planeVars == <<landscape, known, events>>

NoXRD == <<>>
Offers(x) == {a \in Range(APIs) : a \in Native \/ x[a] # NoXRD}
Preferred(x, a) == IF a \in Native THEN 1 ELSE Max(DOMAIN x[a])
SnapshotOf(x) == [a \in Offers(x) |-> Preferred(x, a)]

PlaneInit ==
  /\ xrd \in Landscapes
  /\ \E before \in Landscapes : known = SnapshotOf(before)
  /\ health \in [Functions -> {"absent", "True", "Unknown"}]
  /\ composition \in Compositions
  /\ events = 0

\* Somebody edits, installs or removes, or a Function's health changes.
PlaneChanges ==
  /\ events < MaxEvents
  /\ events' = events + 1
  /\ \/ xrd' \in Landscapes /\ UNCHANGED <<health, composition>>
     \/ /\ \E f \in Functions, h \in {"absent", "True", "Unknown"} : health' = [health EXCEPT ![f] = h]
        /\ UNCHANGED <<xrd, composition>>
     \/ composition' \in Compositions /\ UNCHANGED <<xrd, health>>
  /\ UNCHANGED known

\* ResolveKind (client.go) on the snapshot: the matching APIs; one is an
\* answer, none or several are an error.
Matching(kind, group) ==
  {a \in DOMAIN known : KindOf[a] = kind /\ group \in {"", a}}
==============================================================================
