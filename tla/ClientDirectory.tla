--------------------------- MODULE ClientDirectory ---------------------------
(***************************************************************************)
(* What the Provider promises the tool calls of a process, however many    *)
(* ask at a time: once it is known which clusters are exposed, a call that *)
(* gets a client gets the one of its cluster; a cluster gets its client    *)
(* the first time one is handed out, keeps it, and shares it with no       *)
(* other.                                                                  *)
(*                                                                         *)
(* ToolServer, with its lock, failures and edits, implements this one.     *)
(***************************************************************************)
EXTENDS Naturals

CONSTANTS
  Calls,      (* those who ask                                               *)
  Names,      (* names of clusters                                           *)
  Nobody      (* the cluster of a call that has no client yet                *)

VARIABLES
  exposed,    (* the clusters that may be reached                            *)
  directory,  (* the client each cluster has, 0 for none                     *)
  given       (* the cluster and client each call has                        *)

vars == <<exposed, directory, given>>

NotYet == [name |-> Nobody, client |-> 0]

Init ==
  /\ exposed = {}
  /\ directory = [n \in Names |-> 0]
  /\ given = [c \in Calls |-> NotYet]

Open ==
  /\ exposed = {} /\ given = [c \in Calls |-> NotYet]
  /\ exposed' \in SUBSET Names
  /\ UNCHANGED <<directory, given>>

\* The client of n, old or new, for call c.
Give(c, n) ==
  /\ n \in exposed
  /\ given[c] = NotYet
  /\ directory' \in [Names -> Nat]
  /\ \A m \in Names \ {n} : directory'[m] = directory[m] /\ directory'[m] # directory'[n]
  /\ directory[n] # 0 => directory'[n] = directory[n]
  /\ directory'[n] # 0
  /\ given' = [given EXCEPT ![c] = [name |-> n, client |-> directory'[n]]]
  /\ UNCHANGED exposed

Next == Open \/ \E c \in Calls, n \in Names : Give(c, n)

Spec == Init /\ [][Next]_vars
==============================================================================
