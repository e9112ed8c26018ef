----------------------------- MODULE ToolServer -----------------------------
(***************************************************************************)
(* The server process: how it starts from its options                      *)
(* (internal/cli/cli.go, call.go), which tools it registers                *)
(* (pkg/mcp/server.go, pkg/toolsets/toolsets.go), what invoke does around  *)
(* a handler, how a call gets the client of its cluster                    *)
(* (pkg/crossplane/provider.go, pkg/kube/config.go), and how it ends.      *)
(*                                                                         *)
(* The kubeconfig is external and edited while the server runs: which      *)
(* contexts there are is read once, at the start, and what one of them     *)
(* says when a call first names it.  The handler is external: it may talk  *)
(* to its cluster as often as it likes, and comes back when it is through, *)
(* or when its context is done, or, if it waits for something that does    *)
(* not look at the context, not at all.                                    *)
(***************************************************************************)
EXTENDS Naturals, Sequences

CONSTANTS
  Calls,          (* tool calls, each made once                               *)
  Tools,          (* names of tools                                           *)
  Writing,        (* those whose handler writes, and whose Write field is set *)
  Heedless,       (* those whose handler may outlast its context              *)
  Toolsets,       (* names of registered toolsets                             *)
  ToolsOf,        (* the tools of each                                        *)
  Contexts,       (* names a kubeconfig may give its contexts                 *)
  Servers,        (* API servers a context may point to                       *)
  Options,        (* command lines the server may be started with             *)
  Kubeconfigs,    (* what the kubeconfig may say at the start                 *)
  MaxEdits        (* how often it is edited, at most                          *)

None == "none"
InClusterTarget == "in-cluster"
Names == Contexts \cup {InClusterTarget}

ASSUME ToolsAssumption ==
  /\ Writing \subseteq Tools
  /\ Heedless \subseteq Tools
  /\ ToolsOf \in [Toolsets -> SUBSET Tools]
ASSUME NamesAssumption ==
  /\ None \notin Names /\ None \notin Servers /\ None \notin Calls
  /\ InClusterTarget \notin Contexts
ASSUME EditsAssumption == MaxEdits \in Nat

(***************************************************************************)
(* On the command line, an empty set stands for a flag not given: all      *)
(* toolsets, all contexts; so does None for --context.  timeout says       *)
(* whether --tool-timeout is other than 0.  A kubeconfig says where each   *)
(* context points to, None if it is not there, and which is current.       *)
(***************************************************************************)
ASSUME StartAssumption ==
  /\ Options \subseteq [toolsets : SUBSET Toolsets, clusters : SUBSET Contexts,
                         context : Contexts \cup {None}, readOnly : BOOLEAN, timeout : BOOLEAN]
  /\ Kubeconfigs \subseteq [server : [Contexts -> Servers \cup {None}], current : Contexts \cup {None}]

Idle == [at |-> "idle", tool |-> None, name |-> None, server |-> None,
         client |-> 0, expired |-> FALSE]

VARIABLES
  options,     (* the command line                                            *)
  kubeconfig,  (* the file, now                                               *)
  inPod,       (* whether there are credentials of a service account          *)
  edits,       (* how often the file was edited                               *)
  stage,       (* where the process is                                        *)
  loader,      (* Loader: raw contexts, whether in a cluster, and fallback    *)
  tools,       (* the tools registered                                        *)
  mu,          (* Provider.mu: the call that holds it, or None                *)
  clients,     (* Provider.clients: which client each name has, 0 for none    *)
  endpoint,    (* the server each client made so far talks to                 *)
  calls,       (* the tool calls                                              *)
  wrote        (* servers that a handler wrote to                             *)

vars == <<options, kubeconfig, inPod, edits, stage, loader, tools, mu, clients, endpoint, calls, wrote>>
process == <<options, inPod, loader, tools>>

Present(k) == {n \in Contexts : k.server[n] # None}

Init ==
  /\ options \in Options
  /\ kubeconfig \in Kubeconfigs
  /\ inPod \in BOOLEAN
  /\ edits = 0
  /\ stage = "starting"
  /\ loader = [contexts |-> {}, inCluster |-> FALSE, fallback |-> None]
  /\ tools = {}
  /\ mu = None
  /\ clients = [n \in Names |-> 0]
  /\ endpoint = <<>>
  /\ calls = [c \in Calls |-> Idle]
  /\ wrote = {}

------------------------------------------------------------------------------
(***************************************************************************)
(* buildServer: Select, NewLoader and NewServer, each of which may refuse  *)
(* to go on.  Flags only name toolsets there are.                          *)
(***************************************************************************)
Selected == IF options.toolsets = {} THEN Toolsets ELSE options.toolsets

DefinedTwice == \E s, t \in Selected : s # t /\ ToolsOf[s] \cap ToolsOf[t] # {}

Fallback == IF options.context # None THEN options.context ELSE kubeconfig.current

\* Mutated form: a tool whose declaration lacks Write.
MutatesNothing(t) == FALSE

Mutates(t) == t \in Writing
AllowWrite == ~options.readOnly
Withheld(t) == Mutates(t) /\ ~AllowWrite

Loaded ==
  IF Present(kubeconfig) = {}
  THEN [contexts |-> {}, inCluster |-> TRUE, fallback |-> InClusterTarget]
  ELSE [contexts |-> Present(kubeconfig), inCluster |-> FALSE, fallback |-> Fallback]

Loads == IF Present(kubeconfig) = {} THEN inPod ELSE Fallback \in Present(kubeconfig)

Start ==
  /\ stage = "starting"
  /\ Loads /\ ~DefinedTwice
  /\ stage' = "serving"
  /\ loader' = Loaded
  /\ tools' = {t \in UNION {ToolsOf[s] : s \in Selected} : ~Withheld(t)}
  /\ UNCHANGED <<options, kubeconfig, inPod, edits, mu, clients, endpoint, calls, wrote>>

Refuse ==
  /\ stage = "starting"
  /\ ~Loads \/ DefinedTwice
  /\ stage' = "refused"
  /\ UNCHANGED <<process, kubeconfig, edits, mu, clients, endpoint, calls, wrote>>

------------------------------------------------------------------------------
\* Loader.allowed and Loader.Targets: what crossplane_clusters_list answers.
Allowed(n) == options.clusters = {} \/ n \in options.clusters

Targets ==
  IF loader.inCluster THEN {InClusterTarget} ELSE {n \in loader.contexts : Allowed(n)}

Running == stage \in {"serving", "stopping"}

At(c, place) == Running /\ calls[c].at = place

\* An answer without a handler: an error of the call's own.
Fail(c) == calls' = [calls EXCEPT ![c].at = "failed"]

(***************************************************************************)
(* A call arrives for a tool and a cluster, or for the default one.  The   *)
(* protocol, and Call, only reach registered tools; invoke asks again.     *)
(***************************************************************************)
Arrive(c, t, n) ==
  /\ stage = "serving" /\ calls[c] = Idle
  /\ calls' = [calls EXCEPT ![c] =
       [Idle EXCEPT !.at = IF t \in tools /\ ~Withheld(t) THEN "waiting" ELSE "failed",
                    !.tool = t, !.name = IF n = None THEN loader.fallback ELSE n]]
  /\ UNCHANGED <<process, kubeconfig, edits, stage, mu, clients, endpoint, wrote>>

\* The context.WithTimeout of invoke expires.  Waiting for the lock, and what
\* is done under it, does not look at the context.
Expire(c) ==
  /\ options.timeout
  /\ Running /\ calls[c].at \in {"waiting", "locked", "connecting", "handling"}
  /\ ~calls[c].expired
  /\ calls' = [calls EXCEPT ![c].expired = TRUE]
  /\ UNCHANGED <<process, kubeconfig, edits, stage, mu, clients, endpoint, wrote>>

Lock(c) ==
  /\ At(c, "waiting") /\ mu = None
  /\ mu' = c
  /\ calls' = [calls EXCEPT ![c].at = "locked"]
  /\ UNCHANGED <<process, kubeconfig, edits, stage, clients, endpoint, wrote>>

FindClient(c) ==
  /\ At(c, "locked") /\ clients[calls[c].name] # 0
  /\ mu' = None
  /\ calls' = [calls EXCEPT ![c].at = "handling", ![c].client = clients[calls[c].name]]
  /\ UNCHANGED <<process, kubeconfig, edits, stage, clients, endpoint, wrote>>

(***************************************************************************)
(* Loader.Resolve.  Whether the name is a context, and exposed, goes by    *)
(* what the file said at the start; where it points to, by what it says    *)
(* now, the context may have been removed meanwhile.                       *)
(***************************************************************************)
\* Mutated form: every context of the file will do.
ServerOfAny(n) ==
  CASE n = InClusterTarget -> IF loader.inCluster /\ inPod THEN InClusterTarget ELSE None
    [] n # InClusterTarget /\ n \in loader.contexts -> kubeconfig.server[n]
    [] OTHER -> None

Server(n) ==
  CASE n = InClusterTarget -> IF loader.inCluster /\ inPod THEN InClusterTarget ELSE None
    [] n # InClusterTarget /\ n \in loader.contexts /\ Allowed(n) -> kubeconfig.server[n]
    [] OTHER -> None

\* Mutated form: the lock only guards the look into the map.
ResolveUnlocked(c) ==
  /\ At(c, "locked") /\ clients[calls[c].name] = 0
  /\ Server(calls[c].name) # None
  /\ mu' = None
  /\ calls' = [calls EXCEPT ![c].at = "connecting", ![c].server = Server(calls[c].name)]
  /\ UNCHANGED <<process, kubeconfig, edits, stage, clients, endpoint, wrote>>

Resolve(c) ==
  /\ At(c, "locked") /\ clients[calls[c].name] = 0
  /\ Server(calls[c].name) # None
  /\ calls' = [calls EXCEPT ![c].at = "connecting", ![c].server = Server(calls[c].name)]
  /\ UNCHANGED <<process, kubeconfig, edits, stage, mu, clients, endpoint, wrote>>

ResolveFails(c) ==
  /\ At(c, "locked") /\ clients[calls[c].name] = 0
  /\ mu' = None
  /\ Fail(c)
  /\ UNCHANGED <<process, kubeconfig, edits, stage, clients, endpoint, wrote>>

\* New makes a client, which is kept.
Connect(c) ==
  /\ At(c, "connecting")
  /\ endpoint' = Append(endpoint, calls[c].server)
  /\ clients' = [clients EXCEPT ![calls[c].name] = Len(endpoint')]
  /\ calls' = [calls EXCEPT ![c].at = "handling", ![c].client = Len(endpoint')]
  /\ mu' = None
  /\ UNCHANGED <<process, kubeconfig, edits, stage, wrote>>

\* Mutated form: the lock is kept when New fails.
ConnectFailsLocked(c) ==
  /\ At(c, "connecting")
  /\ Fail(c)
  /\ UNCHANGED <<process, kubeconfig, edits, stage, mu, clients, endpoint, wrote>>

ConnectFails(c) ==
  /\ At(c, "connecting")
  /\ mu' = None
  /\ Fail(c)
  /\ UNCHANGED <<process, kubeconfig, edits, stage, clients, endpoint, wrote>>

------------------------------------------------------------------------------
\* The handler of a writing tool writes.
Write(c) ==
  /\ At(c, "handling") /\ calls[c].tool \in Writing
  /\ wrote' = wrote \cup {endpoint[calls[c].client]}
  /\ UNCHANGED <<process, kubeconfig, edits, stage, mu, clients, endpoint, calls>>

HandlerReturns(c) ==
  /\ At(c, "handling")
  /\ calls' = [calls EXCEPT ![c].at = "answered"]
  /\ UNCHANGED <<process, kubeconfig, edits, stage, mu, clients, endpoint, wrote>>

\* A signal.  The HTTP server stops to listen, and that alone makes
\* ListenAndServe return: nothing waits for Shutdown to wait for the calls.
Signal ==
  /\ stage = "serving"
  /\ stage' = "stopping"
  /\ UNCHANGED <<process, kubeconfig, edits, mu, clients, endpoint, calls, wrote>>

Exit ==
  /\ stage = "stopping"
  /\ stage' = "down"
  /\ UNCHANGED <<process, kubeconfig, edits, mu, clients, endpoint, calls, wrote>>

\* Somebody points a context elsewhere, adds or removes one.
Edit ==
  /\ edits < MaxEdits /\ stage \in {"starting", "serving"}
  /\ edits' = edits + 1
  /\ \E n \in Contexts, s \in Servers \cup {None} :
       kubeconfig' = [kubeconfig EXCEPT !.server[n] = s]
  /\ UNCHANGED <<process, stage, mu, clients, endpoint, calls, wrote>>

Step(c) ==
  \/ Lock(c) \/ FindClient(c) \/ Resolve(c) \/ ResolveFails(c)
  \/ Connect(c) \/ ConnectFails(c)

Next ==
  \/ Start \/ Refuse \/ Signal \/ Exit \/ Edit
  \/ \E c \in Calls :
       \/ \E t \in Tools, n \in Names \cup {None} : Arrive(c, t, n)
       \/ Expire(c) \/ Step(c) \/ Write(c) \/ HandlerReturns(c)

Spec == Init /\ [][Next]_vars

(***************************************************************************)
(* The scheduler runs every call that can go on; a deadline passes; and a  *)
(* handler comes back once its context is done, as client-go's requests    *)
(* do.  Nothing is assumed of a handler whose context is not done, nor of  *)
(* one that is heedless: a render waits for docker, and for whatever holds *)
(* the pipes of the CLI it started (render.go:97-109, 147).                *)
(***************************************************************************)
Heeds(c) == calls[c].expired /\ calls[c].tool \notin Heedless

Fairness == \A c \in Calls :
  /\ WF_vars(Expire(c))
  /\ WF_vars(Step(c) \/ (Heeds(c) /\ HandlerReturns(c)))

FairSpec == Spec /\ Fairness
------------------------------------------------------------------------------
Places == {"idle", "waiting", "locked", "connecting", "handling", "answered", "failed"}

CallStates == [at : Places, tool : Tools \cup {None}, name : Names \cup {None},
               server : Servers \cup {InClusterTarget, None}, client : Nat, expired : BOOLEAN]

\* Every variable stays within its type.
TypeOK ==
  /\ options \in Options
  /\ kubeconfig \in [server : [Contexts -> Servers \cup {None}], current : Contexts \cup {None}]
  /\ edits \in 0..MaxEdits
  /\ inPod \in BOOLEAN
  /\ stage \in {"starting", "refused", "serving", "stopping", "down"}
  /\ tools \in SUBSET Tools
  /\ mu \in Calls \cup {None}
  /\ endpoint \in Seq(Servers \cup {InClusterTarget})
  /\ clients \in [Names -> 0..Len(endpoint)]
  /\ calls \in [Calls -> CallStates]
  /\ \A c \in Calls : calls[c].client \in 0..Len(endpoint)
  /\ wrote \in SUBSET (Servers \cup {InClusterTarget})

\* All calls that name one cluster, or that default to it, work with one
\* client, and so one discovery cache, one rate limit and one API server, and
\* no call for another cluster does, however they race for it, whichever of
\* them fail, and whatever happens to the kubeconfig meanwhile
\* (provider.go:60-87).
OneClientPerCluster ==
  \A c, d \in Calls :
    calls[c].client # 0 /\ calls[d].client # 0 =>
      (calls[c].name = calls[d].name <=> calls[c].client = calls[d].client)

Exposed == IF stage \in {"starting", "refused"} THEN {} ELSE Targets

\* What a call without a client names says nothing yet.
Given ==
  [c \in Calls |->
     [name |-> IF calls[c].client = 0 THEN None ELSE calls[c].name, client |-> calls[c].client]]

Directory == INSTANCE ClientDirectory WITH
  Nobody <- None, exposed <- Exposed, directory <- clients, given <- Given

\* The Provider, its lock, what fails and what is edited meanwhile included,
\* does what a directory does that hands out clients one at a time
\* (provider.go:60-87, config.go:183-238).
ImplementsDirectory == Directory!Spec

\* No call reaches a cluster --clusters does not name, not even the default
\* one, and as long as the kubeconfig is left alone the clusters that
\* crossplane_clusters_list shows are the ones that can be reached
\* (config.go:140-179, 183-238; README.md:475-478).
OnlyExposedIsReached ==
  /\ \A c \in Calls : calls[c].client # 0 =>
       /\ calls[c].name \in Targets
       /\ loader.inCluster \/ options.clusters = {} \/ calls[c].name \in options.clusters
  /\ stage = "serving" /\ edits = 0 => Targets = {n \in Names : Server(n) # None}

\* A server started read-only never writes to any cluster, and one that is
\* not writes only where a call of a registered tool sent it
\* (server.go:89-92, 179-182; README.md:116-121).
WritesAreAskedFor ==
  /\ options.readOnly => wrote = {}
  /\ \A s \in wrote : \E c \in Calls :
       calls[c].tool \in tools /\ calls[c].client # 0 /\ endpoint[calls[c].client] = s

\* With a deadline, every call is answered, unless the process ends before, or
\* at least gets as far as a handler that is heedless: neither a handler that
\* hangs, be it for ever, nor a cluster that cannot be connected to keeps the
\* others waiting (README.md:480-481).
EveryCallAnswered ==
  \A c \in Calls :
    calls[c].at = "waiting" /\ options.timeout ~>
      \/ calls[c].at \in {"answered", "failed"} \/ stage = "down"
      \/ calls[c].at = "handling" /\ calls[c].tool \in Heedless

(***************************************************************************)
(* What of EveryCallAnswered is no matter of fairness: how many steps a    *)
(* call has to go, its deadline included, and what it may wait for.        *)
(***************************************************************************)
StepsOf(call) ==
  (CASE call.at = "idle" -> 5
     [] call.at = "waiting" -> 4
     [] call.at = "locked" -> 3
     [] call.at = "connecting" -> 2
     [] call.at = "handling" -> 1
     [] OTHER -> 0)
  + IF call.expired THEN 0 ELSE 1

\* No call goes back, for a retry or for a lock it had given up: it makes one
\* attempt at everything (provider.go:60-87, server.go:162-225).
CallsGoDown == [][\A c \in Calls : calls'[c] # calls[c] => StepsOf(calls'[c]) < StepsOf(calls[c])]_vars

\* A call waits for the lock only while another is looking for its client, or
\* making one; whoever has a handler running, has failed or was answered does
\* not have it, and of those that are looking there is one (provider.go:65-66).
WaitsAreShort ==
  \A c \in Calls : calls[c].at = "waiting" /\ mu # None =>
    /\ mu \in Calls \ {c} /\ calls[mu].at \in {"locked", "connecting"}
    /\ \A d \in Calls \ {mu} : calls[d].at \notin {"locked", "connecting"}

(***************************************************************************)
(* What the safety properties rest on, in parts; with them it is the       *)
(* inductive invariant of ToolServer_proofs.                               *)
(***************************************************************************)

\* The lock is held by the call that is between looking for a client and
\* having one, which meanwhile nobody else puts into the map.
LockIsHeld ==
  \A c \in Calls :
    /\ calls[c].at \in {"locked", "connecting"} <=> mu = c
    /\ calls[c].at = "connecting" =>
         /\ clients[calls[c].name] = 0
         /\ calls[c].name \in Targets
         /\ calls[c].server # None

\* A call has the client the map has for its cluster, for good.
ClientIsKept ==
  \A c \in Calls :
    /\ calls[c].at # "idle" => calls[c].name \in Names
    /\ calls[c].at \in {"handling", "answered"} <=> calls[c].client # 0
    /\ calls[c].client # 0 => clients[calls[c].name] = calls[c].client

ClientsAreExposed == \A n \in Names : clients[n] # 0 => n \in Targets

\* No two clusters have one client: each is made for the one it was asked for.
ClientsAreApart == \A n, m \in Names : clients[n] # 0 /\ clients[n] = clients[m] => n = m

\* A call gets past the gate only for a tool that is registered, and none is
\* registered that may not be used.
GateIsKept ==
  /\ \A t \in tools : ~Withheld(t)
  /\ \A c \in Calls : calls[c].at \notin {"idle", "failed"} => calls[c].tool \in tools

\* Nothing has happened before the server serves; from then on it goes by
\* what the kubeconfig said.
StartIsClean ==
  /\ stage \in {"starting", "refused"} =>
       /\ tools = {} /\ wrote = {}
       /\ \A c \in Calls : calls[c] = Idle
       /\ \A n \in Names : clients[n] = 0
  /\ stage \notin {"starting", "refused"} =>
       /\ loader.fallback \in Names
       /\ loader.contexts \subseteq Contexts
       /\ loader.inCluster => loader.contexts = {} /\ inPod
       /\ edits = 0 => loader.contexts = Present(kubeconfig)

InOrder ==
  /\ TypeOK
  /\ LockIsHeld
  /\ ClientIsKept
  /\ ClientsAreExposed
  /\ GateIsKept
  /\ StartIsClean
  /\ WritesAreAskedFor
==============================================================================
