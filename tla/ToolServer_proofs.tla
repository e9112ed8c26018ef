-------------------------- MODULE ToolServer_proofs --------------------------
(***************************************************************************)
(* Proofs about ToolServer, for any number of calls, clusters and tools    *)
(* and any edits of the kubeconfig.  InOrder is the inductive invariant:   *)
(* what holds the safety properties together is the lock of the Provider,  *)
(* and that its map only ever gains entries, for names that are exposed.   *)
(* It gains them one at a time and each for a client of its own            *)
(* (ClientsAreApart), so that the Provider implements ClientDirectory.     *)
(***************************************************************************)
EXTENDS ToolServer, TLAPS

USE NamesAssumption

\* What a step does to the calls when it moves only call c.
Moves(c, at, server, client) ==
  /\ calls' \in [Calls -> CallStates]
  /\ \A d \in Calls \ {c} : calls'[d] = calls[d]
  /\ calls'[c].at = at
  /\ calls'[c].tool = calls[c].tool
  /\ calls'[c].name = calls[c].name
  /\ calls'[c].server = server
  /\ calls'[c].client = client

LEMMA SameTargets ==
  ASSUME UNCHANGED process
  PROVE  /\ Targets' = Targets
         /\ \A t \in Tools : Withheld(t)' = Withheld(t)
         /\ options' = options /\ inPod' = inPod /\ loader' = loader /\ tools' = tools
BY DEF process, Targets, Allowed, Withheld, Mutates, AllowWrite

LEMMA InitInOrder == Init => InOrder
<1> SUFFICES ASSUME Init PROVE InOrder
  OBVIOUS
<1>1. TypeOK
  <2>1. kubeconfig \in [server : [Contexts -> Servers \cup {None}], current : Contexts \cup {None}]
        /\ options \in Options /\ edits \in 0..MaxEdits
    BY StartAssumption, EditsAssumption DEF Init
  <2>2. Idle \in CallStates
    BY DEF CallStates, Idle, Places
  <2>3. calls \in [Calls -> CallStates] /\ \A c \in Calls : calls[c].client \in 0..Len(endpoint)
    BY <2>2 DEF Init, Idle
  <2> QED  BY <2>1, <2>3 DEF Init, TypeOK, Names
<1>2. LockIsHeld /\ ClientIsKept /\ ClientsAreExposed
  BY DEF Init, LockIsHeld, ClientIsKept, ClientsAreExposed, Idle
<1>3. GateIsKept /\ StartIsClean /\ WritesAreAskedFor
  BY DEF Init, GateIsKept, StartIsClean, WritesAreAskedFor, Idle
<1> QED  BY <1>1, <1>2, <1>3 DEF InOrder

------------------------------------------------------------------------------
(***************************************************************************)
(* Steps of the process, which leave the calls alone.                      *)
(***************************************************************************)
LEMMA StartInOrder == InOrder /\ Start => InOrder'
<1> SUFFICES ASSUME InOrder, Start PROVE InOrder'
  OBVIOUS
<1> USE DEF InOrder
<1>1. loader'.fallback \in Names /\ loader'.contexts = Present(kubeconfig) /\ loader'.inCluster \in BOOLEAN
      /\ (loader'.inCluster => loader'.contexts = {} /\ inPod)
  BY DEF Start, Loaded, Loads, Present, Names, TypeOK
<1>2. \A c \in Calls : calls[c] = Idle
  BY DEF StartIsClean, Start
<1>3. TypeOK'
  <2>1. tools' \in SUBSET Tools
    BY ToolsAssumption, StartAssumption DEF Start, TypeOK, Selected
  <2> QED  BY <2>1 DEF Start, TypeOK
<1>4. LockIsHeld' /\ ClientIsKept'
  BY <1>2 DEF Start, Idle, LockIsHeld, ClientIsKept
<1>5. ClientsAreExposed'
  BY DEF Start, StartIsClean, ClientsAreExposed
<1>6. GateIsKept'
  <2>1. \A t \in tools' : ~Withheld(t)'
    BY DEF Start, Withheld, Mutates, AllowWrite
  <2> QED  BY <1>2, <2>1 DEF Start, Idle, GateIsKept
<1>7. StartIsClean'
  BY <1>1 DEF Start, StartIsClean, Present
<1>8. WritesAreAskedFor'
  BY DEF Start, StartIsClean, WritesAreAskedFor
<1> QED  BY <1>3, <1>4, <1>5, <1>6, <1>7, <1>8

\* Refusing, a signal and the end of the process change its stage only.
LEMMA StageInOrder == InOrder /\ (Refuse \/ Signal \/ Exit) => InOrder'
<1> SUFFICES ASSUME InOrder, Refuse \/ Signal \/ Exit PROVE InOrder'
  OBVIOUS
<1> USE DEF InOrder
<1>1. /\ UNCHANGED <<process, kubeconfig, edits, mu, clients, endpoint, calls, wrote>>
      /\ stage' \in {"refused", "stopping", "down"}
      /\ stage' = "refused" <=> stage = "starting"
  BY DEF Refuse, Signal, Exit
<1>2. /\ Targets' = Targets /\ \A t \in Tools : Withheld(t)' = Withheld(t)
      /\ UNCHANGED <<options, inPod, loader, tools>>
  BY <1>1, SameTargets DEF process
<1>3. TypeOK'
  BY <1>1, <1>2 DEF TypeOK
<1>4. LockIsHeld' /\ ClientIsKept' /\ ClientsAreExposed'
  BY <1>1, <1>2 DEF LockIsHeld, ClientIsKept, ClientsAreExposed
<1>5. GateIsKept' /\ WritesAreAskedFor'
  BY <1>1, <1>2 DEF GateIsKept, WritesAreAskedFor, TypeOK
<1>6. StartIsClean'
  <2>1. stage \in {"starting", "refused", "serving", "stopping", "down"}
    BY DEF TypeOK
  <2>2. stage # "refused"
    BY DEF Refuse, Signal, Exit
  <2> QED  BY <1>1, <1>2, <2>1, <2>2 DEF StartIsClean, Present
<1> QED  BY <1>3, <1>4, <1>5, <1>6

LEMMA EditInOrder == InOrder /\ Edit => InOrder'
<1> SUFFICES ASSUME InOrder, Edit PROVE InOrder'
  OBVIOUS
<1> USE DEF InOrder
<1>1. UNCHANGED <<process, stage, mu, clients, endpoint, calls, wrote>> /\ edits' \in 1..MaxEdits
  BY EditsAssumption DEF Edit, TypeOK
<1>2. /\ Targets' = Targets /\ \A t \in Tools : Withheld(t)' = Withheld(t)
      /\ UNCHANGED <<options, inPod, loader, tools>>
  BY <1>1, SameTargets DEF process
<1>3. TypeOK'
  <2>1. kubeconfig' \in [server : [Contexts -> Servers \cup {None}], current : Contexts \cup {None}]
    <3>1. PICK n \in Contexts, s \in Servers \cup {None} : kubeconfig' = [kubeconfig EXCEPT !.server[n] = s]
      BY DEF Edit
    <3>2. kubeconfig.server \in [Contexts -> Servers \cup {None}] /\ kubeconfig.current \in Contexts \cup {None}
      BY DEF TypeOK
    <3>3. kubeconfig' = [server |-> [kubeconfig.server EXCEPT ![n] = s], current |-> kubeconfig.current]
      BY <3>1 DEF TypeOK
    <3> QED  BY <3>2, <3>3
  <2> QED  BY <1>1, <1>2, <2>1 DEF TypeOK
<1>4. LockIsHeld' /\ ClientIsKept' /\ ClientsAreExposed'
  BY <1>1, <1>2 DEF LockIsHeld, ClientIsKept, ClientsAreExposed
<1>5. GateIsKept' /\ WritesAreAskedFor'
  BY <1>1, <1>2 DEF GateIsKept, WritesAreAskedFor, TypeOK
<1>6. StartIsClean'
  BY <1>1, <1>2 DEF StartIsClean
<1> QED  BY <1>3, <1>4, <1>5, <1>6

------------------------------------------------------------------------------
(***************************************************************************)
(* Steps of one call.  Each moves that call only, as Moves says.           *)
(***************************************************************************)
\* A call that waits for the lock, finds its client, fails
\* or comes back makes no client, and writes nothing.
Quiet(c) ==
  /\ UNCHANGED <<process, kubeconfig, edits, stage, clients, endpoint, wrote>>
  /\ Running

\* What the invariant needs to hold of such a move: the lock goes with the
\* places between locking and having a client, and a client is the map's.
MayMove(c, at, server, client) ==
  /\ calls[c].at # "idle" /\ at \in Places \ {"idle"}
  /\ server \in Servers \cup {InClusterTarget, None} /\ client \in 0..Len(endpoint)
  /\ mu' \in Calls \cup {None}
  /\ \A d \in Calls \ {c} : mu' = d <=> mu = d
  /\ mu' = c <=> at \in {"locked", "connecting"}
  /\ at = "connecting" => clients[calls[c].name] = 0 /\ calls[c].name \in Targets /\ server # None
  /\ at \in {"handling", "answered"} <=> client # 0
  /\ calls[c].client \in {0, client}
  /\ client # 0 => clients[calls[c].name] = client
  /\ at = "failed" \/ calls[c].at # "failed"

LEMMA QuietInOrder ==
  ASSUME InOrder, NEW c \in Calls, NEW at, NEW server, NEW client,
         Quiet(c), Moves(c, at, server, client), MayMove(c, at, server, client)
  PROVE  InOrder'
<1> USE DEF InOrder, MayMove
<1>1. /\ Targets' = Targets /\ \A t \in Tools : Withheld(t)' = Withheld(t)
      /\ UNCHANGED <<options, inPod, loader, tools, kubeconfig, edits, stage, clients, endpoint, wrote>>
  BY SameTargets DEF Quiet, process
<1>2. TypeOK'
  <2>1. \A d \in Calls : calls'[d].client \in 0..Len(endpoint)
    BY DEF Moves, TypeOK
  <2> QED  BY <1>1, <2>1 DEF TypeOK, Moves
<1>3. LockIsHeld'
  BY <1>1 DEF LockIsHeld, Moves
<1>4. ClientIsKept' /\ ClientsAreExposed'
  BY <1>1 DEF ClientIsKept, ClientsAreExposed, Moves
<1>5. GateIsKept'
  BY <1>1 DEF GateIsKept, Moves, TypeOK
<1>6. WritesAreAskedFor'
  <2> SUFFICES ASSUME NEW s \in wrote
               PROVE  \E d \in Calls :
                        calls'[d].tool \in tools /\ calls'[d].client # 0 /\ endpoint[calls'[d].client] = s
    BY <1>1 DEF WritesAreAskedFor
  <2>1. PICK d \in Calls : calls[d].tool \in tools /\ calls[d].client # 0 /\ endpoint[calls[d].client] = s
    BY DEF WritesAreAskedFor
  <2> QED  BY <2>1 DEF Moves
<1>7. StartIsClean'
  BY <1>1 DEF StartIsClean, Quiet, Running, Present
<1> QED  BY <1>2, <1>3, <1>4, <1>5, <1>6, <1>7

LEMMA ArriveInOrder ==
  ASSUME InOrder, NEW c \in Calls, NEW t \in Tools, NEW n \in Names \cup {None}, Arrive(c, t, n)
  PROVE  InOrder'
<1> USE DEF InOrder
<1> DEFINE at == IF t \in tools /\ ~Withheld(t) THEN "waiting" ELSE "failed"
           name == IF n = None THEN loader.fallback ELSE n
<1>1. calls[c] = Idle /\ stage = "serving"
      /\ UNCHANGED <<process, kubeconfig, edits, stage, mu, clients, endpoint, wrote>>
  BY DEF Arrive
<1>2. /\ Targets' = Targets /\ \A u \in Tools : Withheld(u)' = Withheld(u)
      /\ UNCHANGED <<options, inPod, loader, tools>>
  BY <1>1, SameTargets DEF process
<1>3. name \in Names
  BY <1>1 DEF StartIsClean
<1>4. /\ calls' \in [Calls -> CallStates]
      /\ \A d \in Calls \ {c} : calls'[d] = calls[d]
      /\ calls'[c].at = at /\ calls'[c].tool = t /\ calls'[c].name = name /\ calls'[c].client = 0
  <2>1. calls' = [calls EXCEPT ![c] = [Idle EXCEPT !.at = at, !.tool = t, !.name = name]]
    BY DEF Arrive
  <2>2. Idle \in CallStates /\ Idle.client = 0
    BY DEF Idle, CallStates, Places
  <2>3. at \in Places
    BY DEF Places
  <2>4. [Idle EXCEPT !.at = at, !.tool = t, !.name = name] \in CallStates
    BY <1>3, <2>2, <2>3 DEF CallStates
  <2> QED  BY <2>1, <2>2, <2>4 DEF TypeOK, CallStates
<1>5. at \in {"waiting", "failed"} /\ (at = "waiting" => t \in tools)
  OBVIOUS
<1> HIDE DEF at, name
<1>6. TypeOK'
  <2>1. \A d \in Calls : calls'[d].client \in 0..Len(endpoint)
    BY <1>4 DEF TypeOK
  <2> QED  BY <1>1, <1>2, <1>4, <2>1 DEF TypeOK
<1>7. mu # c
  BY <1>1 DEF LockIsHeld, Idle
<1>8. LockIsHeld'
  BY <1>1, <1>2, <1>4, <1>5, <1>7 DEF LockIsHeld
<1>9. ClientIsKept' /\ ClientsAreExposed'
  BY <1>1, <1>2, <1>3, <1>4, <1>5 DEF ClientIsKept, ClientsAreExposed
<1>10. GateIsKept'
  BY <1>1, <1>2, <1>4, <1>5 DEF GateIsKept, TypeOK
<1>11. WritesAreAskedFor'
  <2> SUFFICES ASSUME NEW s \in wrote
               PROVE  \E d \in Calls :
                        calls'[d].tool \in tools /\ calls'[d].client # 0 /\ endpoint[calls'[d].client] = s
    BY <1>1, <1>2 DEF WritesAreAskedFor
  <2>1. PICK d \in Calls : calls[d].tool \in tools /\ calls[d].client # 0 /\ endpoint[calls[d].client] = s
    BY DEF WritesAreAskedFor
  <2>2. d # c
    BY <1>1, <2>1 DEF Idle
  <2> QED  BY <1>4, <2>1, <2>2
<1>12. StartIsClean'
  BY <1>1, <1>2 DEF StartIsClean, Present
<1> QED  BY <1>6, <1>8, <1>9, <1>10, <1>11, <1>12

\* The steps that make no client.
LEMMA QuietStepInOrder ==
  ASSUME InOrder, NEW c \in Calls,
         \/ Lock(c) \/ FindClient(c) \/ Resolve(c) \/ ResolveFails(c)
         \/ ConnectFails(c) \/ HandlerReturns(c)
  PROVE  InOrder'
<1> USE DEF InOrder
<1>t. /\ calls[c] \in CallStates /\ calls[c].client \in 0..Len(endpoint) /\ endpoint \in Seq(Servers \cup {InClusterTarget})
      /\ calls[c].client \in Nat /\ calls[c].server \in Servers \cup {InClusterTarget, None}
      /\ calls \in [Calls -> CallStates]
  BY DEF TypeOK, CallStates
<1>e. calls[c] = [calls[c] EXCEPT !.server = calls[c].server, !.client = calls[c].client]
  BY <1>t DEF CallStates
<1>1. CASE Lock(c)
  <2>1. Quiet(c) /\ calls[c].at = "waiting" /\ mu = None /\ mu' = c
    BY <1>1 DEF Lock, Quiet, At
  <2>2. Moves(c, "locked", calls[c].server, calls[c].client)
    BY <1>1, <1>t DEF Lock, Moves, CallStates, Places
  <2>3. calls[c].client = 0
    BY <2>1, <1>t DEF ClientIsKept
  <2>9. MayMove(c, "locked", calls[c].server, calls[c].client)
    BY <1>t, <2>1, <2>3 DEF MayMove, Places
  <2> HIDE DEF InOrder
  <2> QED  BY <2>1, <2>2, <2>9, QuietInOrder
<1>2. CASE FindClient(c)
  <2> DEFINE client == clients[calls[c].name]
  <2>1. Quiet(c) /\ calls[c].at = "locked" /\ client # 0 /\ mu' = None
    BY <1>2 DEF FindClient, Quiet, At
  <2>2. calls[c].name \in Names /\ client \in 0..Len(endpoint)
    BY <2>1 DEF ClientIsKept, TypeOK
  <2> HIDE DEF client
  <2>3. Moves(c, "handling", calls[c].server, client)
    <3>1. calls' = [calls EXCEPT ![c].at = "handling", ![c].client = client]
      BY <1>2 DEF FindClient, client
    <3>2. client \in Nat
      BY <2>2 DEF TypeOK
    <3>3. calls' = [calls EXCEPT ![c] = [calls[c] EXCEPT !.at = "handling", !.client = client]]
      BY <3>1, <1>t
    <3>4. [calls[c] EXCEPT !.at = "handling", !.client = client] \in CallStates
      BY <1>t, <3>2 DEF CallStates, Places
    <3> QED  BY <1>t, <3>2, <3>3, <3>4 DEF Moves, CallStates
  <2>4. calls[c].client = 0 /\ mu = c
    BY <2>1, <1>t DEF ClientIsKept, LockIsHeld
  <2>9. MayMove(c, "handling", calls[c].server, client)
    BY <1>t, <2>1, <2>2, <2>4 DEF MayMove, Places, client
  <2> HIDE DEF InOrder
  <2> QED  BY <2>1, <2>3, <2>9, QuietInOrder
<1>3. CASE Resolve(c)
  <2> DEFINE server == Server(calls[c].name)
  <2>1. Quiet(c) /\ calls[c].at = "locked" /\ clients[calls[c].name] = 0 /\ server # None /\ mu' = mu
    BY <1>3 DEF Resolve, Quiet, At
  <2>2. calls[c].name \in Names /\ calls[c].client = 0 /\ mu = c
    BY <2>1, <1>t DEF ClientIsKept, LockIsHeld
  <2>3. server \in Servers \cup {InClusterTarget} /\ calls[c].name \in Targets
    BY <2>1, <2>2 DEF Server, Targets, TypeOK, Names, StartIsClean, Quiet, Running
  <2>4. Moves(c, "connecting", server, calls[c].client)
    BY <1>3, <1>t, <2>3 DEF Resolve, Moves, CallStates, Places
  <2> HIDE DEF server
  <2>9. MayMove(c, "connecting", server, calls[c].client)
    BY <1>t, <2>1, <2>2, <2>3 DEF MayMove, Places
  <2> HIDE DEF InOrder
  <2> QED  BY <2>1, <2>4, <2>9, QuietInOrder
<1>4. CASE ResolveFails(c) \/ ConnectFails(c)
  <2>1. Quiet(c) /\ calls[c].at \in {"locked", "connecting"} /\ mu' = None
    BY <1>4 DEF ResolveFails, ConnectFails, Quiet, At
  <2>2. Moves(c, "failed", calls[c].server, calls[c].client)
    BY <1>4, <1>t DEF ResolveFails, ConnectFails, Fail, Moves, CallStates, Places
  <2>3. calls[c].client = 0 /\ mu = c
    BY <2>1, <1>t DEF ClientIsKept, LockIsHeld
  <2>9. MayMove(c, "failed", calls[c].server, calls[c].client)
    BY <1>t, <2>1, <2>3 DEF MayMove, Places
  <2> HIDE DEF InOrder
  <2> QED  BY <2>1, <2>2, <2>9, QuietInOrder
<1>5. CASE HandlerReturns(c)
  <2>1. Quiet(c) /\ calls[c].at = "handling" /\ mu' = mu
    BY <1>5 DEF HandlerReturns, Quiet, At
  <2>2. Moves(c, "answered", calls[c].server, calls[c].client)
    BY <1>5, <1>t DEF HandlerReturns, Moves, CallStates, Places
  <2>3. calls[c].client # 0 /\ mu # c /\ clients[calls[c].name] = calls[c].client
    BY <2>1, <1>t DEF ClientIsKept, LockIsHeld
  <2>4. mu' \in Calls \cup {None}
    BY <2>1 DEF TypeOK
  <2>9. MayMove(c, "answered", calls[c].server, calls[c].client)
    BY <1>t, <2>1, <2>3, <2>4 DEF MayMove, Places
  <2> HIDE DEF InOrder
  <2> QED  BY <2>1, <2>2, <2>9, QuietInOrder
<1> QED  BY <1>1, <1>2, <1>3, <1>4, <1>5

\* A deadline passes, which changes nothing else.
LEMMA ExpireInOrder ==
  ASSUME InOrder, NEW c \in Calls, Expire(c)
  PROVE  InOrder'
<1> USE DEF InOrder
<1>1. Running /\ UNCHANGED <<process, kubeconfig, edits, stage, mu, clients, endpoint, wrote>>
  BY DEF Expire
<1>2. /\ Targets' = Targets /\ \A t \in Tools : Withheld(t)' = Withheld(t)
      /\ UNCHANGED <<options, inPod, loader, tools>>
  BY <1>1, SameTargets DEF process
<1>3. /\ calls' \in [Calls -> CallStates]
      /\ \A d \in Calls : /\ calls'[d].at = calls[d].at /\ calls'[d].tool = calls[d].tool
                          /\ calls'[d].name = calls[d].name /\ calls'[d].server = calls[d].server
                           /\ calls'[d].client = calls[d].client
  <2>1. calls \in [Calls -> CallStates]
    BY DEF TypeOK
  <2>2. calls' = [calls EXCEPT ![c] = [calls[c] EXCEPT !.expired = TRUE]]
    BY <2>1 DEF Expire
  <2>3. [calls[c] EXCEPT !.expired = TRUE] \in CallStates
    BY <2>1 DEF CallStates
  <2> QED  BY <2>1, <2>2, <2>3 DEF CallStates
<1>4. TypeOK'
  BY <1>1, <1>2, <1>3 DEF TypeOK
<1>5. LockIsHeld' /\ ClientIsKept' /\ ClientsAreExposed'
  BY <1>1, <1>2, <1>3 DEF LockIsHeld, ClientIsKept, ClientsAreExposed
<1>6. GateIsKept'
  BY <1>1, <1>2, <1>3 DEF GateIsKept, TypeOK
<1>7. WritesAreAskedFor'
  BY <1>1, <1>2, <1>3 DEF WritesAreAskedFor
<1>8. StartIsClean'
  BY <1>1, <1>2 DEF StartIsClean, Present, Running
<1> QED  BY <1>4, <1>5, <1>6, <1>7, <1>8

(***************************************************************************)
(* A call makes the client of its cluster.  It holds the lock, so the map  *)
(* has none for that name and no call works with one.                      *)
(***************************************************************************)
LEMMA ConnectInOrder ==
  ASSUME InOrder, NEW c \in Calls, Connect(c)
  PROVE  InOrder'
<1> USE DEF InOrder
<1> DEFINE client == Len(endpoint) + 1
           name == calls[c].name
<1>1. /\ Running /\ calls[c].at = "connecting" /\ mu' = None
      /\ UNCHANGED <<process, kubeconfig, edits, stage, wrote>>
  BY DEF Connect, At
<1>2. /\ Targets' = Targets /\ \A t \in Tools : Withheld(t)' = Withheld(t)
      /\ UNCHANGED <<options, inPod, loader, tools>>
  BY <1>1, SameTargets DEF process
<1>3. /\ name \in Names /\ name \in Targets /\ clients[name] = 0 /\ mu = c
      /\ calls[c].server \in Servers \cup {InClusterTarget} /\ calls[c].client = 0
  BY <1>1 DEF LockIsHeld, ClientIsKept, TypeOK, CallStates
<1>4. /\ endpoint' \in Seq(Servers \cup {InClusterTarget}) /\ Len(endpoint') = client
      /\ \A i \in 1..Len(endpoint) : endpoint'[i] = endpoint[i]
      /\ Len(endpoint) \in Nat
  BY <1>3 DEF Connect, TypeOK
<1>5. clients' = [clients EXCEPT ![name] = client] /\ clients' \in [Names -> 0..Len(endpoint')]
  BY <1>3, <1>4 DEF Connect, TypeOK
<1>6. Moves(c, "handling", calls[c].server, client)
  <2>1. calls \in [Calls -> CallStates]
    BY DEF TypeOK
  <2>2. calls' = [calls EXCEPT ![c] = [calls[c] EXCEPT !.at = "handling", !.client = client]]
    BY <1>4, <2>1 DEF Connect
  <2>3. client \in Nat
    BY <1>4
  <2> HIDE DEF client
  <2>4. [calls[c] EXCEPT !.at = "handling", !.client = client] \in CallStates
    BY <2>1, <2>3 DEF CallStates, Places
  <2> QED  BY <2>1, <2>2, <2>3, <2>4 DEF Moves, CallStates
<1>7. client # 0 /\ client \in Nat
  BY <1>4
<1> HIDE DEF client, name
<1>8. TypeOK'
  <2>1. \A d \in Calls : calls'[d].client \in 0..Len(endpoint')
    BY <1>4, <1>6, <1>7 DEF TypeOK, Moves, client
  <2> QED  BY <1>1, <1>2, <1>4, <1>5, <1>6, <2>1 DEF TypeOK, Moves
<1>9. LockIsHeld'
  <2>1. \A d \in Calls \ {c} : calls[d].at \notin {"locked", "connecting"} /\ mu' # d
    BY <1>1, <1>3 DEF LockIsHeld
  <2>2. mu' # c
    BY <1>1
  <2> QED  BY <1>6, <2>1, <2>2 DEF LockIsHeld, Moves
<1>10. ClientIsKept'
  <2>1. \A d \in Calls \ {c} : calls[d].client # 0 => calls[d].name # name
    BY <1>3 DEF ClientIsKept
  <2>2. \A d \in Calls \ {c} : calls[d].client # 0 => calls[d].name \in Names /\ clients'[calls[d].name] = calls[d].client
    BY <1>5, <2>1 DEF ClientIsKept, TypeOK
  <2>3. clients'[name] = client
    BY <1>3, <1>5 DEF TypeOK
  <2> QED  BY <1>3, <1>6, <1>7, <2>2, <2>3 DEF ClientIsKept, Moves, name
<1>11. ClientsAreExposed'
  BY <1>2, <1>3, <1>5 DEF ClientsAreExposed, TypeOK
<1>12. GateIsKept'
  BY <1>1, <1>2, <1>6 DEF GateIsKept, TypeOK, Moves
<1>13. WritesAreAskedFor'
  <2> SUFFICES ASSUME NEW s \in wrote
               PROVE  \E d \in Calls :
                        calls'[d].tool \in tools /\ calls'[d].client # 0 /\ endpoint'[calls'[d].client] = s
    BY <1>1, <1>2 DEF WritesAreAskedFor
  <2>1. PICK d \in Calls : calls[d].tool \in tools /\ calls[d].client # 0 /\ endpoint[calls[d].client] = s
    BY DEF WritesAreAskedFor
  <2>2. d # c /\ calls[d].client \in 1..Len(endpoint)
    BY <1>3, <1>4, <2>1 DEF TypeOK
  <2> QED  BY <1>4, <1>6, <2>1, <2>2 DEF Moves
<1>14. StartIsClean'
  BY <1>1, <1>2 DEF StartIsClean, Present, Running
<1> QED  BY <1>8, <1>9, <1>10, <1>11, <1>12, <1>13, <1>14

\* A handler writes: its tool is registered, so the server is not read-only.
LEMMA WriteInOrder ==
  ASSUME InOrder, NEW c \in Calls, Write(c)
  PROVE  InOrder'
<1> USE DEF InOrder
<1>1. /\ Running /\ calls[c].at = "handling" /\ calls[c].tool \in Writing
      /\ wrote' = wrote \cup {endpoint[calls[c].client]}
      /\ UNCHANGED <<process, kubeconfig, edits, stage, mu, clients, endpoint, calls>>
  BY DEF Write, At
<1>2. /\ Targets' = Targets /\ \A t \in Tools : Withheld(t)' = Withheld(t)
      /\ UNCHANGED <<options, inPod, loader, tools>>
  BY <1>1, SameTargets DEF process
<1>3. /\ calls[c].tool \in tools /\ calls[c].client # 0 /\ calls[c].client \in 1..Len(endpoint)
      /\ endpoint[calls[c].client] \in Servers \cup {InClusterTarget}
  <2>1. calls[c].tool \in tools /\ calls[c].client # 0
    BY <1>1 DEF GateIsKept, ClientIsKept
  <2>2. calls[c].client \in 1..Len(endpoint)
    BY <2>1 DEF TypeOK
  <2> QED  BY <2>1, <2>2 DEF TypeOK
<1>4. ~options.readOnly
  BY <1>1, <1>3 DEF GateIsKept, Withheld, Mutates, AllowWrite
<1>5. TypeOK'
  BY <1>1, <1>2, <1>3 DEF TypeOK
<1>6. LockIsHeld' /\ ClientIsKept' /\ ClientsAreExposed'
  BY <1>1, <1>2 DEF LockIsHeld, ClientIsKept, ClientsAreExposed
<1>7. GateIsKept'
  BY <1>1, <1>2 DEF GateIsKept, TypeOK
<1>8. WritesAreAskedFor'
  BY <1>1, <1>2, <1>3, <1>4 DEF WritesAreAskedFor
<1>9. StartIsClean'
  BY <1>1, <1>2 DEF StartIsClean, Present, Running
<1> QED  BY <1>5, <1>6, <1>7, <1>8, <1>9

------------------------------------------------------------------------------
LEMMA NextInOrder == InOrder /\ [Next]_vars => InOrder'
<1> SUFFICES ASSUME InOrder, [Next]_vars PROVE InOrder'
  OBVIOUS
<1>1. CASE Start
  BY <1>1, StartInOrder
<1>2. CASE Refuse \/ Signal \/ Exit
  BY <1>2, StageInOrder
<1>3. CASE Edit
  BY <1>3, EditInOrder
<1>4. ASSUME NEW c \in Calls, NEW t \in Tools, NEW n \in Names \cup {None}, Arrive(c, t, n)
      PROVE  InOrder'
  BY <1>4, ArriveInOrder
<1>5. ASSUME NEW c \in Calls, Expire(c) PROVE InOrder'
  BY <1>5, ExpireInOrder
<1>6. ASSUME NEW c \in Calls, Step(c) \/ HandlerReturns(c) PROVE InOrder'
  BY <1>6, QuietStepInOrder, ConnectInOrder DEF Step
<1>7. ASSUME NEW c \in Calls, Write(c) PROVE InOrder'
  BY <1>7, WriteInOrder
<1>8. CASE UNCHANGED vars
  BY <1>8 DEF vars, process, InOrder, TypeOK, LockIsHeld, ClientIsKept, ClientsAreExposed, GateIsKept,
              StartIsClean, WritesAreAskedFor, Targets, Allowed, Withheld, Mutates, AllowWrite, Present
<1> QED  BY <1>1, <1>2, <1>3, <1>4, <1>5, <1>6, <1>7, <1>8 DEF Next

THEOREM InOrderInvariant == Spec => []InOrder
BY InitInOrder, NextInOrder, PTL DEF Spec

\* Every variable of the server stays within its type, whatever is started,
\* called or edited.
THEOREM TypeCorrect == Spec => []TypeOK
<1>1. InOrder => TypeOK
  BY DEF InOrder
<1> QED  BY <1>1, InOrderInvariant, PTL

(***************************************************************************)
(* The map of the Provider.  Only Connect adds to it, and what it adds is  *)
(* made for one cluster only.                                              *)
(***************************************************************************)
LEMMA ConnectAdds ==
  ASSUME InOrder, NEW c \in Calls, Connect(c)
  PROVE  /\ Running /\ calls[c].client = 0
         /\ calls[c].name \in Names /\ calls[c].name \in Targets /\ clients[calls[c].name] = 0
         /\ Len(endpoint) \in Nat
         /\ clients' = [clients EXCEPT ![calls[c].name] = Len(endpoint) + 1]
         /\ \A d \in Calls : /\ calls'[d].name = calls[d].name
                             /\ calls'[d].client = IF d = c THEN Len(endpoint) + 1 ELSE calls[d].client
<1> USE DEF InOrder
<1>1. Running /\ calls[c].at = "connecting"
  BY DEF Connect, At
<1>2. /\ calls[c].name \in Names /\ calls[c].name \in Targets /\ clients[calls[c].name] = 0
      /\ calls[c].server \in Servers \cup {InClusterTarget} /\ calls[c].client = 0
  BY <1>1 DEF LockIsHeld, ClientIsKept, TypeOK, CallStates
<1>3. Len(endpoint) \in Nat /\ Len(endpoint') = Len(endpoint) + 1
  BY <1>2 DEF Connect, TypeOK
<1>4. calls' = [calls EXCEPT ![c] = [calls[c] EXCEPT !.at = "handling", !.client = Len(endpoint) + 1]]
      /\ calls \in [Calls -> CallStates]
  BY <1>3 DEF Connect, TypeOK
<1>5. \A d \in Calls : /\ calls'[d].name = calls[d].name
                       /\ calls'[d].client = IF d = c THEN Len(endpoint) + 1 ELSE calls[d].client
  BY <1>4 DEF CallStates
<1> QED  BY <1>1, <1>2, <1>3, <1>5 DEF Connect

LEMMA OnlyConnectAdds ==
  ASSUME [Next]_vars
  PROVE  clients' = clients \/ \E c \in Calls : Connect(c)
BY DEF Next, Start, Refuse, Signal, Exit, Edit, Arrive, Expire, Step, Lock, FindClient, Resolve,
       ResolveFails, ConnectFails, Write, HandlerReturns, vars

LEMMA InitApart == Init => ClientsAreApart
BY DEF Init, ClientsAreApart

LEMMA NextApart == InOrder /\ ClientsAreApart /\ [Next]_vars => ClientsAreApart'
<1> SUFFICES ASSUME InOrder, ClientsAreApart, [Next]_vars PROVE ClientsAreApart'
  OBVIOUS
<1>1. CASE clients' = clients
  BY <1>1 DEF ClientsAreApart
<1>2. ASSUME NEW c \in Calls, Connect(c) PROVE ClientsAreApart'
  <2> DEFINE name == calls[c].name
  <2>1. name \in Names /\ clients' = [clients EXCEPT ![name] = Len(endpoint) + 1] /\ Len(endpoint) \in Nat
    BY <1>2, ConnectAdds
  <2>2. clients \in [Names -> 0..Len(endpoint)]
    BY DEF InOrder, TypeOK
  <2> HIDE DEF name
  <2>3. clients'[name] = Len(endpoint) + 1 /\ \A n \in Names \ {name} : clients'[n] = clients[n] /\ clients[n] # Len(endpoint) + 1
    BY <2>1, <2>2
  <2> QED  BY <2>3 DEF ClientsAreApart
<1> QED  BY <1>1, <1>2, OnlyConnectAdds

LEMMA ApartInvariant == Spec => [](InOrder /\ ClientsAreApart)
BY InitInOrder, NextInOrder, InitApart, NextApart, PTL DEF Spec

\* All calls for one cluster share one client, and calls for different
\* clusters never do, for any number of calls racing for any number of
\* clusters (Provider.Client, provider.go:60-87).
THEOREM OneClient == Spec => []OneClientPerCluster
<1>1. InOrder /\ ClientsAreApart => OneClientPerCluster
  <2> SUFFICES ASSUME InOrder, ClientsAreApart,
                      NEW c \in Calls, NEW d \in Calls, calls[c].client # 0, calls[d].client # 0
               PROVE  calls[c].name = calls[d].name <=> calls[c].client = calls[d].client
    BY DEF OneClientPerCluster
  <2>1. \A e \in {c, d} : calls[e].name \in Names /\ clients[calls[e].name] = calls[e].client
    BY DEF InOrder, ClientIsKept
  <2> QED  BY <2>1 DEF ClientsAreApart
<1> QED  BY <1>1, ApartInvariant, PTL

\* No call waits for a handler, or for one that has left: only for the one
\* that looks for its client, for any number of calls.
THEOREM NobodyKeepsTheLock == Spec => []WaitsAreShort
<1>1. InOrder => WaitsAreShort
  BY DEF InOrder, LockIsHeld, TypeOK, WaitsAreShort
<1> QED  BY <1>1, InOrderInvariant, PTL

LEMMA CallGoesDown ==
  ASSUME InOrder, NEW c \in Calls,
         \/ \E t \in Tools, n \in Names \cup {None} : Arrive(c, t, n)
         \/ Expire(c) \/ Step(c) \/ HandlerReturns(c)
  PROVE  /\ \A d \in Calls \ {c} : calls'[d] = calls[d]
         /\ StepsOf(calls'[c]) < StepsOf(calls[c])
<1>t. calls \in [Calls -> CallStates] /\ calls[c] \in CallStates
  BY DEF InOrder, TypeOK
<1>1. ASSUME NEW t \in Tools, NEW n \in Names \cup {None}, Arrive(c, t, n)
      PROVE  /\ calls[c].at = "idle" /\ ~calls[c].expired
             /\ calls'[c].at \in {"waiting", "failed"} /\ ~calls'[c].expired
             /\ \A d \in Calls \ {c} : calls'[d] = calls[d]
  <2> DEFINE at == IF t \in tools /\ ~Withheld(t) THEN "waiting" ELSE "failed"
             name == IF n = None THEN loader.fallback ELSE n
  <2>1. calls' = [calls EXCEPT ![c] = [Idle EXCEPT !.at = at, !.tool = t, !.name = name]] /\ calls[c] = Idle
    BY <1>1 DEF Arrive
  <2>2. at \in {"waiting", "failed"}
    OBVIOUS
  <2> HIDE DEF at, name
  <2> QED  BY <1>t, <2>1, <2>2 DEF Idle
<1>2. CASE Expire(c)
  <2>1. /\ calls'[c].at = calls[c].at /\ ~calls[c].expired /\ calls'[c].expired
        /\ \A d \in Calls \ {c} : calls'[d] = calls[d]
    BY <1>2, <1>t DEF Expire, CallStates
  <2> QED  BY <2>1 DEF StepsOf
<1>3. CASE Step(c) \/ HandlerReturns(c)
  <2>1. /\ calls'[c].expired = calls[c].expired
        /\ \A d \in Calls \ {c} : calls'[d] = calls[d]
        /\ \/ calls[c].at = "waiting" /\ calls'[c].at = "locked"
           \/ calls[c].at = "locked" /\ calls'[c].at \in {"handling", "connecting", "failed"}
           \/ calls[c].at = "connecting" /\ calls'[c].at \in {"handling", "failed"}
           \/ calls[c].at = "handling" /\ calls'[c].at = "answered"
    BY <1>3, <1>t DEF Step, Lock, FindClient, Resolve, ResolveFails, Connect, ConnectFails, Fail, HandlerReturns,
       At, CallStates
  <2> QED  BY <2>1 DEF StepsOf
<1>4. ASSUME NEW t \in Tools, NEW n \in Names \cup {None}, Arrive(c, t, n)
      PROVE  StepsOf(calls'[c]) < StepsOf(calls[c])
  BY <1>1, <1>4 DEF StepsOf
<1> QED  BY <1>1, <1>2, <1>3, <1>4

\* A call makes each step at most once, so that what fairness has to add to
\* EveryCallAnswered is that those it can make are made.
THEOREM CallsMoveOn == Spec => CallsGoDown
<1>1. InOrder /\ [Next]_vars
      => [\A c \in Calls : calls'[c] # calls[c] => StepsOf(calls'[c]) < StepsOf(calls[c])]_vars
  <2> SUFFICES ASSUME InOrder, Next
               PROVE  \A c \in Calls : calls'[c] # calls[c] => StepsOf(calls'[c]) < StepsOf(calls[c])
    OBVIOUS
  <2>1. CASE Start \/ Refuse \/ Signal \/ Exit \/ Edit \/ \E c \in Calls : Write(c)
    <3>1. calls' = calls
      BY <2>1 DEF Start, Refuse, Signal, Exit, Edit, Write
    <3> QED  BY <3>1
  <2>2. ASSUME NEW c \in Calls,
               \/ \E t \in Tools, n \in Names \cup {None} : Arrive(c, t, n)
               \/ Expire(c) \/ Step(c) \/ HandlerReturns(c)
        PROVE  \A d \in Calls : calls'[d] # calls[d] => StepsOf(calls'[d]) < StepsOf(calls[d])
    BY <2>2, CallGoesDown
  <2> QED  BY <2>1, <2>2 DEF Next
<1> QED  BY <1>1, InOrderInvariant, PTL DEF Spec, CallsGoDown

(***************************************************************************)
(* The refinement: starting up opens the directory, a call that finds a    *)
(* client or makes one is given it, and everything else the directory does *)
(* not see.                                                                *)
(***************************************************************************)
LEMMA InitImplementsDirectory == Init => Directory!Init
BY DEF Init, Idle, Exposed, Given, Directory!Init, Directory!NotYet

LEMMA UnseenByTheDirectory ==
  ASSUME UNCHANGED process, clients' = clients,
         stage \in {"starting", "refused"} <=> stage' \in {"starting", "refused"},
         \A c \in Calls : /\ calls'[c].client = calls[c].client
                          /\ calls[c].client # 0 => calls'[c].name = calls[c].name
  PROVE  UNCHANGED Directory!vars
<1>1. Exposed' = Exposed
  BY SameTargets DEF Exposed
<1>2. Given' = Given
  <2> DEFINE G(c) == [name |-> IF calls[c].client = 0 THEN None ELSE calls[c].name, client |-> calls[c].client]
  <2>1. ASSUME NEW c \in Calls PROVE G(c)' = G(c)
    <3>1. calls'[c].client = calls[c].client /\ (calls[c].client # 0 => calls'[c].name = calls[c].name)
      OBVIOUS
    <3>2. CASE calls[c].client = 0
      BY <3>1, <3>2
    <3>3. CASE calls[c].client # 0
      BY <3>1, <3>3
    <3> QED  BY <3>2, <3>3
  <2>2. Given = [c \in Calls |-> G(c)] /\ Given' = [c \in Calls |-> G(c)']
    BY DEF Given
  <2> HIDE DEF G
  <2> QED  BY <2>1, <2>2
<1> QED  BY <1>1, <1>2 DEF Directory!vars

LEMMA StartOpens == InOrder /\ InOrder' /\ Start => Directory!Open
<1> SUFFICES ASSUME InOrder, InOrder', Start PROVE Directory!Open
  OBVIOUS
<1>1. Exposed = {} /\ calls' = calls /\ clients' = clients /\ stage' = "serving"
  BY DEF Start, Exposed
<1>2. Given = [c \in Calls |-> Directory!NotYet] /\ Given' = Given
  <2>1. \A c \in Calls : calls[c] = Idle
    BY DEF InOrder, StartIsClean, Start
  <2> QED  BY <1>1, <2>1 DEF Given, Idle, Directory!NotYet
<1>3. Exposed' \in SUBSET Names
  BY <1>1 DEF InOrder, StartIsClean, Exposed, Targets, Names
<1> QED  BY <1>1, <1>2, <1>3 DEF Directory!Open

LEMMA GivesClient ==
  ASSUME InOrder, ClientsAreApart', UNCHANGED process, UNCHANGED stage, Running,
         NEW c \in Calls, calls[c].client = 0,
         NEW n \in Names, n = calls[c].name, n \in Targets,
         clients' \in [Names -> Nat], clients'[n] # 0,
         \A m \in Names \ {n} : clients'[m] = clients[m],
         clients[n] # 0 => clients'[n] = clients[n],
         \A d \in Calls : /\ calls'[d].name = calls[d].name
                          /\ calls'[d].client = IF d = c THEN clients'[n] ELSE calls[d].client
  PROVE  Directory!Give(c, n)
<1>1. Exposed' = Exposed /\ n \in Exposed
  BY SameTargets DEF Exposed, Running
<1>2. Given[c] = Directory!NotYet
  BY DEF Given, Directory!NotYet
<1>3. Given' = [Given EXCEPT ![c] = [name |-> n, client |-> clients'[n]]]
  BY DEF Given
<1>4. \A m \in Names \ {n} : clients'[m] # clients'[n]
  BY DEF ClientsAreApart
<1> QED  BY <1>1, <1>2, <1>3, <1>4 DEF Directory!Give

LEMMA CallImplementsDirectory ==
  ASSUME InOrder, ClientsAreApart', NEW c \in Calls,
         \/ \E t \in Tools, n \in Names \cup {None} : Arrive(c, t, n)
         \/ Expire(c) \/ Step(c) \/ Write(c) \/ HandlerReturns(c)
  PROVE  UNCHANGED Directory!vars \/ Directory!Give(c, calls[c].name)
<1>t. calls \in [Calls -> CallStates] /\ calls[c] \in CallStates /\ clients \in [Names -> Nat] 
  BY DEF InOrder, TypeOK
<1>1. ASSUME NEW t \in Tools, NEW n \in Names \cup {None}, Arrive(c, t, n)
      PROVE  UNCHANGED Directory!vars
  <2>1. \A d \in Calls : /\ calls'[d].client = calls[d].client
                         /\ calls[d].client # 0 => calls'[d].name = calls[d].name
    <3> DEFINE at == IF t \in tools /\ ~Withheld(t) THEN "waiting" ELSE "failed"
               name == IF n = None THEN loader.fallback ELSE n
    <3>1. calls' = [calls EXCEPT ![c] = [Idle EXCEPT !.at = at, !.tool = t, !.name = name]] /\ calls[c] = Idle
      BY <1>1 DEF Arrive
    <3> HIDE DEF at, name
    <3>2. calls[c].client = 0 /\ calls'[c].client = 0 /\ \A d \in Calls \ {c} : calls'[d] = calls[d]
      BY <1>t, <3>1 DEF Idle
    <3> QED  BY <3>2
  <2> QED  BY <1>1, <2>1, UnseenByTheDirectory DEF Arrive
<1>2. CASE Expire(c) \/ Lock(c) \/ Resolve(c) \/ ResolveFails(c) \/ ConnectFails(c) \/ Write(c) \/ HandlerReturns(c)
  <2>1. UNCHANGED process /\ clients' = clients /\ stage' = stage
    BY <1>2 DEF Expire, Lock, Resolve, ResolveFails, ConnectFails, Write, HandlerReturns
  <2>2. \A d \in Calls : calls'[d].client = calls[d].client /\ calls'[d].name = calls[d].name
    BY <1>2, <1>t DEF Expire, Lock, Resolve, ResolveFails, ConnectFails, Fail, Write, HandlerReturns, CallStates
  <2> QED  BY <2>1, <2>2, UnseenByTheDirectory
<1>3. CASE FindClient(c)
  <2>1. At(c, "locked") /\ clients[calls[c].name] # 0 /\ UNCHANGED <<process, stage, clients>>
    BY <1>3 DEF FindClient
  <2>2. calls[c].name \in Names /\ calls[c].name \in Targets /\ calls[c].client = 0
    BY <2>1 DEF InOrder, ClientIsKept, ClientsAreExposed, At
  <2>3. \A d \in Calls : /\ calls'[d].name = calls[d].name
                         /\ calls'[d].client = IF d = c THEN clients[calls[c].name] ELSE calls[d].client
    BY <1>3, <1>t DEF FindClient, CallStates
  <2> QED  BY <1>t, <2>1, <2>2, <2>3, GivesClient DEF At
<1>4. CASE Connect(c)
  <2> DEFINE name == calls[c].name
  <2>1. /\ Running /\ calls[c].client = 0 /\ name \in Names /\ name \in Targets /\ clients[name] = 0
        /\ Len(endpoint) + 1 \in Nat /\ Len(endpoint) + 1 # 0
        /\ clients' = [clients EXCEPT ![name] = Len(endpoint) + 1]
        /\ \A d \in Calls : /\ calls'[d].name = calls[d].name
                            /\ calls'[d].client = IF d = c THEN Len(endpoint) + 1 ELSE calls[d].client
    BY <1>4, ConnectAdds
  <2>2. UNCHANGED process /\ UNCHANGED stage
    BY <1>4 DEF Connect
  <2>3. /\ clients' \in [Names -> Nat] /\ clients'[name] = Len(endpoint) + 1
        /\ \A m \in Names \ {name} : clients'[m] = clients[m]
    BY <1>t, <2>1
  <2> QED  BY <2>1, <2>2, <2>3, GivesClient
<1> QED  BY <1>1, <1>2, <1>3, <1>4 DEF Step

LEMMA NextImplementsDirectory ==
  InOrder /\ InOrder' /\ ClientsAreApart' /\ [Next]_vars => [Directory!Next]_(Directory!vars)
<1> SUFFICES ASSUME InOrder, InOrder', ClientsAreApart', [Next]_vars
             PROVE  Directory!Next \/ UNCHANGED Directory!vars
  OBVIOUS
<1>1. CASE Start
  BY <1>1, StartOpens DEF Directory!Next
<1>2. CASE Refuse \/ Signal \/ Exit \/ Edit \/ UNCHANGED vars
  <2>1. /\ UNCHANGED process /\ clients' = clients /\ calls' = calls
        /\ stage \in {"starting", "refused"} <=> stage' \in {"starting", "refused"}
    BY <1>2 DEF Refuse, Signal, Exit, Edit, vars, process
  <2> QED  BY <2>1, UnseenByTheDirectory
<1>3. ASSUME NEW c \in Calls,
             \/ \E t \in Tools, n \in Names \cup {None} : Arrive(c, t, n)
             \/ Expire(c) \/ Step(c) \/ Write(c) \/ HandlerReturns(c)
      PROVE  Directory!Next \/ UNCHANGED Directory!vars
  <2>1. UNCHANGED Directory!vars \/ Directory!Give(c, calls[c].name)
    BY <1>3, CallImplementsDirectory
  <2>2. Directory!Give(c, calls[c].name) => calls[c].name \in Names
    BY DEF InOrder, StartIsClean, Directory!Give, Exposed, Targets, Names
  <2> QED  BY <2>1, <2>2 DEF Directory!Next
<1> QED  BY <1>1, <1>2, <1>3 DEF Next

\* What the Provider does, its lock, failures, deadlines and edits of the
\* kubeconfig included, is what a directory does that hands out clients one
\* at a time: a call gets the client of its cluster, which is exposed, and a
\* cluster keeps the client it got first (Provider.Client, provider.go:60-87).
THEOREM ServerImplementsDirectory == Spec => ImplementsDirectory
<1>1. Spec => [](InOrder /\ ClientsAreApart) /\ [][Next]_vars /\ Directory!Init
  BY ApartInvariant, InitImplementsDirectory, PTL DEF Spec
<1> QED  BY <1>1, NextImplementsDirectory, PTL DEF ImplementsDirectory, Directory!Spec

\* No call reaches a cluster that is not exposed, and with an untouched
\* kubeconfig the exposed ones are those that can be reached
\* (Loader.Targets and Loader.Resolve, config.go:140-226).
THEOREM OnlyExposed == Spec => []OnlyExposedIsReached
<1>1. InOrder => OnlyExposedIsReached
  <2> SUFFICES ASSUME InOrder PROVE OnlyExposedIsReached
    OBVIOUS
  <2>1. ASSUME NEW c \in Calls, calls[c].client # 0
        PROVE  /\ calls[c].name \in Targets
               /\ loader.inCluster \/ options.clusters = {} \/ calls[c].name \in options.clusters
    <3>1. calls[c].at # "idle" /\ clients[calls[c].name] = calls[c].client
      BY <2>1 DEF InOrder, ClientIsKept
    <3>2. calls[c].name \in Names
      BY <3>1 DEF InOrder, ClientIsKept
    <3>3. calls[c].name \in Targets
      BY <2>1, <3>1, <3>2 DEF InOrder, ClientsAreExposed
    <3> QED  BY <3>3 DEF Targets, Allowed
  <2>2. ASSUME stage = "serving", edits = 0
        PROVE  Targets = {n \in Names : Server(n) # None}
    <3>1. /\ loader.contexts = Present(kubeconfig) /\ loader.contexts \subseteq Contexts
          /\ loader.inCluster => loader.contexts = {} /\ inPod
      BY <2>2 DEF InOrder, StartIsClean
    <3>2. CASE loader.inCluster
      BY <3>1, <3>2 DEF Targets, Server, Names
    <3>3. CASE ~loader.inCluster
      BY <3>1, <3>3 DEF Targets, Server, Names, Present
    <3> QED  BY <3>2, <3>3
  <2> QED  BY <2>1, <2>2 DEF OnlyExposedIsReached
<1> QED  BY <1>1, InOrderInvariant, PTL

\* A read-only server never writes, and no server writes to a cluster that no
\* call of a registered tool was sent to (the two gates, server.go:89-92 and
\* server.go:179-182).
THEOREM WritesAsked == Spec => []WritesAreAskedFor
<1>1. InOrder => WritesAreAskedFor
  BY DEF InOrder
<1> QED  BY <1>1, InOrderInvariant, PTL
==============================================================================
