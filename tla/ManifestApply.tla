---------------------------- MODULE ManifestApply ----------------------------
(***************************************************************************)
(* The write path: calls of crossplane_resource_apply, each of which       *)
(* parses a manifest (pkg/toolsets/provisioning/manifest.go) and applies   *)
(* its documents one after the other (pkg/crossplane/write.go), against an *)
(* API server that other clients write to as well.                         *)
(*                                                                         *)
(* The API server and the network between are external.  A request may be  *)
(* lost, its answer may be lost, and a request the call gave up on may     *)
(* still be carried out later.  Server side apply is modelled on objects   *)
(* with one field: who owns it decides whether a new value is a conflict.  *)
(*                                                                         *)
(* An object is addressed by its kind and namespace: a name would only add *)
(* more addresses.  Documents that are only comments, which parse skips,   *)
(* are left out of a manifest; one without apiVersion, kind or name is     *)
(* Incomplete.                                                             *)
(***************************************************************************)
EXTENDS Naturals, Sequences

CONSTANTS
  Calls,           (* calls of the tool                                       *)
  Kinds,           (* kinds a document may name                               *)
  WritableKinds,   (* those for which APIResource.Writable holds              *)
  NamespacedKinds, (* the others are cluster scoped                           *)
  Namespaces,      (* namespaces a document or a call may name                *)
  DefaultNs,       (* Client.defaultNamespace                                 *)
  Values,          (* values of the one field of an object                    *)
  Incomplete,      (* a document without apiVersion, kind or metadata.name    *)
  Manifests,       (* the manifests callers send: sequences of documents      *)
  InitialStores,   (* what the API server may hold before the calls           *)
  MaxAttempts,     (* how often a caller makes its call, at most              *)
  MaxForeign       (* writes of other clients, at most                        *)

NoNs == ""              \* no namespace given
Us == "crossplane-mcp-server"  \* FieldManager
Other == "other"        \* any other field manager

Document == [kind : Kinds, ns : Namespaces \cup {NoNs}, value : Values]

Address == Kinds \X (Namespaces \cup {NoNs})
Absent == [owners |-> {}, value |-> "absent"]
Objects == {Absent} \cup [owners : {{Us}, {Other}, {Us, Other}}, value : Values]

ASSUME KindsAssumption ==
  /\ WritableKinds \subseteq Kinds
  /\ NamespacedKinds \subseteq Kinds
  /\ DefaultNs \in Namespaces
  /\ NoNs \notin Namespaces
  /\ Incomplete \notin Document
ASSUME ManifestsAssumption == Manifests \subseteq Seq(Document \cup {Incomplete})
ASSUME StoresAssumption == InitialStores \subseteq [Address -> Objects]
ASSUME BoundsAssumption == MaxAttempts \in Nat \ {0} /\ MaxForeign \in Nat

VARIABLES
  pc,        (* where each call is                                            *)
  input,     (* its arguments: manifest, namespace, force, dryRun             *)
  attempt,   (* how many times it was made                                    *)
  docs,      (* what parse returned                                           *)
  at,        (* the document being applied                                    *)
  created,   (* the local of Apply: the object was not there before           *)
  rows,      (* what each document applied so far is reported as              *)
  reply,     (* the API server's answer to the request the call waits for     *)
  answer,    (* what the caller of the tool got                               *)
  network,   (* apply requests on their way to the API server                 *)
  store,     (* the API server's objects                                      *)
  landed,    (* history: what the server persisted for each attempt           *)
  foreign    (* writes other clients have made                                *)

vars == <<pc, input, attempt, docs, at, created, rows, reply, answer, network, store, landed, foreign>>
request == <<input, attempt, docs, at>>

NoAnswer == [status |-> "none", rows |-> <<>>, reason |-> "none"]

------------------------------------------------------------------------------
(***************************************************************************)
(* The pure parts.                                                         *)
(***************************************************************************)

\* parse: all documents are looked at before the first one is applied.
Parses(manifest) ==
  /\ \A i \in DOMAIN manifest : manifest[i] # Incomplete
  /\ manifest # <<>>

\* The documents parse returns, with the call's namespace where they name none.
Documents(manifest, ns) ==
  [i \in DOMAIN manifest |->
     IF manifest[i].ns = NoNs THEN [manifest[i] EXCEPT !.ns = ns] ELSE manifest[i]]

\* writeInterface: which object a document addresses.
AddressOf(d) ==
  <<d.kind, IF d.kind \notin NamespacedKinds THEN NoNs ELSE IF d.ns = NoNs THEN DefaultNs ELSE d.ns>>

\* ApplyResult.Action
Action(dryRun, wasCreated) ==
  IF dryRun THEN "validated" ELSE IF wasCreated THEN "created" ELSE "updated"

Current(c) == docs[c][at[c]]

\* Server side apply of one value by our field manager.
Conflict(object, value, force) ==
  /\ Other \in object.owners
  /\ object.value # value
  /\ ~force

Merged(object, value) ==
  [owners |-> {Us} \cup (IF object.value = value THEN object.owners ELSE {}), value |-> value]

------------------------------------------------------------------------------
Init ==
  /\ pc = [c \in Calls |-> "idle"]
  /\ input \in [Calls -> [manifest : Manifests, ns : Namespaces \cup {NoNs}, force : BOOLEAN, dryRun : BOOLEAN]]
  /\ attempt = [c \in Calls |-> 0]
  /\ docs = [c \in Calls |-> <<>>]
  /\ at = [c \in Calls |-> 1]
  /\ created = [c \in Calls |-> FALSE]
  /\ rows = [c \in Calls |-> <<>>]
  /\ reply = [c \in Calls |-> "none"]
  /\ answer = [c \in Calls |-> NoAnswer]
  /\ network = {}
  /\ store \in InitialStores
  /\ landed = [c \in Calls |-> [t \in 1..MaxAttempts |-> <<>>]]
  /\ foreign = 0

\* api.Error(err), with progress(rows) once documents were being applied.
Fail(c, reason) ==
  /\ pc' = [pc EXCEPT ![c] = "answered"]
  /\ answer' = [answer EXCEPT ![c] = [status |-> "error", rows |-> rows[c], reason |-> reason]]

\* Mutated form: documents are applied as they are decoded, up to the first
\* one that is incomplete.
StartStreaming(c) ==
  LET manifest == input[c].manifest
      good == {n \in DOMAIN manifest : \A i \in 1..n : manifest[i] # Incomplete}
  IN
  /\ pc[c] = "idle"
  /\ good # {}
  /\ attempt' = [attempt EXCEPT ![c] = @ + 1]
  /\ pc' = [pc EXCEPT ![c] = "resolving"]
  /\ docs' = [docs EXCEPT ![c] = Documents([i \in good |-> manifest[i]], input[c].ns)]
  /\ UNCHANGED <<input, at, created, rows, reply, answer, network, store, landed, foreign>>

\* Mutated form: a retry goes on behind the document that failed.
StartBehindFailure(c) ==
  /\ \/ pc[c] = "idle"
     \/ pc[c] = "answered" /\ answer[c].status = "error"
  /\ attempt[c] < MaxAttempts
  /\ Parses(input[c].manifest)
  /\ attempt' = [attempt EXCEPT ![c] = @ + 1]
  /\ docs' = [docs EXCEPT ![c] = Documents(input[c].manifest, input[c].ns)]
  /\ at' = [at EXCEPT ![c] = IF attempt[c] # 0 /\ @ < Len(docs[c]) THEN @ + 1 ELSE @]
  /\ pc' = [pc EXCEPT ![c] = "resolving"]
  /\ answer' = [answer EXCEPT ![c] = NoAnswer]
  /\ UNCHANGED <<input, created, rows, reply, network, store, landed, foreign>>

\* The tool is called, or called again by a caller that got an error.
Start(c) ==
  /\ \/ pc[c] = "idle"
     \/ pc[c] = "answered" /\ answer[c].status = "error"
  /\ attempt[c] < MaxAttempts
  /\ attempt' = [attempt EXCEPT ![c] = @ + 1]
  /\ at' = [at EXCEPT ![c] = 1]
  /\ rows' = [rows EXCEPT ![c] = <<>>]
  /\ reply' = [reply EXCEPT ![c] = "none"]
  /\ created' = [created EXCEPT ![c] = FALSE]
  /\ IF Parses(input[c].manifest)
       THEN /\ pc' = [pc EXCEPT ![c] = "resolving"]
            /\ docs' = [docs EXCEPT ![c] = Documents(input[c].manifest, input[c].ns)]
            /\ answer' = [answer EXCEPT ![c] = NoAnswer]
       ELSE /\ pc' = [pc EXCEPT ![c] = "answered"]
            /\ answer' = [answer EXCEPT ![c] = [status |-> "error", rows |-> <<>>, reason |-> "malformed"]]
            /\ UNCHANGED docs
  /\ UNCHANGED <<input, network, store, landed, foreign>>

\* Mutated form: Writable is not asked.
ResolveAnyKind(c) ==
  /\ pc[c] = "resolving"
  /\ \/ /\ pc' = [pc EXCEPT ![c] = "checking"]
        /\ UNCHANGED answer
     \/ Fail(c, "unknown kind")
  /\ UNCHANGED <<request, created, rows, reply, network, store, landed, foreign>>

\* ResolveAPIVersionKind finds the kind in the discovery snapshot, which may
\* not have a kind this very manifest introduces; Writable is asked next.
Resolve(c) ==
  /\ pc[c] = "resolving"
  /\ \/ /\ Current(c).kind \in WritableKinds
        /\ pc' = [pc EXCEPT ![c] = "checking"]
        /\ UNCHANGED answer
     \/ /\ Current(c).kind \notin WritableKinds
        /\ Fail(c, "not writable")
     \/ Fail(c, "unknown kind")
  /\ UNCHANGED <<request, created, rows, reply, network, store, landed, foreign>>

\* Mutated form: any error counts as absent.
CheckExistsOptimistically(c) ==
  /\ pc[c] = "checking"
  /\ pc' = [pc EXCEPT ![c] = "sending"]
  /\ \E found \in {store[AddressOf(Current(c))] # Absent, FALSE} :
       created' = [created EXCEPT ![c] = ~found]
  /\ UNCHANGED <<request, rows, reply, answer, network, store, landed, foreign>>

\* exists: only a NotFound counts as absent, an error counts as present.
CheckExists(c) ==
  /\ pc[c] = "checking"
  /\ pc' = [pc EXCEPT ![c] = "sending"]
  /\ \E found \in {store[AddressOf(Current(c))] # Absent, TRUE} :
       created' = [created EXCEPT ![c] = ~found]
  /\ UNCHANGED <<request, rows, reply, answer, network, store, landed, foreign>>

\* ri.Apply puts the request on the wire.
Send(c) ==
  /\ pc[c] = "sending"
  /\ pc' = [pc EXCEPT ![c] = "waiting"]
  /\ reply' = [reply EXCEPT ![c] = "none"]
  /\ network' = network \cup
       {[call |-> c, attempt |-> attempt[c], at |-> at[c], doc |-> Current(c),
         force |-> input[c].force, dryRun |-> input[c].dryRun]}
  /\ UNCHANGED <<request, created, rows, answer, store, landed, foreign>>

\* The call is over before the request was sent, or before it was answered:
\* its deadline passed or the connection broke.
GiveUp(c) ==
  /\ pc[c] \in {"sending", "waiting"}
  /\ Fail(c, "no answer")
  /\ UNCHANGED <<request, created, rows, reply, network, store, landed, foreign>>

\* The answer is there: the next document, or the result of the tool.
Receive(c) ==
  /\ pc[c] = "waiting"
  /\ reply[c] = "ok"
  /\ LET reported == Append(rows[c], Action(input[c].dryRun, created[c]))
     IN  /\ rows' = [rows EXCEPT ![c] = reported]
         /\ IF at[c] < Len(docs[c])
              THEN /\ at' = [at EXCEPT ![c] = @ + 1]
                   /\ pc' = [pc EXCEPT ![c] = "resolving"]
                   /\ UNCHANGED answer
              ELSE /\ pc' = [pc EXCEPT ![c] = "answered"]
                   /\ answer' = [answer EXCEPT ![c] =
                                   [status |-> "ok", rows |-> reported, reason |-> "none"]]
                   /\ UNCHANGED at
  /\ UNCHANGED <<input, attempt, docs, created, reply, network, store, landed, foreign>>

\* Mutated form: a document that was refused is skipped.
ReceiveErrorAndGoOn(c) ==
  /\ pc[c] = "waiting"
  /\ reply[c] \in {"conflict", "rejected"}
  /\ IF at[c] < Len(docs[c])
       THEN /\ at' = [at EXCEPT ![c] = @ + 1]
            /\ pc' = [pc EXCEPT ![c] = "resolving"]
            /\ UNCHANGED answer
       ELSE Fail(c, reply[c]) /\ UNCHANGED at
  /\ UNCHANGED <<input, attempt, docs, created, rows, reply, network, store, landed, foreign>>

ReceiveError(c) ==
  /\ pc[c] = "waiting"
  /\ reply[c] \in {"conflict", "rejected"}
  /\ Fail(c, reply[c])
  /\ UNCHANGED <<request, created, rows, reply, network, store, landed, foreign>>

------------------------------------------------------------------------------
(***************************************************************************)
(* The API server, the network and the other clients.                      *)
(***************************************************************************)
IsWaitingFor(c, r) ==
  /\ pc[c] = "waiting"
  /\ attempt[c] = r.attempt
  /\ at[c] = r.at

Answer(r, word) ==
  reply' = IF IsWaitingFor(r.call, r) THEN [reply EXCEPT ![r.call] = word] ELSE reply

\* The server carries a request out.  A dry run stops before persisting.
ServerApplies(r) ==
  LET a == AddressOf(r.doc) IN
  /\ r \in network
  /\ network' = network \ {r}
  /\ IF Conflict(store[a], r.doc.value, r.force)
       THEN /\ Answer(r, "conflict")
            /\ UNCHANGED <<store, landed>>
       ELSE /\ Answer(r, "ok")
            /\ store' = IF r.dryRun THEN store ELSE [store EXCEPT ![a] = Merged(@, r.doc.value)]
            /\ landed' = IF r.dryRun THEN landed
                         ELSE [landed EXCEPT ![r.call][r.attempt] =
                                 Append(@, [at |-> r.at, existed |-> store[a] # Absent])]
  /\ UNCHANGED <<pc, request, created, rows, answer, foreign>>

\* Validation, admission or RBAC refuses it.
ServerRejects(r) ==
  /\ r \in network
  /\ network' = network \ {r}
  /\ Answer(r, "rejected")
  /\ UNCHANGED <<pc, request, created, rows, answer, store, landed, foreign>>

RequestLost(r) ==
  /\ r \in network
  /\ network' = network \ {r}
  /\ UNCHANGED <<pc, request, created, rows, reply, answer, store, landed, foreign>>

\* A controller or a user creates, changes or deletes an object.
ForeignWrite ==
  /\ foreign < MaxForeign
  /\ foreign' = foreign + 1
  /\ \E a \in {b \in Address : b[2] = NoNs <=> b[1] \notin NamespacedKinds} :
     \E object \in {Absent} \cup [owners : {{Other}}, value : Values] :
       store' = [store EXCEPT ![a] = object]
  /\ UNCHANGED <<pc, request, created, rows, reply, answer, network, landed>>

Handler(c) ==
  \/ Resolve(c)
  \/ CheckExists(c)
  \/ Send(c)
  \/ GiveUp(c)
  \/ Receive(c)
  \/ ReceiveError(c)

Next ==
  \/ \E c \in Calls : Start(c) \/ Handler(c)
  \/ \E r \in network : ServerApplies(r) \/ ServerRejects(r) \/ RequestLost(r)
  \/ ForeignWrite

Spec == Init /\ [][Next]_vars

------------------------------------------------------------------------------
Words == {"none", "ok", "conflict", "rejected"}
Actions == {"validated", "created", "updated"}
Landing == [at : Nat, existed : BOOLEAN]
Requests == [call : Calls, attempt : 1..MaxAttempts, at : Nat \ {0}, doc : Document,
             force : BOOLEAN, dryRun : BOOLEAN]
Answers == [status : {"none", "ok", "error"}, rows : Seq(Actions),
            reason : {"none", "malformed", "not writable", "unknown kind", "no answer"} \cup Words]

\* Every variable stays within its type.
TypeOK ==
  /\ pc \in [Calls -> {"idle", "resolving", "checking", "sending", "waiting", "answered"}]
  /\ input \in [Calls -> [manifest : Manifests, ns : Namespaces \cup {NoNs},
                          force : BOOLEAN, dryRun : BOOLEAN]]
  /\ attempt \in [Calls -> 0..MaxAttempts]
  /\ docs \in [Calls -> Seq(Document)]
  /\ at \in [Calls -> Nat \ {0}]
  /\ created \in [Calls -> BOOLEAN]
  /\ rows \in [Calls -> Seq(Actions)]
  /\ reply \in [Calls -> Words]
  /\ answer \in [Calls -> Answers]
  /\ network \in SUBSET Requests
  /\ store \in [Address -> Objects]
  /\ landed \in [Calls -> [1..MaxAttempts -> Seq(Landing)]]
  /\ foreign \in 0..MaxForeign

\* What the server persisted for the attempt a call is at, in order.
LandedNow(c) == landed[c][attempt[c]]
Made(c) == attempt[c] # 0

\* The documents of a call go in one after the other, each at most once per
\* attempt, and what the tool reports as applied is all that went in, or all
\* but the one document whose answer it did not get: an error leaves at most
\* one document in doubt, a success none (manifest.go:60-76).
AtMostOneInDoubt ==
  \A c \in Calls : Made(c) /\ ~input[c].dryRun =>
    /\ \A i \in DOMAIN LandedNow(c) : LandedNow(c)[i].at = i
    /\ Len(LandedNow(c)) \in {Len(rows[c]), Len(rows[c]) + 1}
    /\ Len(LandedNow(c)) > Len(rows[c]) => pc[c] = "waiting" \/ answer[c].status = "error"
    /\ answer[c].status = "ok" => Len(LandedNow(c)) = Len(docs[c])

(***************************************************************************)
(* Why that holds, in parts; with TypeOK they are the inductive invariant  *)
(* of ManifestApply_proofs.                                                *)
(***************************************************************************)

\* The call, its rows and its answer agree on how far it got.
CallInStep(c) ==
  /\ Made(c) <=> pc[c] # "idle"
  /\ answer[c].status # "none" <=> pc[c] = "answered"
  /\ pc[c] \in {"resolving", "checking", "sending", "waiting"} => at[c] <= Len(docs[c])
  /\ Len(rows[c]) = IF answer[c].status = "ok" THEN at[c] ELSE at[c] - 1
  /\ answer[c].status = "ok" => at[c] = Len(docs[c])

\* A request of the attempt a call is at is the only one of it, is for the
\* document the call is at, and nobody has answered it.
RequestInStep(r) ==
  LET c == r.call IN
  /\ r.attempt <= attempt[c]
  /\ r.attempt = attempt[c] =>
       /\ r.at = at[c]
       /\ r.dryRun = input[c].dryRun
       /\ pc[c] = "waiting" \/ answer[c].status = "error"
       /\ pc[c] = "waiting" => reply[c] = "none"
       /\ ~input[c].dryRun => Len(LandedNow(c)) = at[c] - 1
       /\ \A q \in network : q.call = c /\ q.attempt = r.attempt => q = r

\* What landed for a call is the documents before the one it is at, and that
\* one exactly when the server has answered "ok" or no answer will come.
LandedInStep(c) ==
  /\ \A t \in 1..MaxAttempts : t > attempt[c] => landed[c][t] = <<>>
  /\ Made(c) /\ ~input[c].dryRun =>
       /\ \A i \in DOMAIN LandedNow(c) : LandedNow(c)[i].at = i
       /\ Len(LandedNow(c)) \in {at[c] - 1, at[c]}
       /\ pc[c] \in {"resolving", "checking", "sending"} => Len(LandedNow(c)) = at[c] - 1
       /\ pc[c] = "waiting" /\ reply[c] = "ok" => Len(LandedNow(c)) = at[c]
       /\ answer[c].status = "ok" => Len(LandedNow(c)) = at[c]

\* Calls, requests on the wire and what the server persisted stay in step
\* through lost, late and repeated requests (manifest.go:60-76, write.go:112-127).
InStep ==
  /\ TypeOK
  /\ \A c \in Calls : CallInStep(c) /\ LandedInStep(c)
  /\ \A r \in network : RequestInStep(r)

\* A manifest with an incomplete document is refused whole: no request of it
\* is ever sent, not even for the documents before that one (manifest.go:112-114).
IncompleteTouchesNothing ==
  \A c \in Calls : (\E i \in DOMAIN input[c].manifest : input[c].manifest[i] = Incomplete) =>
    /\ \A r \in network : r.call # c
    /\ Made(c) => LandedNow(c) = <<>>

\* Whatever callers send and however requests are delayed, this server only
\* changes objects of the kinds it may write, only for a call that is not a
\* dry run, and takes a field over from another manager only if that call
\* asked for it (write.go:26-27, 61-75).
WritesAreConfined ==
  [][\A a \in Address : store'[a] # store[a] /\ foreign' = foreign =>
       /\ a[1] \in WritableKinds
       /\ \E c \in Calls :
            /\ \E i \in DOMAIN docs[c] : AddressOf(docs[c][i]) = a
            /\ ~input[c].dryRun
            /\ Conflict(store[a], store'[a].value, FALSE) => input[c].force]_vars

\* Nobody but call c writes the objects of c, and it writes each of them once.
Undisturbed(c) ==
  /\ foreign = 0
  /\ \A i, j \in DOMAIN docs[c] : AddressOf(docs[c][i]) = AddressOf(docs[c][j]) => i = j
  /\ \A d \in Calls \ {c} : d # c => docs[d] = <<>>

\* A call that succeeded once stays in effect although earlier attempts of it
\* may still be on the wire: retrying after a lost answer is safe as long as
\* nobody else writes the same objects (write.go:77-81).
RetrySettles ==
  \A c \in Calls : answer[c].status = "ok" /\ ~input[c].dryRun /\ Undisturbed(c) =>
    \A i \in DOMAIN docs[c] :
      /\ store[AddressOf(docs[c][i])].value = docs[c][i].value
      /\ Us \in store[AddressOf(docs[c][i])].owners

\* "Claiming a resource was created when it was not is the more misleading
\* answer" (write.go:192-194): an object a success reports as created was not
\* there before this call, in this attempt or an earlier one of it, created
\* it; unless another client wrote between the existence check and the apply.
CreatedIsTrue ==
  \A c \in Calls : answer[c].status = "ok" /\ Undisturbed(c) =>
    \A i \in DOMAIN rows[c] : rows[c][i] = "created" =>
      \E t \in 1..attempt[c] : \E n \in DOMAIN landed[c][t] :
        landed[c][t][n] = [at |-> i, existed |-> FALSE]

\* parse is said to reject "anything that could not be applied before the
\* first write goes out" (manifest.go:93-94): a manifest refused for what it
\* contains, whatever the server knows and says, has written nothing.
RefusedBeforeFirstWrite ==
  \A c \in Calls : answer[c].reason \in {"malformed", "not writable"} =>
    LandedNow(c) = <<>>
==============================================================================
