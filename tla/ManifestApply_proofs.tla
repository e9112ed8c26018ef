------------------------- MODULE ManifestApply_proofs -------------------------
(***************************************************************************)
(* Proofs about ManifestApply, for every set of calls, kinds, namespaces   *)
(* and manifests and any number of attempts and foreign writes: the        *)
(* inductive invariant InStep, that an error leaves at most one document   *)
(* in doubt, that an incomplete manifest touches nothing, that writes are  *)
(* confined, that a retry settles what earlier attempts left open, and     *)
(* that what a success says it created, it created.                        *)
(***************************************************************************)
EXTENDS ManifestApply, TLAPS

USE KindsAssumption, ManifestsAssumption, StoresAssumption, BoundsAssumption

\* A manifest that parses is a sequence of documents, at least one of them.
LEMMA ParsedDocuments ==
  ASSUME NEW manifest \in Manifests, NEW ns \in Namespaces \cup {NoNs}, Parses(manifest)
  PROVE  Documents(manifest, ns) \in Seq(Document) /\ Len(Documents(manifest, ns)) >= 1
<1>1. manifest \in Seq(Document \cup {Incomplete}) /\ manifest # <<>>
  BY DEF Parses
<1>2. \A i \in DOMAIN manifest : manifest[i] \in Document
  BY <1>1 DEF Parses
<1>3. \A i \in DOMAIN manifest : [manifest[i] EXCEPT !.ns = ns] \in Document
  BY <1>2 DEF Document
<1>4. Documents(manifest, ns) \in [1..Len(manifest) -> Document] /\ Len(manifest) \in Nat \ {0}
  BY <1>1, <1>2, <1>3 DEF Documents
<1> QED
  BY <1>4

\* What server side apply leaves is an object, and every document addresses one.
LEMMA AddressType ==
  ASSUME NEW d \in Document
  PROVE  AddressOf(d) \in Address
BY DEF AddressOf, Address, Document

LEMMA MergedType ==
  ASSUME NEW object \in Objects, NEW value \in Values
  PROVE  Merged(object, value) \in Objects
BY DEF Merged, Objects, Absent, Us, Other

LEMMA ActionType ==
  ASSUME NEW dryRun \in BOOLEAN, NEW wasCreated \in BOOLEAN
  PROVE  Action(dryRun, wasCreated) \in Actions
BY DEF Action, Actions

------------------------------------------------------------------------------
LEMMA EmptyRows == <<>> \in Seq(Actions) /\ <<>> \in Seq(Landing) /\ <<>> \in Seq(Document) /\ Len(<<>>) = 0
OBVIOUS

LEMMA NoAnswerType == NoAnswer \in Answers /\ NoAnswer.status = "none" /\ NoAnswer.rows = <<>>
BY EmptyRows DEF NoAnswer, Answers

LEMMA InitInStep == Init => InStep
<1> SUFFICES ASSUME Init PROVE InStep
  OBVIOUS
<1>1. TypeOK
  BY EmptyRows, NoAnswerType DEF Init, TypeOK, Words
<1>2. ASSUME NEW c \in Calls PROVE CallInStep(c)
  <2>1. pc[c] = "idle" /\ attempt[c] = 0 /\ at[c] = 1 /\ rows[c] = <<>> /\ answer[c].status = "none"
    BY NoAnswerType DEF Init
  <2> QED
    BY <2>1, EmptyRows DEF CallInStep, Made
<1>3. ASSUME NEW c \in Calls PROVE LandedInStep(c)
  <2>1. attempt[c] = 0 /\ \A t \in 1..MaxAttempts : landed[c][t] = <<>>
    BY DEF Init
  <2> QED
    BY <2>1 DEF LandedInStep, Made
<1>4. \A r \in network : RequestInStep(r)
  BY DEF Init
<1> QED
  BY <1>1, <1>2, <1>3, <1>4 DEF InStep

(***************************************************************************)
(* What a step leaves alone.                                               *)
(***************************************************************************)
SameCall(d) ==
  /\ pc'[d] = pc[d] /\ input'[d] = input[d] /\ attempt'[d] = attempt[d]
  /\ docs'[d] = docs[d] /\ at'[d] = at[d] /\ rows'[d] = rows[d]
  /\ reply'[d] = reply[d] /\ answer'[d] = answer[d] /\ landed'[d] = landed[d]

LEMMA SameCallInStep ==
  ASSUME NEW d \in Calls, CallInStep(d), LandedInStep(d), SameCall(d)
  PROVE  CallInStep(d)' /\ LandedInStep(d)'
<1>1. LandedNow(d)' = LandedNow(d) /\ (Made(d)' <=> Made(d))
  BY DEF SameCall, LandedNow, Made
<1>2. CallInStep(d)'
  BY <1>1 DEF SameCall, CallInStep
<1>3. LandedInStep(d)'
  BY <1>1 DEF SameCall, LandedInStep
<1> QED
  BY <1>2, <1>3

LEMMA SameRequestInStep ==
  ASSUME NEW r \in network, RequestInStep(r), SameCall(r.call),
         \A q \in network' : q.call = r.call => q \in network
  PROVE  RequestInStep(r)'
<1>1. LandedNow(r.call)' = LandedNow(r.call)
  BY DEF SameCall, LandedNow
<1> QED
  BY <1>1 DEF SameCall, RequestInStep

\* A request of an earlier attempt asks nothing of the call it came from.
LEMMA OldRequestInStep ==
  ASSUME NEW r, attempt[r.call] \in Nat, attempt'[r.call] \in Nat, r.attempt \in Nat,
         r.attempt < attempt'[r.call]
  PROVE  RequestInStep(r)'
BY DEF RequestInStep

LEMMA StartStep ==
  ASSUME InStep, NEW c \in Calls, Start(c)
  PROVE  InStep'
<1>0. TypeOK /\ CallInStep(c) /\ LandedInStep(c) /\ \A r \in network : RequestInStep(r)
  BY DEF InStep
<1>1. /\ attempt'[c] = attempt[c] + 1 /\ attempt[c] \in Nat /\ attempt'[c] \in 1..MaxAttempts
      /\ at'[c] = 1 /\ rows'[c] = <<>> /\ input' = input /\ landed' = landed /\ network' = network
      /\ reply'[c] = "none"
  BY <1>0 DEF Start, TypeOK
<1>2. \/ /\ pc'[c] = "resolving"
         /\ docs'[c] \in Seq(Document) /\ Len(docs'[c]) >= 1
         /\ answer'[c] = NoAnswer
      \/ /\ pc'[c] = "answered"
         /\ docs'[c] = docs[c]
         /\ answer'[c] \in Answers /\ answer'[c].status = "error"
  <2>1. input[c].manifest \in Manifests /\ input[c].ns \in Namespaces \cup {NoNs}
    BY <1>0 DEF TypeOK
  <2>2. CASE Parses(input[c].manifest)
    BY <1>0, <2>1, <2>2, ParsedDocuments DEF Start, TypeOK
  <2>3. CASE ~Parses(input[c].manifest)
    <3>1. [status |-> "error", rows |-> <<>>, reason |-> "malformed"] \in Answers
      BY EmptyRows DEF Answers
    <3> QED
      BY <1>0, <2>3, <3>1 DEF Start, TypeOK
  <2> QED
    BY <2>2, <2>3
<1>3. \A d \in Calls \ {c} : SameCall(d)
  BY <1>0 DEF Start, SameCall, TypeOK
<1>4. TypeOK'
  <2>1. docs' \in [Calls -> Seq(Document)] /\ answer' \in [Calls -> Answers]
        /\ pc' \in [Calls -> {"idle", "resolving", "checking", "sending", "waiting", "answered"}]
    <3>1. docs' \in [Calls -> Seq(Document)]
      BY <1>0, <1>2 DEF Start, TypeOK
    <3>2. CASE Parses(input[c].manifest)
      <4>1. pc' = [pc EXCEPT ![c] = "resolving"] /\ answer' = [answer EXCEPT ![c] = NoAnswer]
        BY <3>2 DEF Start
      <4> QED
        BY <1>0, <3>1, <4>1, NoAnswerType DEF TypeOK
    <3>3. CASE ~Parses(input[c].manifest)
      <4> DEFINE malformed == [status |-> "error", rows |-> <<>>, reason |-> "malformed"]
      <4>1. malformed \in Answers
        BY EmptyRows DEF Answers
      <4>2. pc' = [pc EXCEPT ![c] = "answered"] /\ answer' = [answer EXCEPT ![c] = malformed]
        BY <3>3 DEF Start
      <4> HIDE DEF malformed
      <4> QED
        BY <1>0, <3>1, <4>1, <4>2 DEF TypeOK
    <3> QED
      BY <3>2, <3>3
  <2> QED
    BY <1>0, <1>1, <2>1, EmptyRows DEF Start, TypeOK, Words
<1>5. landed[c][attempt'[c]] = <<>>
  BY <1>0, <1>1 DEF LandedInStep
<1>6. CallInStep(c)'
  BY <1>1, <1>2, EmptyRows, NoAnswerType DEF CallInStep, Made
<1>7. LandedInStep(c)'
  <2>1. \A t \in 1..MaxAttempts : t > attempt'[c] => landed'[c][t] = <<>>
    BY <1>0, <1>1 DEF LandedInStep
  <2>2. LandedNow(c)' = <<>>
    BY <1>1, <1>5 DEF LandedNow
  <2> QED
    BY <1>1, <1>2, <2>1, <2>2, EmptyRows, NoAnswerType DEF LandedInStep
<1>8. ASSUME NEW r \in network' PROVE RequestInStep(r)'
  <2>1. r \in network /\ RequestInStep(r) /\ r \in Requests
    BY <1>0, <1>1, <1>8 DEF TypeOK
  <2>2. CASE r.call = c
    <3>1. r.attempt < attempt'[c]
      BY <1>1, <2>1, <2>2 DEF RequestInStep, Requests
    <3> QED
      BY <1>1, <2>1, <2>2, <3>1, OldRequestInStep DEF Requests
  <2>3. CASE r.call # c
    BY <1>1, <1>3, <2>1, <2>3, SameRequestInStep DEF Requests
  <2> QED
    BY <2>2, <2>3
<1> QED
  BY <1>3, <1>4, <1>6, <1>7, <1>8, SameCallInStep DEF InStep

\* A step that only says what call c reports or holds leaves requests in step
\* as long as none of them is of the attempt c is at.
Unsent == {"resolving", "checking", "sending"}

LEMMA NothingOnTheWire ==
  ASSUME InStep, NEW c \in Calls, pc[c] \in Unsent, NEW r \in network, r.call = c
  PROVE  r.attempt < attempt[c]
<1>1. RequestInStep(r) /\ CallInStep(c)
  BY DEF InStep
<1>2. answer[c].status # "error" /\ pc[c] # "waiting"
  BY <1>1 DEF CallInStep, Unsent
<1>3. r.attempt \in Nat /\ attempt[c] \in Nat
  BY DEF InStep, TypeOK, Requests
<1> QED
  BY <1>1, <1>2, <1>3 DEF RequestInStep

LEMMA FailStep ==
  ASSUME InStep, NEW c \in Calls, pc[c] \in Unsent \cup {"waiting"},
         NEW reason, Fail(c, reason),
         reason \in {"not writable", "unknown kind", "no answer", "conflict", "rejected"},
         UNCHANGED <<request, created, rows, reply, network, store, landed, foreign>>
  PROVE  InStep'
<1>0. TypeOK /\ CallInStep(c) /\ LandedInStep(c) /\ \A r \in network : RequestInStep(r)
  BY DEF InStep
<1> DEFINE error == [status |-> "error", rows |-> rows[c], reason |-> reason]
<1>1. error \in Answers /\ error.status = "error"
  BY <1>0 DEF TypeOK, Answers, Words
<1>2. pc' = [pc EXCEPT ![c] = "answered"] /\ answer' = [answer EXCEPT ![c] = error]
  BY DEF Fail
<1> HIDE DEF error
<1>3. TypeOK'
  BY <1>0, <1>1, <1>2 DEF TypeOK, request
<1>4. \A d \in Calls \ {c} : SameCall(d)
  BY <1>0, <1>2 DEF SameCall, TypeOK, request
<1>5. pc'[c] = "answered" /\ answer'[c].status = "error" /\ answer[c].status = "none"
  BY <1>0, <1>1, <1>2 DEF TypeOK, CallInStep, Unsent
<1>6. LandedNow(c)' = LandedNow(c) /\ (Made(c)' <=> Made(c))
  BY DEF LandedNow, Made, request
<1>7. CallInStep(c)'
  BY <1>0, <1>5, <1>6 DEF CallInStep, request, Unsent
<1>8. LandedInStep(c)'
  BY <1>0, <1>5, <1>6 DEF LandedInStep, request
<1>9. ASSUME NEW r \in network' PROVE RequestInStep(r)'
  <2>1. r \in network /\ RequestInStep(r) /\ r \in Requests
    BY <1>0, <1>9 DEF TypeOK
  <2>2. CASE r.call = c
    BY <1>5, <1>6, <2>1, <2>2 DEF RequestInStep, request
  <2>3. CASE r.call # c
    BY <1>4, <2>1, <2>3, SameRequestInStep DEF Requests
  <2> QED
    BY <2>2, <2>3
<1> QED
  BY <1>3, <1>4, <1>7, <1>8, <1>9, SameCallInStep DEF InStep

\* Resolving and looking the object up send nothing.
LEMMA LookStep ==
  ASSUME InStep, NEW c \in Calls, Resolve(c) \/ CheckExists(c)
  PROVE  InStep'
<1>0. TypeOK /\ CallInStep(c) /\ LandedInStep(c) /\ \A r \in network : RequestInStep(r)
  BY DEF InStep
<1>1. CASE Resolve(c) /\ pc' = [pc EXCEPT ![c] = "answered"]
  <2>1. \/ Fail(c, "not writable")
        \/ Fail(c, "unknown kind")
    BY <1>0, <1>1 DEF Resolve, TypeOK
  <2> QED
    BY <1>1, <2>1, FailStep DEF Resolve, Unsent
<1>2. CASE ~(Resolve(c) /\ pc' = [pc EXCEPT ![c] = "answered"])
  <2>1. /\ pc[c] \in Unsent
        /\ \E place \in Unsent : pc' = [pc EXCEPT ![c] = place]
        /\ created' \in [Calls -> BOOLEAN]
        /\ UNCHANGED <<request, rows, reply, answer, network, store, landed, foreign>>
    <3>1. CASE Resolve(c)
      BY <1>0, <1>2, <3>1 DEF Resolve, Fail, Unsent, TypeOK
    <3>2. CASE CheckExists(c)
      BY <1>0, <3>2 DEF CheckExists, Unsent, TypeOK
    <3> QED
      BY <3>1, <3>2
  <2>2. TypeOK'
    BY <1>0, <2>1 DEF TypeOK, request, Unsent
  <2>3. \A d \in Calls \ {c} : SameCall(d)
    BY <1>0, <2>1 DEF SameCall, TypeOK, request
  <2>4. pc'[c] \in Unsent
    BY <1>0, <2>1 DEF TypeOK
  <2>5. LandedNow(c)' = LandedNow(c) /\ (Made(c)' <=> Made(c))
    BY <2>1 DEF LandedNow, Made, request
  <2>6. CallInStep(c)'
    BY <1>0, <2>1, <2>4, <2>5 DEF CallInStep, request, Unsent
  <2>7. LandedInStep(c)'
    BY <1>0, <2>1, <2>4, <2>5 DEF LandedInStep, request, Unsent
  <2>8. ASSUME NEW r \in network' PROVE RequestInStep(r)'
    <3>1. r \in network /\ RequestInStep(r) /\ r \in Requests
      BY <1>0, <2>1, <2>8 DEF TypeOK
    <3>2. CASE r.call = c
      <4>1. r.attempt < attempt[c] /\ attempt'[c] = attempt[c] /\ attempt[c] \in Nat /\ r.attempt \in Nat
        <5>1. r.attempt < attempt[c]
          BY <2>1, <3>1, <3>2, NothingOnTheWire
        <5> QED
          BY <1>0, <2>1, <3>1, <5>1 DEF request, TypeOK, Requests
      <4> QED
        BY <3>2, <4>1, OldRequestInStep
    <3>3. CASE r.call # c
      BY <2>1, <2>3, <3>1, <3>3, SameRequestInStep DEF Requests
    <3> QED
      BY <3>2, <3>3
  <2> QED
    BY <2>2, <2>3, <2>6, <2>7, <2>8, SameCallInStep DEF InStep
<1> QED
  BY <1>1, <1>2

LEMMA SendStep ==
  ASSUME InStep, NEW c \in Calls, Send(c)
  PROVE  InStep'
<1>0. TypeOK /\ CallInStep(c) /\ LandedInStep(c) /\ \A r \in network : RequestInStep(r)
  BY DEF InStep
<1> DEFINE new == [call |-> c, attempt |-> attempt[c], at |-> at[c], doc |-> Current(c),
                   force |-> input[c].force, dryRun |-> input[c].dryRun]
<1>1. /\ pc[c] \in Unsent
      /\ pc' = [pc EXCEPT ![c] = "waiting"] /\ reply' = [reply EXCEPT ![c] = "none"]
      /\ network' = network \cup {new}
      /\ UNCHANGED <<request, created, rows, answer, store, landed, foreign>>
  BY DEF Send, Unsent
<1>2. pc'[c] = "waiting" /\ reply'[c] = "none" /\ attempt[c] \in 1..MaxAttempts /\ at[c] \in 1..Len(docs[c])
  BY <1>0, <1>1 DEF TypeOK, CallInStep, Made, Unsent
<1>3. new \in Requests
  <2>1. Current(c) \in Document
    BY <1>0, <1>2 DEF TypeOK, Current
  <2> QED
    BY <1>0, <1>2, <2>1 DEF TypeOK, Requests
<1>4. new.call = c /\ new.attempt = attempt[c] /\ new.at = at[c] /\ new.dryRun = input[c].dryRun
  OBVIOUS
<1> HIDE DEF new
<1>5. TypeOK'
  BY <1>0, <1>1, <1>3 DEF TypeOK, request, Words
<1>6. \A d \in Calls \ {c} : SameCall(d)
  BY <1>0, <1>1 DEF SameCall, TypeOK, request
<1>7. LandedNow(c)' = LandedNow(c) /\ (Made(c)' <=> Made(c))
  BY <1>1 DEF LandedNow, Made, request
<1>8. CallInStep(c)'
  BY <1>0, <1>1, <1>2, <1>7 DEF CallInStep, request, Unsent
<1>9. LandedInStep(c)'
  BY <1>0, <1>1, <1>2, <1>7 DEF LandedInStep, request, Unsent
<1>10. \A q \in network : q.call = c => q.attempt < attempt[c]
  BY <1>1, NothingOnTheWire
<1>11. ASSUME NEW r \in network' PROVE RequestInStep(r)'
  <2>1. CASE r = new
    <3>1. ~input[c].dryRun => Len(LandedNow(c)) = at[c] - 1
      BY <1>0, <1>1, <1>2 DEF LandedInStep, Made, Unsent
    <3>2. \A q \in network' : q.call = c /\ q.attempt = attempt[c] => q = new
      BY <1>0, <1>1, <1>10 DEF TypeOK, Requests
    <3> QED
      BY <1>1, <1>2, <1>4, <1>7, <2>1, <3>1, <3>2 DEF RequestInStep, request
  <2>2. CASE r \in network /\ r.call = c
    <3>1. r.attempt < attempt[c] /\ attempt'[c] = attempt[c] /\ attempt[c] \in Nat /\ r.attempt \in Nat
      <4>1. r.attempt < attempt[c]
        BY <1>10, <2>2
      <4> QED
        BY <1>0, <1>1, <2>2, <4>1 DEF request, TypeOK, Requests
    <3> QED
      BY <2>2, <3>1, OldRequestInStep
  <2>3. CASE r \in network /\ r.call # c
    <3>1. RequestInStep(r) /\ r \in Requests /\ SameCall(r.call)
      BY <1>0, <1>6, <2>3 DEF TypeOK, Requests
    <3>2. \A q \in network' : q.call = r.call => q \in network
      BY <1>1, <1>4, <2>3
    <3> QED
      BY <2>3, <3>1, <3>2, SameRequestInStep
  <2> QED
    BY <1>1, <2>1, <2>2, <2>3
<1> QED
  BY <1>5, <1>6, <1>8, <1>9, <1>11, SameCallInStep DEF InStep

LEMMA ReceiveStep ==
  ASSUME InStep, NEW c \in Calls, Receive(c)
  PROVE  InStep'
<1>0. TypeOK /\ CallInStep(c) /\ LandedInStep(c) /\ \A r \in network : RequestInStep(r)
  BY DEF InStep
<1> DEFINE reported == Append(rows[c], Action(input[c].dryRun, created[c]))
           success == [status |-> "ok", rows |-> reported, reason |-> "none"]
<1>1. reported \in Seq(Actions) /\ Len(reported) = Len(rows[c]) + 1
  <2>1. Action(input[c].dryRun, created[c]) \in Actions /\ rows[c] \in Seq(Actions)
    BY <1>0, ActionType DEF TypeOK
  <2> QED
    BY <2>1
<1>2. success \in Answers /\ success.status = "ok"
  BY <1>1 DEF Answers
<1> HIDE DEF reported
<1>3. /\ pc[c] = "waiting" /\ reply[c] = "ok" /\ rows' = [rows EXCEPT ![c] = reported]
      /\ UNCHANGED <<input, attempt, docs, created, reply, network, store, landed, foreign>>
  BY DEF Receive, reported
<1>4. \/ /\ at[c] < Len(docs[c]) /\ at' = [at EXCEPT ![c] = @ + 1]
         /\ pc' = [pc EXCEPT ![c] = "resolving"] /\ answer' = answer
      \/ /\ ~(at[c] < Len(docs[c])) /\ at' = at
         /\ pc' = [pc EXCEPT ![c] = "answered"] /\ answer' = [answer EXCEPT ![c] = success]
  BY DEF Receive, reported
<1> HIDE DEF success
<1>5. TypeOK'
  <2>1. at' \in [Calls -> Nat \ {0}]
    <3>1. at \in [Calls -> Nat \ {0}] /\ at[c] + 1 \in Nat \ {0}
      BY <1>0 DEF TypeOK
    <3>2. at' = at \/ at' = [at EXCEPT ![c] = at[c] + 1]
      BY <1>4
    <3> QED
      BY <3>1, <3>2
  <2>2. answer' \in [Calls -> Answers]
    BY <1>0, <1>2, <1>4 DEF TypeOK
  <2>3. pc' \in [Calls -> {"idle", "resolving", "checking", "sending", "waiting", "answered"}]
    BY <1>0, <1>4 DEF TypeOK
  <2>4. rows' \in [Calls -> Seq(Actions)]
    BY <1>0, <1>1, <1>3 DEF TypeOK
  <2> QED
    BY <1>0, <1>3, <2>1, <2>2, <2>3, <2>4 DEF TypeOK
<1>6. \A d \in Calls \ {c} : SameCall(d)
  BY <1>0, <1>3, <1>4 DEF SameCall, TypeOK
<1>7. /\ at[c] \in Nat \ {0} /\ Len(docs[c]) \in Nat /\ at[c] <= Len(docs[c])
      /\ Len(rows[c]) = at[c] - 1 /\ Made(c) /\ answer[c].status = "none"
      /\ rows'[c] = reported
  BY <1>0, <1>3 DEF TypeOK, CallInStep
<1>8. LandedNow(c)' = LandedNow(c) /\ (Made(c)' <=> Made(c))
  BY <1>3 DEF LandedNow, Made
<1>9. \/ at[c] < Len(docs[c]) /\ at'[c] = at[c] + 1 /\ pc'[c] = "resolving" /\ answer'[c].status = "none"
      \/ at[c] = Len(docs[c]) /\ at'[c] = at[c] /\ pc'[c] = "answered" /\ answer'[c].status = "ok"
  BY <1>0, <1>2, <1>4, <1>7 DEF TypeOK
<1>10. CallInStep(c)'
  BY <1>1, <1>3, <1>7, <1>8, <1>9 DEF CallInStep
<1>11. LandedInStep(c)'
  BY <1>0, <1>3, <1>7, <1>8, <1>9 DEF LandedInStep
<1>12. ASSUME NEW r \in network' PROVE RequestInStep(r)'
  <2>1. r \in network /\ RequestInStep(r) /\ r \in Requests
    BY <1>0, <1>3, <1>12 DEF TypeOK
  <2>2. CASE r.call = c
    <3>1. r.attempt # attempt[c]
      BY <1>3, <2>1, <2>2 DEF RequestInStep
    <3>2. r.attempt < attempt[c] /\ attempt'[c] = attempt[c] /\ attempt[c] \in Nat /\ r.attempt \in Nat
      BY <1>0, <1>3, <2>1, <2>2, <3>1 DEF RequestInStep, TypeOK, Requests
    <3> QED
      BY <2>2, <3>2, OldRequestInStep
  <2>3. CASE r.call # c
    BY <1>3, <1>6, <2>1, <2>3, SameRequestInStep DEF Requests
  <2> QED
    BY <2>2, <2>3
<1> QED
  BY <1>5, <1>6, <1>10, <1>11, <1>12, SameCallInStep DEF InStep

(***************************************************************************)
(* The API server and the network take one request off the wire.           *)
(***************************************************************************)
LEMMA DropStep ==
  ASSUME InStep, NEW r \in network,
         network' = network \ {r},
         NEW word \in Words \ {"ok"}, reply' = reply \/ Answer(r, word),
         UNCHANGED <<pc, request, created, rows, answer, store, landed, foreign>>
  PROVE  InStep'
<1>0. TypeOK /\ r \in Requests /\ RequestInStep(r)
  BY DEF InStep, TypeOK
<1>1. TypeOK'
  BY <1>0 DEF TypeOK, request, Answer, Words, Requests
<1>2. \A d \in Calls : d # r.call => SameCall(d)
  BY <1>0 DEF TypeOK, request, Answer, SameCall, Requests
<1> DEFINE c == r.call
<1>3. c \in Calls
  BY <1>0 DEF Requests
<1>4. reply'[c] = "ok" => reply[c] = "ok"
  BY <1>0, <1>3 DEF Answer, TypeOK, Words
<1>5. \A d \in Calls : LandedNow(d)' = LandedNow(d) /\ (Made(d)' <=> Made(d))
  BY DEF LandedNow, Made, request
<1>6. CallInStep(c)' /\ LandedInStep(c)'
  <2>1. CallInStep(c) /\ LandedInStep(c)
    BY <1>3 DEF InStep
  <2>2. CallInStep(c)'
    BY <1>3, <1>5, <2>1 DEF CallInStep, request
  <2>3. LandedInStep(c)'
    BY <1>3, <1>4, <1>5, <2>1 DEF LandedInStep, request
  <2> QED
    BY <2>2, <2>3
<1>7. ASSUME NEW q \in network' PROVE RequestInStep(q)'
  <2>1. q \in network /\ q # r /\ RequestInStep(q) /\ q \in Requests
    BY <1>0 DEF InStep, TypeOK
  <2>2. CASE q.call = c /\ q.attempt = attempt[c]
    <3>1. r.attempt # attempt[c]
      BY <1>0, <2>1, <2>2 DEF RequestInStep
    <3>2. reply' = reply
      BY <3>1 DEF Answer, IsWaitingFor
    <3>3. SameCall(q.call)
      BY <2>2, <3>2 DEF SameCall, request
    <3> QED
      BY <2>1, <3>3, SameRequestInStep
  <2>3. CASE q.call = c /\ q.attempt # attempt[c]
    <3>1. q.attempt < attempt[c] /\ attempt'[c] = attempt[c] /\ attempt[c] \in Nat /\ q.attempt \in Nat
      BY <1>0, <1>3, <2>1, <2>3 DEF RequestInStep, TypeOK, Requests, request
    <3> QED
      BY <2>3, <3>1, OldRequestInStep
  <2>4. CASE q.call # c
    BY <1>2, <2>1, <2>4, SameRequestInStep DEF Requests
  <2> QED
    BY <2>2, <2>3, <2>4
<1>8. \A d \in Calls : CallInStep(d)' /\ LandedInStep(d)'
  BY <1>2, <1>6, SameCallInStep DEF InStep
<1> QED
  BY <1>1, <1>7, <1>8 DEF InStep

LEMMA ApplyStep ==
  ASSUME InStep, NEW r \in network, ServerApplies(r)
  PROVE  InStep'
<1>0. TypeOK /\ r \in Requests /\ RequestInStep(r)
  BY DEF InStep, TypeOK
<1> DEFINE c == r.call
           a == AddressOf(r.doc)
           landing == [at |-> r.at, existed |-> store[a] # Absent]
<1>1. c \in Calls /\ a \in Address /\ landing \in Landing /\ r.attempt \in 1..MaxAttempts
      /\ r.doc.value \in Values
  BY <1>0, AddressType DEF Requests, Landing, Document
<1>2. CASE Conflict(store[a], r.doc.value, r.force)
  <2>1. /\ network' = network \ {r} /\ Answer(r, "conflict")
        /\ UNCHANGED <<pc, request, created, rows, answer, store, landed, foreign>>
    BY <1>2 DEF ServerApplies
  <2> QED
    BY <2>1, DropStep DEF Words
<1>3. CASE ~Conflict(store[a], r.doc.value, r.force)
  <2>1. /\ network' = network \ {r} /\ Answer(r, "ok")
        /\ store' = IF r.dryRun THEN store ELSE [store EXCEPT ![a] = Merged(@, r.doc.value)]
        /\ landed' = IF r.dryRun THEN landed
                     ELSE [landed EXCEPT ![c][r.attempt] = Append(@, landing)]
        /\ UNCHANGED <<pc, request, created, rows, answer, foreign>>
    BY <1>3 DEF ServerApplies
  <2> HIDE DEF landing, a
  <2>2. TypeOK'
    <3>1. store' \in [Address -> Objects]
      <4>1. Merged(store[a], r.doc.value) \in Objects
        BY <1>0, <1>1, MergedType DEF TypeOK
      <4> QED
        BY <1>0, <1>1, <2>1, <4>1 DEF TypeOK
    <3>2. landed' \in [Calls -> [1..MaxAttempts -> Seq(Landing)]]
      <4>1. Append(landed[c][r.attempt], landing) \in Seq(Landing)
        BY <1>0, <1>1 DEF TypeOK
      <4> QED
        BY <1>0, <1>1, <2>1, <4>1 DEF TypeOK
    <3>3. reply' \in [Calls -> Words] /\ network' \in SUBSET Requests
      BY <1>0, <1>1, <2>1 DEF TypeOK, Answer, Words
    <3> QED
      BY <1>0, <2>1, <3>1, <3>2, <3>3 DEF TypeOK, request
  <2>3. \A d \in Calls : d # c => SameCall(d)
    BY <1>0, <1>1, <2>1 DEF TypeOK, request, Answer, SameCall
  <2>4. CallInStep(c) /\ LandedInStep(c)
    BY <1>1 DEF InStep
  <2>5. CallInStep(c)'
    BY <1>1, <2>1, <2>4 DEF CallInStep, Made, request
  <2>6. \A t \in 1..MaxAttempts : t # r.attempt => landed'[c][t] = landed[c][t]
    BY <1>0, <1>1, <2>1 DEF TypeOK
  <2>7. LandedInStep(c)'
    <3>1. attempt' = attempt /\ attempt[c] \in Nat /\ r.attempt <= attempt[c] /\ at' = at /\ input' = input
          /\ pc' = pc /\ answer' = answer
      BY <1>0, <1>1, <2>1 DEF TypeOK, RequestInStep, request
    <3>2. \A t \in 1..MaxAttempts : t > attempt[c] => landed'[c][t] = <<>>
      BY <1>1, <2>4, <2>6, <3>1 DEF LandedInStep
    <3>3. CASE r.attempt # attempt[c]
      <4>1. reply' = reply
        BY <2>1, <3>3 DEF Answer, IsWaitingFor
      <4>2. Made(c) => LandedNow(c)' = LandedNow(c)
        <5> SUFFICES ASSUME Made(c) PROVE LandedNow(c)' = LandedNow(c)
          OBVIOUS
        <5>1. attempt[c] \in 1..MaxAttempts
          BY <1>0, <1>1 DEF Made, TypeOK
        <5> QED
          BY <2>6, <3>1, <3>3, <5>1 DEF LandedNow
      <4> QED
        BY <2>4, <3>1, <3>2, <4>1, <4>2 DEF LandedInStep, Made
    <3>4. CASE r.attempt = attempt[c] /\ input[c].dryRun
      BY <3>1, <3>2, <3>4 DEF LandedInStep
    <3>5. CASE r.attempt = attempt[c] /\ ~input[c].dryRun
      <4>1. r.at = at[c] /\ ~r.dryRun /\ (pc[c] = "waiting" \/ answer[c].status = "error")
            /\ Len(LandedNow(c)) = at[c] - 1
        BY <1>0, <3>5 DEF RequestInStep
      <4>2. LandedNow(c) \in Seq(Landing) /\ at[c] \in Nat \ {0}
        BY <1>0, <1>1, <3>5 DEF TypeOK, LandedNow
      <4>3. LandedNow(c)' = Append(LandedNow(c), landing)
        BY <1>0, <1>1, <2>1, <3>1, <3>5, <4>1 DEF LandedNow, TypeOK
      <4>4. landing.at = at[c]
        BY <4>1 DEF landing
      <4>5. Len(LandedNow(c)') = at[c] /\ \A i \in DOMAIN LandedNow(c)' : LandedNow(c)'[i].at = i
        <5>1. \A i \in DOMAIN LandedNow(c) : LandedNow(c)[i].at = i
          BY <1>1, <2>4, <3>5 DEF LandedInStep, Made
        <5> QED
          BY <1>1, <4>1, <4>2, <4>3, <4>4, <5>1
      <4>6. pc[c] \notin {"resolving", "checking", "sending"}
        BY <2>4, <4>1 DEF CallInStep
      <4> QED
        BY <3>1, <3>2, <4>2, <4>5, <4>6 DEF LandedInStep
    <3> QED
      BY <3>3, <3>4, <3>5
  <2>8. ASSUME NEW q \in network' PROVE RequestInStep(q)'
    <3>1. q \in network /\ q # r /\ RequestInStep(q) /\ q \in Requests
      BY <1>0, <2>1 DEF InStep, TypeOK
    <3>2. CASE q.call = c /\ q.attempt = attempt[c]
      <4>1. r.attempt # attempt[c]
        BY <1>0, <3>1, <3>2 DEF RequestInStep
      <4>2. reply' = reply
        BY <2>1, <4>1 DEF Answer, IsWaitingFor
      <4>3. LandedNow(c)' = LandedNow(c)
        BY <1>0, <1>1, <2>1, <2>6, <3>1, <3>2, <4>1 DEF LandedNow, TypeOK, Requests, request
      <4> QED
        BY <1>1, <2>1, <3>1, <3>2, <4>2, <4>3 DEF RequestInStep, request
    <3>3. CASE q.call = c /\ q.attempt # attempt[c]
      <4>1. q.attempt < attempt[c] /\ attempt'[c] = attempt[c] /\ attempt[c] \in Nat /\ q.attempt \in Nat
        BY <1>0, <1>1, <2>1, <3>1, <3>3 DEF RequestInStep, TypeOK, Requests, request
      <4> QED
        BY <3>3, <4>1, OldRequestInStep
    <3>4. CASE q.call # c
      BY <2>1, <2>3, <3>1, <3>4, SameRequestInStep DEF Requests
    <3> QED
      BY <3>2, <3>3, <3>4
  <2>9. \A d \in Calls : CallInStep(d)' /\ LandedInStep(d)'
    BY <2>3, <2>5, <2>7, SameCallInStep DEF InStep
  <2> QED
    BY <2>2, <2>8, <2>9 DEF InStep
<1> QED
  BY <1>2, <1>3

LEMMA ForeignStep ==
  ASSUME InStep, ForeignWrite
  PROVE  InStep'
<1>0. TypeOK
  BY DEF InStep
<1>1. store' \in [Address -> Objects]
  <2>1. PICK a \in Address, object \in {Absent} \cup [owners : {{Other}}, value : Values] :
          store' = [store EXCEPT ![a] = object]
    BY DEF ForeignWrite
  <2>2. object \in Objects
    BY <2>1 DEF Objects
  <2> QED
    BY <1>0, <2>1, <2>2 DEF TypeOK
<1>2. TypeOK'
  BY <1>0, <1>1 DEF ForeignWrite, TypeOK, request
<1>3. \A d \in Calls : SameCall(d)
  BY DEF ForeignWrite, SameCall, request
<1>4. network' = network
  BY DEF ForeignWrite
<1>5. \A r \in network' : RequestInStep(r)'
  BY <1>0, <1>3, <1>4, SameRequestInStep DEF InStep, TypeOK, Requests
<1> QED
  BY <1>2, <1>3, <1>5, SameCallInStep DEF InStep

LEMMA NextInStep == InStep /\ [Next]_vars => InStep'
<1> SUFFICES ASSUME InStep, [Next]_vars PROVE InStep'
  OBVIOUS
<1>1. ASSUME NEW c \in Calls, Start(c) PROVE InStep'
  BY <1>1, StartStep
<1>2. ASSUME NEW c \in Calls, Handler(c) PROVE InStep'
  <2>1. CASE Resolve(c) \/ CheckExists(c)
    BY <2>1, LookStep
  <2>2. CASE Send(c)
    BY <2>2, SendStep
  <2>3. CASE GiveUp(c)
    BY <2>3, FailStep DEF GiveUp, Unsent
  <2>4. CASE Receive(c)
    BY <2>4, ReceiveStep
  <2>5. CASE ReceiveError(c)
    <3>1. pc[c] = "waiting" /\ reply[c] \in {"conflict", "rejected"} /\ Fail(c, reply[c])
          /\ UNCHANGED <<request, created, rows, reply, network, store, landed, foreign>>
      BY <2>5 DEF ReceiveError
    <3> QED
      BY <3>1, FailStep
  <2> QED
    BY <1>2, <2>1, <2>2, <2>3, <2>4, <2>5 DEF Handler
<1>3. ASSUME NEW r \in network, ServerApplies(r) \/ ServerRejects(r) \/ RequestLost(r) PROVE InStep'
  <2>1. CASE ServerApplies(r)
    BY <2>1, ApplyStep
  <2>2. CASE ServerRejects(r)
    <3>1. "rejected" \in Words \ {"ok"}
      BY DEF Words
    <3> QED
      BY <2>2, <3>1, DropStep DEF ServerRejects
  <2>3. CASE RequestLost(r)
    <3>1. "rejected" \in Words \ {"ok"}
      BY DEF Words
    <3> QED
      BY <2>3, <3>1, DropStep DEF RequestLost
  <2> QED
    BY <1>3, <2>1, <2>2, <2>3
<1>4. CASE ForeignWrite
  BY <1>4, ForeignStep
<1>5. CASE UNCHANGED vars
  <2>1. \A d \in Calls : SameCall(d)
    BY <1>5 DEF vars, SameCall
  <2>2. network' = network /\ TypeOK'
    BY <1>5 DEF InStep, TypeOK, vars
  <2>3. \A r \in network' : RequestInStep(r)'
    BY <2>1, <2>2, SameRequestInStep DEF InStep, TypeOK, Requests
  <2> QED
    BY <2>1, <2>2, <2>3, SameCallInStep DEF InStep
<1> QED
  BY <1>1, <1>2, <1>3, <1>4, <1>5 DEF Next

\* Calls, requests and the server's record of them stay in step, whatever is
\* lost, delayed or retried (manifest.go:60-76, write.go:112-127).
THEOREM InStepInvariant == Spec => []InStep
BY InitInStep, NextInStep, PTL DEF Spec

\* Every variable stays within its type.
THEOREM TypeCorrect == Spec => []TypeOK
BY InStepInvariant, PTL DEF InStep

LEMMA InStepLeavesOneInDoubt == InStep => AtMostOneInDoubt
<1> SUFFICES ASSUME InStep, NEW c \in Calls, Made(c), ~input[c].dryRun
             PROVE  /\ \A i \in DOMAIN LandedNow(c) : LandedNow(c)[i].at = i
                    /\ Len(LandedNow(c)) \in {Len(rows[c]), Len(rows[c]) + 1}
                    /\ Len(LandedNow(c)) > Len(rows[c]) => pc[c] = "waiting" \/ answer[c].status = "error"
                    /\ answer[c].status = "ok" => Len(LandedNow(c)) = Len(docs[c])
  BY DEF AtMostOneInDoubt
<1>1. CallInStep(c) /\ LandedInStep(c) /\ TypeOK
  BY DEF InStep
<1>2. pc[c] \in {"resolving", "checking", "sending", "waiting"} \/ answer[c].status \in {"ok", "error"}
  BY <1>1 DEF CallInStep, TypeOK, Answers
<1>3. at[c] \in Nat \ {0} /\ answer[c].status \in {"none", "ok", "error"}
  BY <1>1 DEF TypeOK, Answers
<1> QED
  BY <1>1, <1>2, <1>3 DEF CallInStep, LandedInStep

\* An error leaves at most the document it is about in doubt, and a success
\* none, for any number of callers, attempts and late requests.
THEOREM OneInDoubt == Spec => []AtMostOneInDoubt
BY InStepLeavesOneInDoubt, InStepInvariant, PTL

(***************************************************************************)
(* Writes are confined.  A request carries a document of its call, of a    *)
(* kind that may be written, and the call's own flags; the documents of a  *)
(* call never change once it has any, however often it is made again.      *)
(***************************************************************************)
DocsKnown(c) == docs[c] \in {<<>>, Documents(input[c].manifest, input[c].ns)}
KindAllowed(c) == pc[c] \in {"checking", "sending"} => Current(c).kind \in WritableKinds
Requested(r) ==
  /\ r.doc.kind \in WritableKinds
  /\ \E i \in DOMAIN docs[r.call] : docs[r.call][i] = r.doc
  /\ r.force = input[r.call].force
  /\ r.dryRun = input[r.call].dryRun

Confined ==
  /\ InStep
  /\ \A c \in Calls : DocsKnown(c) /\ KindAllowed(c)
  /\ \A r \in network : Requested(r)

LEMMA InitConfined == Init => Confined
<1> SUFFICES ASSUME Init PROVE Confined
  OBVIOUS
<1>1. InStep
  BY InitInStep
<1>2. \A c \in Calls : DocsKnown(c) /\ KindAllowed(c)
  BY DEF Init, DocsKnown, KindAllowed
<1>3. network = {}
  BY DEF Init
<1> QED
  BY <1>1, <1>2, <1>3 DEF Confined

\* A step that keeps the arguments and documents of every call, sends nothing
\* and brings no call to its existence check keeps writes confined.
LEMMA QuietStep ==
  ASSUME Confined, InStep', UNCHANGED request \/ UNCHANGED <<input, attempt, docs>>, network' \subseteq network,
         \A c \in Calls : pc'[c] \in {"checking", "sending"} =>
           at'[c] = at[c] /\ Current(c).kind \in WritableKinds
  PROVE  Confined'
<1>1. input' = input /\ docs' = docs
  BY DEF request
<1>2. \A c \in Calls : DocsKnown(c)'
  BY <1>1 DEF Confined, DocsKnown
<1>3. \A c \in Calls : KindAllowed(c)'
  BY <1>1 DEF KindAllowed, Current
<1>4. \A r \in network' : Requested(r)'
  BY <1>1 DEF Confined, Requested
<1> QED
  BY <1>2, <1>3, <1>4 DEF Confined

LEMMA StartConfined ==
  ASSUME Confined, InStep', NEW c \in Calls, Start(c)
  PROVE  Confined'
<1>0. TypeOK
  BY DEF Confined, InStep
<1>1. input' = input /\ network' = network /\ docs' \in [Calls -> Seq(Document)]
  BY <1>0 DEF Start, Confined, InStep, TypeOK
<1>2. \A d \in Calls : pc'[d] \in {"checking", "sending"} => d # c /\ pc[d] = pc'[d] /\ at'[d] = at[d] /\ docs'[d] = docs[d]
  BY <1>0 DEF Start, TypeOK
<1>3. \A d \in Calls : docs'[d] \in {docs[d], Documents(input[d].manifest, input[d].ns)}
  BY <1>0 DEF Start, TypeOK
<1>4. \A d \in Calls : DocsKnown(d)' /\ (docs[d] # <<>> => docs'[d] = docs[d])
  BY <1>1, <1>3 DEF Confined, DocsKnown
<1>5. \A d \in Calls : KindAllowed(d)'
  BY <1>2 DEF Confined, KindAllowed, Current
<1>6. ASSUME NEW r \in network' PROVE Requested(r)'
  <2>1. Requested(r) /\ r.call \in Calls
    BY <1>0, <1>1 DEF Confined, TypeOK, Requests
  <2>2. docs[r.call] # <<>>
    BY <2>1 DEF Requested
  <2> QED
    BY <1>1, <1>4, <2>1, <2>2 DEF Requested
<1> QED
  BY <1>4, <1>5, <1>6 DEF Confined

LEMMA SendConfined ==
  ASSUME Confined, InStep', NEW c \in Calls, Send(c)
  PROVE  Confined'
<1>0. TypeOK /\ CallInStep(c)
  BY DEF Confined, InStep
<1>1. input' = input /\ docs' = docs /\ at' = at /\ pc' = [pc EXCEPT ![c] = "waiting"]
  BY DEF Send, request
<1>2. \A d \in Calls : DocsKnown(d)' /\ KindAllowed(d)'
  BY <1>0, <1>1 DEF Confined, DocsKnown, KindAllowed, Current, TypeOK
<1>3. Current(c).kind \in WritableKinds /\ at[c] \in DOMAIN docs[c]
  <2>1. pc[c] = "sending" /\ at[c] \in Nat \ {0} /\ docs[c] \in Seq(Document)
    BY <1>0 DEF Send, TypeOK
  <2> QED
    BY <1>0, <2>1 DEF Confined, KindAllowed, CallInStep
<1>4. ASSUME NEW r \in network' PROVE Requested(r)'
  <2>1. CASE r \in network
    BY <1>1, <2>1 DEF Confined, Requested
  <2>2. CASE r \notin network
    <3>1. r = [call |-> c, attempt |-> attempt[c], at |-> at[c], doc |-> Current(c),
               force |-> input[c].force, dryRun |-> input[c].dryRun]
      BY <2>2 DEF Send
    <3>2. r.call = c /\ r.doc = docs[c][at[c]] /\ r.force = input[c].force /\ r.dryRun = input[c].dryRun
      BY <3>1 DEF Current
    <3> QED
      BY <1>1, <1>3, <3>2 DEF Requested, Current
  <2> QED
    BY <2>1, <2>2
<1> QED
  BY <1>2, <1>4 DEF Confined

LEMMA NextConfined == Confined /\ [Next]_vars => Confined'
<1> SUFFICES ASSUME Confined, [Next]_vars PROVE Confined'
  OBVIOUS
<1>0. InStep' /\ TypeOK /\ \A d \in Calls : KindAllowed(d)
  BY NextInStep DEF Confined, InStep
<1>1. ASSUME NEW c \in Calls, Start(c) PROVE Confined'
  BY <1>0, <1>1, StartConfined
<1>2. ASSUME NEW c \in Calls, Send(c) PROVE Confined'
  BY <1>0, <1>2, SendConfined
<1>3. ASSUME NEW c \in Calls, Resolve(c) PROVE Confined'
  BY <1>0, <1>3, QuietStep DEF Resolve, Fail, request, KindAllowed, TypeOK
<1>4. ASSUME NEW c \in Calls, CheckExists(c) PROVE Confined'
  BY <1>0, <1>4, QuietStep DEF CheckExists, request, KindAllowed, TypeOK
<1>5. ASSUME NEW c \in Calls, GiveUp(c) \/ ReceiveError(c) PROVE Confined'
  BY <1>0, <1>5, QuietStep DEF GiveUp, ReceiveError, Fail, request, KindAllowed, TypeOK
<1>6. ASSUME NEW c \in Calls, Receive(c) PROVE Confined'
  BY <1>0, <1>6, QuietStep DEF Receive, KindAllowed, TypeOK
<1>7. ASSUME NEW r \in network, ServerApplies(r) \/ ServerRejects(r) \/ RequestLost(r) PROVE Confined'
  BY <1>0, <1>7, QuietStep DEF ServerApplies, ServerRejects, RequestLost, request, KindAllowed
<1>8. CASE ForeignWrite
  BY <1>0, <1>8, QuietStep DEF ForeignWrite, request, KindAllowed
<1>9. CASE UNCHANGED vars
  BY <1>0, <1>9, QuietStep DEF vars, request, KindAllowed
<1> QED
  BY <1>1, <1>2, <1>3, <1>4, <1>5, <1>6, <1>7, <1>8, <1>9 DEF Next, Handler

\* This server changes only objects of the kinds it may write, only for a call
\* that names them and is not a dry run, and takes a field over only with
\* force, for any number of concurrent callers (write.go:26-27, 61-75).
THEOREM OnlyWhatWasAsked == Spec => WritesAreConfined
<1>1. Confined /\ [Next]_vars =>
        [\A a \in Address : store'[a] # store[a] /\ foreign' = foreign =>
           /\ a[1] \in WritableKinds
           /\ \E c \in Calls :
                /\ \E i \in DOMAIN docs[c] : AddressOf(docs[c][i]) = a
                /\ ~input[c].dryRun
                /\ Conflict(store[a], store'[a].value, FALSE) => input[c].force]_vars
  <2> SUFFICES ASSUME Confined, Next, NEW a \in Address, store'[a] # store[a], foreign' = foreign
               PROVE  /\ a[1] \in WritableKinds
                      /\ \E c \in Calls :
                           /\ \E i \in DOMAIN docs[c] : AddressOf(docs[c][i]) = a
                           /\ ~input[c].dryRun
                           /\ Conflict(store[a], store'[a].value, FALSE) => input[c].force
    OBVIOUS
  <2>0. TypeOK
    BY DEF Confined, InStep
  <2>1. PICK r \in network : ServerApplies(r)
    <3>1. ~ForeignWrite
      BY <2>0 DEF ForeignWrite, TypeOK
    <3>2. \A c \in Calls : ~(Start(c) \/ Handler(c))
      BY DEF Start, Handler, Resolve, CheckExists, Send, GiveUp, Receive, ReceiveError
    <3>3. \A r \in network : ~(ServerRejects(r) \/ RequestLost(r))
      BY DEF ServerRejects, RequestLost
    <3> QED
      BY <3>1, <3>2, <3>3 DEF Next
  <2>2. r \in Requests /\ r.call \in Calls /\ Requested(r)
    BY <2>0, <2>1 DEF Confined, TypeOK, Requests
  <2>3. /\ ~Conflict(store[AddressOf(r.doc)], r.doc.value, r.force)
        /\ ~r.dryRun
        /\ store' = [store EXCEPT ![AddressOf(r.doc)] = Merged(@, r.doc.value)]
    BY <2>1 DEF ServerApplies
  <2>4. a = AddressOf(r.doc) /\ store'[a].value = r.doc.value
    BY <2>0, <2>3 DEF TypeOK, Merged
  <2>5. a[1] = r.doc.kind
    BY <2>4 DEF AddressOf
  <2>6. Conflict(store[a], store'[a].value, FALSE) => input[r.call].force
    BY <2>2, <2>3, <2>4 DEF Conflict, Requested
  <2>7. ~input[r.call].dryRun /\ \E i \in DOMAIN docs[r.call] : AddressOf(docs[r.call][i]) = a
    BY <2>2, <2>3, <2>4 DEF Requested
  <2> QED
    BY <2>2, <2>5, <2>6, <2>7 DEF Requested
<1> QED
  BY <1>1, InitConfined, NextConfined, PTL DEF Spec, WritesAreConfined

(***************************************************************************)
(* A manifest that does not parse is never under way.                      *)
(***************************************************************************)
Refused(c) ==
  Parses(input[c].manifest) \/
    /\ pc[c] \in {"idle", "answered"}
    /\ \A r \in network : r.call # c
    /\ \A t \in 1..MaxAttempts : landed[c][t] = <<>>

Refusing == InStep /\ \A c \in Calls : Refused(c)

LEMMA InitRefusing == Init => Refusing
<1> SUFFICES ASSUME Init  PROVE Refusing
  OBVIOUS
<1>1. ASSUME NEW c \in Calls  PROVE Refused(c)
  BY DEF Init, Refused
<1> QED  BY <1>1, InitInStep DEF Refusing

LEMMA NextRefusing == Refusing /\ [Next]_vars => Refusing'
<1> SUFFICES ASSUME Refusing, [Next]_vars, NEW c \in Calls  PROVE Refused(c)'
  BY NextInStep DEF Refusing
<1>a. input' = input
  BY DEF Next, Start, Handler, Resolve, CheckExists, Send, GiveUp, Receive, ReceiveError,
     ServerApplies, ServerRejects, RequestLost, ForeignWrite, request, vars
<1>b. CASE Parses(input[c].manifest)
  BY <1>a, <1>b DEF Refused, Parses
<1> SUFFICES ASSUME ~Parses(input[c].manifest)
             PROVE  /\ pc'[c] \in {"idle", "answered"}
                    /\ \A r \in network' : r.call # c
                    /\ landed'[c] = landed[c]
  BY <1>b DEF Refusing, Refused
<1>0. TypeOK /\ pc[c] \in {"idle", "answered"} /\ \A r \in network : r.call # c
  BY DEF Refusing, Refused, InStep
<1>1. ASSUME NEW d \in Calls, Start(d)
      PROVE  pc'[c] \in {"idle", "answered"} /\ network' = network /\ landed' = landed
  BY <1>0, <1>1 DEF Start, TypeOK
<1>2. ASSUME NEW d \in Calls, Handler(d)
      PROVE  /\ pc'[c] \in {"idle", "answered"} /\ landed' = landed
             /\ \A r \in network' : r.call # c
  <2>1. d # c /\ landed' = landed
    BY <1>0, <1>2 DEF Handler, Resolve, CheckExists, Send, GiveUp, Receive, ReceiveError, request
  <2>2. pc'[c] = pc[c]
    BY <1>0, <1>2, <2>1 DEF Handler, Resolve, CheckExists, Send, GiveUp, Receive, ReceiveError, Fail, TypeOK
  <2>3. \A r \in network' : r \in network \/ r.call = d
    <3>1. CASE Send(d)
      <4>1. PICK new : network' = network \cup {new} /\ new.call = d
        <5> DEFINE new == [call |-> d, attempt |-> attempt[d], at |-> at[d], doc |-> Current(d),
                           force |-> input[d].force, dryRun |-> input[d].dryRun]
        <5>1. network' = network \cup {new} /\ new.call = d
          BY <3>1 DEF Send
        <5> QED  BY <5>1
      <4> QED  BY <4>1
    <3>2. CASE ~Send(d)
      <4>1. network' = network
        BY <1>2, <3>2 DEF Handler, Resolve, CheckExists, GiveUp, Receive, ReceiveError
      <4> QED  BY <4>1
    <3> QED  BY <3>1, <3>2
  <2> QED  BY <1>0, <2>1, <2>2, <2>3
<1>3. ASSUME NEW r \in network, ServerApplies(r)
      PROVE  pc' = pc /\ network' \subseteq network /\ landed'[c] = landed[c]
  BY <1>0, <1>3 DEF ServerApplies, request, TypeOK
<1>4. ASSUME NEW r \in network, ServerRejects(r) \/ RequestLost(r)
      PROVE  pc' = pc /\ network' \subseteq network /\ landed' = landed
  BY <1>4 DEF ServerRejects, RequestLost, request
<1>5. CASE ForeignWrite \/ UNCHANGED vars
  BY <1>0, <1>5 DEF ForeignWrite, request, vars
<1> QED  BY <1>0, <1>1, <1>2, <1>3, <1>4, <1>5 DEF Next

\* A manifest with an incomplete document is refused whole, for any number of
\* callers and attempts (manifest.go:112-114).
THEOREM IncompleteIsRefused == Spec => []IncompleteTouchesNothing
<1>1. Refusing => IncompleteTouchesNothing
  <2> SUFFICES ASSUME Refusing, NEW c \in Calls,
                      \E i \in DOMAIN input[c].manifest : input[c].manifest[i] = Incomplete
               PROVE  (\A r \in network : r.call # c) /\ (Made(c) => LandedNow(c) = <<>>)
    BY DEF IncompleteTouchesNothing
  <2>1. (\A r \in network : r.call # c) /\ \A t \in 1..MaxAttempts : landed[c][t] = <<>>
    BY DEF Refusing, Refused, Parses
  <2>2. Made(c) => attempt[c] \in 1..MaxAttempts
    BY DEF Refusing, InStep, TypeOK, Made
  <2> QED  BY <2>1, <2>2 DEF LandedNow
<1> QED  BY <1>1, InitRefusing, NextRefusing, PTL DEF Spec

(***************************************************************************)
(* What landed for a call that nobody disturbs stays in effect: another    *)
(* request of the call for the same object carries the same document.      *)
(***************************************************************************)
Numbered(r) == r.at \in DOMAIN docs[r.call] /\ docs[r.call][r.at] = r.doc

InEffect(c, i) ==
  /\ i \in DOMAIN docs[c]
  /\ store[AddressOf(docs[c][i])].value = docs[c][i].value
  /\ Us \in store[AddressOf(docs[c][i])].owners

Lasting(c) == \A t \in 1..MaxAttempts : \A n \in DOMAIN landed[c][t] : InEffect(c, landed[c][t][n].at)

Settling ==
  /\ Confined
  /\ \A r \in network : Numbered(r)
  /\ \A c \in Calls : Undisturbed(c) => Lasting(c)

LEMMA InitSettling == Init => Settling
<1> SUFFICES ASSUME Init  PROVE Settling
  OBVIOUS
<1>1. network = {} /\ \A c \in Calls : Lasting(c)
  BY DEF Init, Lasting
<1> QED  BY <1>1, InitConfined DEF Settling

\* Documents a call has never change, so that who is undisturbed was so before.
LEMMA DocsStay ==
  ASSUME Confined, [Next]_vars
  PROVE  /\ \A c \in Calls : docs[c] # <<>> => docs'[c] = docs[c]
         /\ \A c \in Calls : Undisturbed(c)' => Undisturbed(c)
<1>0. TypeOK /\ \A c \in Calls : DocsKnown(c)
  BY DEF Confined, InStep
<1>1. \A c \in Calls : docs[c] # <<>> => docs'[c] = docs[c]
  <2>1. ASSUME NEW d \in Calls, Start(d)  PROVE \A c \in Calls : docs[c] # <<>> => docs'[c] = docs[c]
    BY <1>0, <2>1 DEF Start, TypeOK, DocsKnown
  <2>2. ASSUME NEW d \in Calls, Handler(d)  PROVE docs' = docs
    BY <2>2 DEF Handler, Resolve, CheckExists, Send, GiveUp, Receive, ReceiveError, request
  <2>3. ASSUME NEW r \in network, ServerApplies(r) \/ ServerRejects(r) \/ RequestLost(r)  PROVE docs' = docs
    BY <2>3 DEF ServerApplies, ServerRejects, RequestLost, request
  <2>4. CASE ForeignWrite \/ UNCHANGED vars
    BY <2>4 DEF ForeignWrite, request, vars
  <2> QED  BY <2>1, <2>2, <2>3, <2>4 DEF Next
<1>2. foreign' = 0 => foreign = 0
  <2>1. ForeignWrite => foreign' # 0
    BY <1>0 DEF ForeignWrite, TypeOK
  <2>2. ~ForeignWrite => foreign' = foreign
    BY DEF Next, Start, Handler, Resolve, CheckExists, Send, GiveUp, Receive, ReceiveError,
       ServerApplies, ServerRejects, RequestLost, vars
  <2> QED  BY <2>1, <2>2
<1>3. ASSUME NEW c \in Calls, Undisturbed(c)'  PROVE Undisturbed(c)
  <2>1. docs[c] = <<>> \/ docs'[c] = docs[c]
    BY <1>1
  <2>2. \A i, j \in DOMAIN docs[c] : AddressOf(docs[c][i]) = AddressOf(docs[c][j]) => i = j
    BY <1>3, <2>1 DEF Undisturbed
  <2>3. \A d \in Calls \ {c} : docs[d] = <<>>
    BY <1>1, <1>3 DEF Undisturbed
  <2> QED  BY <1>2, <1>3, <2>2, <2>3 DEF Undisturbed
<1> QED  BY <1>1, <1>3

\* A step that writes nothing and records nothing.
LEMMA CalmStep ==
  ASSUME Settling, [Next]_vars, store' = store, landed' = landed,
         \A r \in network' : r \in network \/ (r.call \in Calls /\ Numbered(r)')
  PROVE  Settling'
<1>0. Confined' /\ Confined /\ TypeOK
  BY NextConfined DEF Settling, Confined, InStep
<1>1. \A c \in Calls : docs[c] # <<>> => docs'[c] = docs[c]
  BY <1>0, DocsStay
<1>2. \A c \in Calls : \A i : InEffect(c, i) => InEffect(c, i)'
  <2> SUFFICES ASSUME NEW c \in Calls, NEW i, InEffect(c, i)  PROVE InEffect(c, i)'
    OBVIOUS
  <2>1. docs[c] # <<>>
    BY DEF InEffect
  <2> QED  BY <1>1, <2>1 DEF InEffect
<1>3. \A c \in Calls : Undisturbed(c)' => Lasting(c)'
  <2>1. \A c \in Calls : Undisturbed(c)' => Lasting(c)
    BY <1>0, DocsStay DEF Settling
  <2> QED  BY <1>2, <2>1 DEF Lasting
<1>4. ASSUME NEW r \in network  PROVE Numbered(r)'
  <2>1. Numbered(r) /\ r.call \in Calls
    BY <1>0 DEF Settling, TypeOK, Requests
  <2>2. docs[r.call] # <<>>
    BY <2>1 DEF Numbered
  <2> QED  BY <1>1, <2>1, <2>2 DEF Numbered
<1> QED  BY <1>0, <1>3, <1>4 DEF Settling

LEMMA SendSettling ==
  ASSUME Settling, NEW c \in Calls, Send(c), [Next]_vars
  PROVE  Settling'
<1>0. TypeOK /\ CallInStep(c)
  BY DEF Settling, Confined, InStep
<1>1. docs' = docs /\ store' = store /\ landed' = landed
  BY DEF Send, request
<1>2. at[c] \in DOMAIN docs[c]
  <2>1. pc[c] = "sending" /\ at[c] \in Nat \ {0} /\ docs[c] \in Seq(Document)
    BY <1>0 DEF Send, TypeOK
  <2> QED  BY <1>0, <2>1 DEF CallInStep
<1>3. ASSUME NEW r \in network', r \notin network  PROVE r.call \in Calls /\ Numbered(r)'
  <2>1. r = [call |-> c, attempt |-> attempt[c], at |-> at[c], doc |-> Current(c),
             force |-> input[c].force, dryRun |-> input[c].dryRun]
    BY <1>3 DEF Send
  <2>2. r.call = c /\ r.at = at[c] /\ r.doc = docs[c][at[c]]
    BY <2>1 DEF Current
  <2> QED  BY <1>1, <1>2, <2>2 DEF Numbered
<1> QED  BY <1>1, <1>3, CalmStep

LEMMA ApplySettling ==
  ASSUME Settling, NEW r \in network, ServerApplies(r), [Next]_vars
  PROVE  Settling'
<1>0. Confined' /\ Confined /\ TypeOK
  BY NextConfined DEF Settling, Confined, InStep
<1>1. docs' = docs /\ network' \subseteq network /\ foreign' = foreign
  BY DEF ServerApplies, request
<1>2. r \in Requests /\ r.call \in Calls /\ r.attempt \in 1..MaxAttempts /\ Numbered(r) /\ r.doc \in Document
  BY <1>0 DEF Settling, TypeOK, Requests
<1>3. \A q \in network' : Numbered(q)'
  BY <1>1 DEF Settling, Numbered
<1> DEFINE a == AddressOf(r.doc)
           new == [at |-> r.at, existed |-> store[a] # Absent]
<1>4. CASE store' = store /\ landed' = landed
  BY <1>1, <1>4, CalmStep
<1>5. CASE /\ store' = [store EXCEPT ![a] = Merged(@, r.doc.value)]
           /\ landed' = [landed EXCEPT ![r.call][r.attempt] = Append(@, new)]
  <2>1. a \in Address
    BY <1>2, AddressType
  <2>2. store'[a].value = r.doc.value /\ Us \in store'[a].owners /\ \A b \in Address : b # a => store'[b] = store[b]
    BY <1>0, <1>5, <2>1 DEF TypeOK, Merged
  <2>3. ASSUME NEW c \in Calls, Undisturbed(c)'  PROVE Lasting(c)'
    <3>1. Undisturbed(c) /\ Lasting(c)
      BY <1>0, <2>3, DocsStay DEF Settling
    <3>2. docs[r.call] # <<>>
      BY <1>2 DEF Numbered
    <3>3. c = r.call
      BY <1>2, <3>1, <3>2 DEF Undisturbed
    <3>4. InEffect(c, r.at)'
      BY <1>1, <1>2, <2>2, <3>3 DEF InEffect, Numbered
    <3>5. ASSUME NEW i, InEffect(c, i)  PROVE InEffect(c, i)'
      <4>1. CASE AddressOf(docs[c][i]) = a
        <5>1. i = r.at
          BY <1>2, <3>1, <3>3, <3>5, <4>1 DEF Undisturbed, InEffect, Numbered
        <5> QED  BY <3>4, <5>1
      <4>2. CASE AddressOf(docs[c][i]) # a
        <5>1. docs[c][i] \in Document
          BY <1>0, <3>5 DEF TypeOK, InEffect
        <5>2. AddressOf(docs[c][i]) \in Address
          BY <5>1, AddressType
        <5> QED  BY <1>1, <2>2, <3>5, <4>2, <5>2 DEF InEffect
      <4> QED  BY <4>1, <4>2
    <3>6. ASSUME NEW t \in 1..MaxAttempts, NEW n \in DOMAIN landed'[c][t]
          PROVE  \/ landed'[c][t][n].at = r.at
                 \/ n \in DOMAIN landed[c][t] /\ landed'[c][t][n] = landed[c][t][n]
      <4> HIDE DEF new
      <4>1. landed[c][t] \in Seq(Landing)
        BY <1>0 DEF TypeOK
      <4>2. CASE t # r.attempt
        <5>1. landed'[c][t] = landed[c][t]
          BY <1>0, <1>2, <1>5, <3>3, <4>2 DEF TypeOK
        <5> QED  BY <3>6, <5>1
      <4>3. CASE t = r.attempt
        <5>1. landed'[c][t] = Append(landed[c][t], new)
          BY <1>0, <1>2, <1>5, <3>3, <4>3 DEF TypeOK
        <5>2. new.at = r.at /\ new \in Landing
          BY <1>2 DEF new, Landing, Requests
        <5>3. n \in 1..(Len(landed[c][t]) + 1)
          BY <3>6, <4>1, <5>1, <5>2
        <5> QED  BY <4>1, <5>1, <5>2, <5>3
      <4> QED  BY <4>2, <4>3
    <3> QED  BY <3>1, <3>4, <3>5, <3>6 DEF Lasting
  <2> QED  BY <1>0, <1>3, <2>3 DEF Settling
<1> QED  BY <1>4, <1>5 DEF ServerApplies

LEMMA NextSettling == Settling /\ [Next]_vars => Settling'
<1> SUFFICES ASSUME Settling, [Next]_vars  PROVE Settling'
  OBVIOUS
<1>0. Confined /\ TypeOK
  BY DEF Settling, Confined, InStep
<1>1. ASSUME NEW c \in Calls, Start(c)  PROVE Settling'
  BY <1>1, CalmStep DEF Start
<1>2. ASSUME NEW c \in Calls, Handler(c)  PROVE Settling'
  <2>1. CASE Send(c)
    BY <2>1, SendSettling
  <2>2. CASE ~Send(c)
    <3>1. store' = store /\ landed' = landed /\ network' = network
      BY <1>2, <2>2 DEF Handler, Resolve, CheckExists, GiveUp, Receive, ReceiveError
    <3> QED  BY <3>1, CalmStep
  <2> QED  BY <2>1, <2>2
<1>3. ASSUME NEW r \in network, ServerApplies(r)  PROVE Settling'
  BY <1>3, ApplySettling
<1>4. ASSUME NEW r \in network, ServerRejects(r) \/ RequestLost(r)  PROVE Settling'
  <2>1. store' = store /\ landed' = landed /\ network' \subseteq network
    BY <1>4 DEF ServerRejects, RequestLost
  <2> QED  BY <2>1, CalmStep
<1>5. CASE ForeignWrite
  <2>1. foreign' # 0 /\ docs' = docs /\ network' = network
    BY <1>0, <1>5 DEF ForeignWrite, request, TypeOK
  <2>2. \A c \in Calls : ~Undisturbed(c)'
    BY <2>1 DEF Undisturbed
  <2>3. Confined' /\ \A r \in network' : Numbered(r)'
    BY <2>1, NextConfined DEF Settling, Numbered
  <2> QED  BY <2>2, <2>3 DEF Settling
<1>6. CASE UNCHANGED vars
  BY <1>6, CalmStep DEF vars
<1> QED  BY <1>1, <1>2, <1>3, <1>4, <1>5, <1>6 DEF Next

\* A call that succeeded stays in effect, however many attempts it took and
\* however late their requests arrive, while nobody else writes the same
\* objects (write.go:77-81).
THEOREM RetryIsSafe == Spec => []RetrySettles
<1>1. Settling => RetrySettles
  <2> SUFFICES ASSUME Settling, NEW c \in Calls, answer[c].status = "ok", ~input[c].dryRun, Undisturbed(c),
                      NEW i \in DOMAIN docs[c]
               PROVE  /\ store[AddressOf(docs[c][i])].value = docs[c][i].value
                      /\ Us \in store[AddressOf(docs[c][i])].owners
    BY DEF RetrySettles
  <2>1. InStep /\ TypeOK /\ CallInStep(c) /\ Lasting(c)
    BY DEF Settling, Confined, InStep
  <2>2. Made(c) /\ attempt[c] \in 1..MaxAttempts
    BY <2>1 DEF CallInStep, Made, TypeOK
  <2>3. /\ \A n \in DOMAIN LandedNow(c) : LandedNow(c)[n].at = n
        /\ Len(LandedNow(c)) = Len(docs[c])
    BY <2>1, <2>2, InStepLeavesOneInDoubt DEF AtMostOneInDoubt
  <2>4. LandedNow(c) \in Seq(Landing) /\ docs[c] \in Seq(Document)
    BY <2>1, <2>2 DEF LandedNow, TypeOK
  <2>5. i \in DOMAIN LandedNow(c)
    BY <2>3, <2>4
  <2> QED  BY <2>1, <2>2, <2>3, <2>5 DEF Lasting, InEffect, LandedNow
<1> QED  BY <1>1, InitSettling, NextSettling, PTL DEF Spec
(***************************************************************************)
(* A document for which nothing was there is created by the call, in this  *)
(* attempt or by a late request of an earlier one.                         *)
(***************************************************************************)
Born(c, i) ==
  \E t \in 1..MaxAttempts : \E n \in DOMAIN landed[c][t] : landed[c][t][n] = [at |-> i, existed |-> FALSE]

RowsTrue(c) == \A i \in DOMAIN rows[c] : rows[c][i] = "created" => Born(c, i)
CreatedTrue(c) ==
  created[c] /\ pc[c] \in {"sending", "waiting"} =>
    store[AddressOf(Current(c))] = Absent \/ Born(c, at[c])

Truthful ==
  /\ Settling
  /\ \A c \in Calls : Undisturbed(c) => RowsTrue(c) /\ CreatedTrue(c)

LEMMA InitTruthful == Init => Truthful
<1> SUFFICES ASSUME Init  PROVE Truthful
  OBVIOUS
<1>1. ASSUME NEW c \in Calls  PROVE RowsTrue(c) /\ CreatedTrue(c)
  BY DEF Init, RowsTrue, CreatedTrue
<1> QED  BY <1>1, InitSettling DEF Truthful

\* What landed is never forgotten.
LEMMA BornStays ==
  ASSUME TypeOK, [Next]_vars, NEW c \in Calls, NEW i, Born(c, i)  PROVE Born(c, i)'
<1>0. PICK t \in 1..MaxAttempts : \E n \in DOMAIN landed[c][t] : landed[c][t][n] = [at |-> i, existed |-> FALSE]
  BY DEF Born
<1>1. PICK n \in DOMAIN landed[c][t] : landed[c][t][n] = [at |-> i, existed |-> FALSE]
  BY <1>0
<1>2. CASE landed' = landed
  BY <1>1, <1>2 DEF Born
<1>3. ASSUME NEW r \in network, ServerApplies(r), landed' # landed  PROVE Born(c, i)'
  <2> DEFINE new == [at |-> r.at, existed |-> store[AddressOf(r.doc)] # Absent]
  <2>1. landed' = [landed EXCEPT ![r.call][r.attempt] = Append(@, new)]
    BY <1>3 DEF ServerApplies
  <2>2. new \in Landing /\ r.call \in Calls /\ r.attempt \in 1..MaxAttempts
    BY DEF TypeOK, Requests, Landing
  <2> HIDE DEF new
  <2>3. landed[c][t] \in Seq(Landing)
    BY DEF TypeOK
  <2>4. landed'[c][t] = landed[c][t] \/ landed'[c][t] = Append(landed[c][t], new)
    BY <2>1, <2>2 DEF TypeOK
  <2>5. n \in DOMAIN landed'[c][t] /\ landed'[c][t][n] = landed[c][t][n]
    BY <1>1, <2>2, <2>3, <2>4
  <2> QED  BY <1>1, <2>5 DEF Born
<1>4. landed' = landed \/ \E r \in network : ServerApplies(r)
  BY DEF Next, Start, Handler, Resolve, CheckExists, Send, GiveUp, Receive, ReceiveError,
     ServerRejects, RequestLost, ForeignWrite, vars
<1> QED  BY <1>2, <1>3, <1>4

\* The call itself takes a step.
LEMMA OwnStepTruthful ==
  ASSUME Truthful, [Next]_vars, NEW c \in Calls, Undisturbed(c), Start(c) \/ Handler(c)
  PROVE  RowsTrue(c)' /\ CreatedTrue(c)'
<1>0. /\ TypeOK /\ InStep /\ CallInStep(c) /\ LandedInStep(c) /\ Lasting(c) /\ RowsTrue(c) /\ CreatedTrue(c)
      /\ Settling
  BY DEF Truthful, Settling, Confined, InStep
<1>1. \A i : Born(c, i) => Born(c, i)'
  BY <1>0, BornStays
<1>2. CASE Start(c)
  <2>1. rows'[c] = <<>> /\ pc'[c] \in {"resolving", "answered"}
    BY <1>0, <1>2 DEF Start, TypeOK
  <2> QED  BY <2>1 DEF RowsTrue, CreatedTrue
<1>3. CASE Resolve(c) \/ GiveUp(c) \/ ReceiveError(c)
  <2>1. rows' = rows /\ pc'[c] \in {"checking", "answered"}
    BY <1>0, <1>3 DEF Resolve, GiveUp, ReceiveError, Fail, TypeOK
  <2> QED  BY <1>0, <1>1, <2>1 DEF RowsTrue, CreatedTrue
<1>4. CASE CheckExists(c)
  <2>1. rows' = rows /\ store' = store /\ docs' = docs /\ at' = at
    BY <1>4 DEF CheckExists, request
  <2>2. created'[c] => store[AddressOf(Current(c))] = Absent
    BY <1>0, <1>4 DEF CheckExists, TypeOK
  <2> QED  BY <1>0, <1>1, <2>1, <2>2 DEF RowsTrue, CreatedTrue, Current
<1>5. CASE Send(c)
  <2>1. rows' = rows /\ store' = store /\ docs' = docs /\ at' = at /\ created' = created /\ pc[c] = "sending"
    BY <1>5 DEF Send, request
  <2> QED  BY <1>0, <1>1, <2>1 DEF RowsTrue, CreatedTrue, Current
<1>6. CASE Receive(c)
  <2> DEFINE word == Action(input[c].dryRun, created[c])
  <2>1. rows'[c] = Append(rows[c], word) /\ pc'[c] \in {"resolving", "answered"} /\ pc[c] = "waiting" /\ reply[c] = "ok"
    BY <1>0, <1>6 DEF Receive, TypeOK
  <2>2. rows[c] \in Seq(Actions) /\ word \in Actions /\ at[c] \in Nat \ {0}
    BY <1>0, ActionType DEF TypeOK
  <2>3. Len(rows[c]) = at[c] - 1
    BY <1>0, <2>1 DEF CallInStep
  <2>4. ASSUME word = "created"  PROVE Born(c, at[c])
    <3>1. ~input[c].dryRun /\ created[c]
      BY <1>0, <2>4 DEF Action, TypeOK
    <3>2. Made(c) /\ attempt[c] \in 1..MaxAttempts
      BY <1>0, <2>1 DEF CallInStep, Made, TypeOK
    <3>3. Len(LandedNow(c)) = at[c] /\ LandedNow(c) \in Seq(Landing) /\ \A i \in DOMAIN LandedNow(c) : LandedNow(c)[i].at = i
      BY <1>0, <2>1, <3>1, <3>2 DEF LandedInStep, LandedNow, TypeOK
    <3>4. at[c] \in DOMAIN LandedNow(c)
      BY <2>2, <3>3
    <3>5. InEffect(c, at[c])
      BY <1>0, <3>2, <3>3, <3>4 DEF Lasting, LandedNow
    <3>6. store[AddressOf(Current(c))] # Absent
      BY <3>5 DEF InEffect, Current, Absent
    <3> QED  BY <1>0, <2>1, <3>1, <3>6 DEF CreatedTrue
  <2> HIDE DEF word
  <2>5. ASSUME NEW i \in DOMAIN rows'[c], rows'[c][i] = "created"  PROVE Born(c, i)
    <3>1. i \in 1..(Len(rows[c]) + 1)
      BY <2>1, <2>2, <2>5
    <3>2. CASE i = Len(rows[c]) + 1
      <4>1. rows'[c][i] = word /\ i = at[c]
        BY <2>1, <2>2, <2>3, <3>2
      <4> QED  BY <2>4, <2>5, <4>1
    <3>3. CASE i \in 1..Len(rows[c])
      <4>1. rows'[c][i] = rows[c][i] /\ i \in DOMAIN rows[c]
        BY <2>1, <2>2, <3>3
      <4> QED  BY <1>0, <2>5, <4>1 DEF RowsTrue
    <3> QED  BY <2>2, <3>1, <3>2, <3>3
  <2> QED  BY <1>1, <2>1, <2>5 DEF RowsTrue, CreatedTrue
<1> QED  BY <1>2, <1>3, <1>4, <1>5, <1>6 DEF Handler

\* The server carries a request out: of this call's, as it is undisturbed.
LEMMA ApplyTruthful ==
  ASSUME Truthful, [Next]_vars, NEW c \in Calls, Undisturbed(c), NEW r \in network, ServerApplies(r)
  PROVE  RowsTrue(c)' /\ CreatedTrue(c)'
<1>0. /\ TypeOK /\ CallInStep(c) /\ RowsTrue(c) /\ CreatedTrue(c) /\ Numbered(r)
  BY DEF Truthful, Settling, Confined, InStep
<1>1. \A i : Born(c, i) => Born(c, i)'
  BY <1>0, BornStays
<1>2. rows' = rows /\ docs' = docs /\ at' = at /\ created' = created /\ pc' = pc /\ answer' = answer
  BY DEF ServerApplies, request
<1>3. r.call \in Calls /\ r.attempt \in 1..MaxAttempts /\ r.doc \in Document /\ r.at \in Nat
  BY <1>0 DEF TypeOK, Requests
<1>4. r.call = c
  <2>1. docs[r.call] # <<>>
    BY <1>0 DEF Numbered
  <2> QED  BY <1>3, <2>1 DEF Undisturbed
<1> DEFINE a == AddressOf(r.doc)
           new == [at |-> r.at, existed |-> store[a] # Absent]
<1>5. RowsTrue(c)'
  BY <1>0, <1>1, <1>2 DEF RowsTrue
<1>6. ASSUME created[c], pc[c] \in {"sending", "waiting"}
      PROVE  store'[AddressOf(Current(c))] = Absent \/ Born(c, at[c])'
  <2>1. store[AddressOf(Current(c))] = Absent \/ Born(c, at[c])'
    BY <1>0, <1>1, <1>2, <1>6 DEF CreatedTrue
  <2>2. at[c] \in DOMAIN docs[c]
    <3>1. docs[c] \in Seq(Document) /\ at[c] \in Nat \ {0} /\ at[c] <= Len(docs[c])
      BY <1>0, <1>6 DEF TypeOK, CallInStep
    <3> QED  BY <3>1
  <2>3. a \in Address
    BY <1>3, AddressType
  <2>4. CASE store' = store
    BY <2>1, <2>4
  <2>5. CASE AddressOf(Current(c)) # a
    <3>1. store'[AddressOf(Current(c))] = store[AddressOf(Current(c))]
      <4>1. docs[c] \in Seq(Document)
        BY <1>0 DEF TypeOK
      <4>2. Current(c) \in Document
        BY <2>2, <4>1 DEF Current
      <4>3. AddressOf(Current(c)) \in Address
        BY <4>2, AddressType
      <4> QED  BY <1>0, <2>3, <2>5, <4>3 DEF ServerApplies, TypeOK
    <3> QED  BY <2>1, <3>1
  <2>6. CASE AddressOf(Current(c)) = a /\ store' # store /\ store[a] = Absent
    <3>1. r.at = at[c]
      BY <1>0, <1>4, <2>2, <2>6 DEF Undisturbed, Numbered, Current
    <3>2. landed' = [landed EXCEPT ![c][r.attempt] = Append(@, new)]
      BY <1>4, <2>6 DEF ServerApplies
    <3>3. new = [at |-> at[c], existed |-> FALSE] /\ new \in Landing
      BY <1>3, <2>6, <3>1 DEF Landing
    <3> HIDE DEF new
    <3>4. landed[c][r.attempt] \in Seq(Landing) /\ landed'[c][r.attempt] = Append(landed[c][r.attempt], new)
      BY <1>0, <1>3, <3>2 DEF TypeOK
    <3>5. PICK n \in DOMAIN landed'[c][r.attempt] : landed'[c][r.attempt][n] = new
      <4> DEFINE before == landed[c][r.attempt]
      <4>1. before \in Seq(Landing) /\ landed'[c][r.attempt] = Append(before, new)
        BY <3>4
      <4> HIDE DEF before
      <4>2. Len(before) + 1 \in DOMAIN Append(before, new) /\ Append(before, new)[Len(before) + 1] = new
        BY <3>3, <4>1
      <4> QED  BY <4>1, <4>2
    <3> QED  BY <1>2, <1>3, <3>3, <3>5 DEF Born
  <2> QED  BY <2>1, <2>4, <2>5, <2>6
<1> QED  BY <1>2, <1>5, <1>6 DEF CreatedTrue, Current

LEMMA NextTruthful == Truthful /\ [Next]_vars => Truthful'
<1> SUFFICES ASSUME Truthful, [Next]_vars, NEW c \in Calls, Undisturbed(c)'
             PROVE  RowsTrue(c)' /\ CreatedTrue(c)'
  BY NextSettling DEF Truthful
<1>0. TypeOK /\ Confined
  BY DEF Truthful, Settling, Confined, InStep
<1>1. Undisturbed(c) /\ RowsTrue(c) /\ CreatedTrue(c)
  BY <1>0, DocsStay DEF Truthful
<1>2. \A i : Born(c, i) => Born(c, i)'
  BY <1>0, BornStays
<1>3. CASE Start(c) \/ Handler(c)
  BY <1>1, <1>3, OwnStepTruthful
<1>4. ASSUME NEW r \in network, ServerApplies(r)  PROVE RowsTrue(c)' /\ CreatedTrue(c)'
  BY <1>1, <1>4, ApplyTruthful
<1>5. CASE /\ rows'[c] = rows[c] /\ docs'[c] = docs[c] /\ at'[c] = at[c] /\ created'[c] = created[c]
           /\ pc'[c] = pc[c] /\ store' = store
  BY <1>1, <1>2, <1>5 DEF RowsTrue, CreatedTrue, Current
<1>6. ASSUME NEW d \in Calls \ {c}, Start(d) \/ Handler(d)
      PROVE  /\ rows'[c] = rows[c] /\ docs'[c] = docs[c] /\ at'[c] = at[c] /\ created'[c] = created[c]
             /\ pc'[c] = pc[c] /\ store' = store
  <2>1. CASE Start(d)
    BY <1>0, <1>6, <2>1 DEF Start, TypeOK
  <2>2. CASE Handler(d)
    BY <1>0, <1>6, <2>2 DEF Handler, Resolve, CheckExists, Send, GiveUp, Receive, ReceiveError, Fail, request, TypeOK
  <2> QED  BY <1>6, <2>1, <2>2
<1>7. ASSUME NEW r \in network, ServerRejects(r) \/ RequestLost(r)
      PROVE  rows' = rows /\ docs' = docs /\ at' = at /\ created' = created /\ pc' = pc /\ store' = store
  BY <1>7 DEF ServerRejects, RequestLost, request
<1>8. ~ForeignWrite
  <2>1. foreign' = 0
    BY DEF Undisturbed
  <2> QED  BY <1>0, <2>1 DEF ForeignWrite, TypeOK
<1>9. CASE UNCHANGED vars
  BY <1>5, <1>9 DEF vars, request
<1> QED  BY <1>3, <1>4, <1>5, <1>6, <1>7, <1>8, <1>9 DEF Next

\* An object a success reports as created, the call created itself, for any
\* number of attempts and late requests, unless another client wrote
\* (write.go:112-127, 192-194).
THEOREM CreatedIsCreated == Spec => []CreatedIsTrue
<1>1. Truthful => CreatedIsTrue
  <2> SUFFICES ASSUME Truthful, NEW c \in Calls, answer[c].status = "ok", Undisturbed(c),
                      NEW i \in DOMAIN rows[c], rows[c][i] = "created"
               PROVE  \E t \in 1..attempt[c] : \E n \in DOMAIN landed[c][t] :
                        landed[c][t][n] = [at |-> i, existed |-> FALSE]
    BY DEF CreatedIsTrue
  <2>1. TypeOK /\ LandedInStep(c) /\ Born(c, i)
    BY DEF Truthful, Settling, Confined, InStep, RowsTrue
  <2>0. PICK t \in 1..MaxAttempts : \E n \in DOMAIN landed[c][t] : landed[c][t][n] = [at |-> i, existed |-> FALSE]
    BY <2>1 DEF Born
  <2>2. PICK n \in DOMAIN landed[c][t] : landed[c][t][n] = [at |-> i, existed |-> FALSE]
    BY <2>0
  <2>3. landed[c][t] # <<>>
    BY <2>2
  <2>4. ~(t > attempt[c]) /\ attempt[c] \in Nat
    BY <2>1, <2>2, <2>3 DEF LandedInStep, TypeOK
  <2>5. t \in 1..attempt[c]
    BY <2>2, <2>4
  <2> QED  BY <2>2, <2>5
<1> QED  BY <1>1, InitTruthful, NextTruthful, PTL DEF Spec
==============================================================================
