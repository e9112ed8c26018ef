-------------------------- MODULE CompositionCheck --------------------------
(***************************************************************************)
(* crossplane_composition_validate and crossplane_composition_render       *)
(* (pkg/toolsets/compositions/advanced.go, pkg/crossplane/validate.go,     *)
(* render.go, packages.go): would a Composition work on this control       *)
(* plane, and what would it produce?  Both read it, then the Functions,    *)
(* one request after the other, while others change either.                *)
(*                                                                         *)
(* A render writes files to a directory of its own and runs the crossplane *)
(* CLI on them, a process that may never end by itself.  When its two      *)
(* minutes are over, or the caller's deadline has passed, it is killed:    *)
(* it alone, not what it has started, and cmd.Run returns only when nobody *)
(* holds the pipes any more into which the CLI writes.  Another process,   *)
(* docker context inspect, runs before that without a deadline.            *)
(*                                                                         *)
(* A Composition is [type, mode, steps]: the API it composes (or           *)
(* "incomplete"), and steps of [name, function], "" where one is left out. *)
(***************************************************************************)
EXTENDS ControlPlane

VARIABLE check

\* "" and "none" stand for no API, no function and no Composition.
ASSUME CompositionsAssumption ==
  /\ "incomplete" \notin Range(APIs) /\ "" \notin Functions
  /\ \A c \in Compositions : /\ c.type \notin {"", "none"}
                             /\ c.steps \in Seq([name : STRING, function : Functions \cup {""}])

NoCheck ==
  [tool |-> "none", at |-> "idle", composition |-> [type |-> "none", mode |-> "", steps |-> <<>>],
   errors |-> {}, warnings |-> {}, blind |-> FALSE, dir |-> FALSE,
   expired |-> FALSE, cli |-> "none", heir |-> "none"]

CheckInit ==
  \E tool \in {"validate", "render"} : check = [NoCheck EXCEPT !.tool = tool, !.at = "asked"]

Checks(tool, at) == check.tool = tool /\ check.at = at
CheckGoes(to) == check' = [check EXCEPT !.at = to]

\* Both tools get the Composition first (a render also looks for the CLI on
\* PATH), or give up.
GetComposition ==
  /\ check.at = "asked"
  /\ \/ check' = [check EXCEPT !.at = "read", !.composition = composition]
     \/ CheckGoes("over")
  /\ UNCHANGED planeVars

Steps == Range(check.composition.steps)
Wanted == {s.function : s \in Steps} \ {""}
Installed == {f \in Functions : health[f] # "absent"}

------------------------------------------------------------------------------
(***************************************************************************)
(* ValidateComposition.                                                    *)
(***************************************************************************)
\* checkCompositeType: any failure to resolve the kind is an error finding,
\* a failure of discovery too (then the finding says nothing: blind).
CheckCompositeType ==
  /\ Checks("validate", "read")
  /\ LET type == check.composition.type
         found == IF type = "incomplete" THEN {} ELSE Matching(KindOf[type], type)
     IN \/ check' = [check EXCEPT
             !.at = "typed",
             !.errors = IF Cardinality(found) # 1 THEN {"type"} ELSE {},
             !.warnings = IF \E a \in found : CategoryOf[a] # "composite" THEN {"category"} ELSE {}]
        \/ check' = [check EXCEPT !.at = "typed", !.errors = {"type"}, !.blind = TRUE]
  /\ UNCHANGED planeVars

\* Mutated form: the name of a step is forgotten when the next one is looked at.
StepErrorsForgetful(steps) ==
  {"name" : s \in {t \in Range(steps) : t.name = ""}} \cup
  {"functionRef" : s \in {t \in Range(steps) : t.function = ""}} \cup
  {"function" : s \in {t \in Range(steps) : t.function \in Functions /\ health[t.function] # "True"}}

\* What is wrong with the steps of a pipeline.
StepErrors(steps) ==
  {"name" : s \in {t \in Range(steps) : t.name = ""}} \cup
  {"duplicate" : i \in {j \in DOMAIN steps : \E k \in 1..(j - 1) :
                           steps[j].name # "" /\ steps[k].name = steps[j].name}} \cup
  {"functionRef" : s \in {t \in Range(steps) : t.function = ""}} \cup
  {"function" : s \in {t \in Range(steps) : t.function \in Functions /\ health[t.function] # "True"}}

\* checkPipeline, and the verdict: valid when there is no error.
CheckPipeline ==
  /\ Checks("validate", "typed")
  /\ LET c == check.composition IN
     \/ /\ c.steps = <<>>
        /\ check' = [check EXCEPT !.at = "over",
                                  !.errors = @ \cup IF c.mode = "Pipeline" THEN {"empty"} ELSE {}]
     \/ /\ c.steps # <<>>
        /\ \/ check' = [check EXCEPT !.at = "over", !.errors = @ \cup StepErrors(c.steps)]
           \/ check' = [check EXCEPT !.at = "over", !.warnings = @ \cup {"unchecked"}]
  /\ UNCHANGED planeVars

------------------------------------------------------------------------------
(***************************************************************************)
(* Render.                                                                 *)
(***************************************************************************)
\* functionManifests: every Function the pipeline calls must be installed.
ListFunctions ==
  /\ Checks("render", "read")
  /\ \/ Wanted # {} /\ Wanted \subseteq Installed /\ CheckGoes("listed")
     \/ CheckGoes("over")    \* none called, one missing, or the request failed
  /\ UNCHANGED planeVars

MakeDirectory ==
  /\ Checks("render", "listed")
  /\ \/ check' = [check EXCEPT !.at = "writing", !.dir = TRUE]
     \/ CheckGoes("over")
  /\ UNCHANGED planeVars

WriteFiles ==
  /\ Checks("render", "writing")
  /\ CheckGoes("written") \/ CheckGoes("leaving")
  /\ UNCHANGED planeVars

\* From here on the two minutes run; the caller's deadline does anyway.
Deadline ==
  /\ check.tool = "render" /\ check.at \in {"written", "inspecting", "ready", "running"}
  /\ ~check.expired
  /\ check' = [check EXCEPT !.expired = TRUE]
  /\ UNCHANGED planeVars

\* renderEnvironment: where DOCKER_HOST is not set and docker is on PATH it is
\* asked, and answers or fails in its own time: exec.Command has no context.
Environment ==
  /\ Checks("render", "written")
  /\ CheckGoes("ready") \/ CheckGoes("inspecting")
  /\ UNCHANGED planeVars

DockerAnswers ==
  /\ Checks("render", "inspecting") /\ CheckGoes("ready")
  /\ UNCHANGED planeVars

\* cmd.Start, which looks at the context first, and may fail for other reasons.
StartCLI ==
  /\ Checks("render", "ready")
  /\ \/ ~check.expired /\ check' = [check EXCEPT !.at = "running", !.cli = "alive"]
     \/ CheckGoes("leaving")
  /\ UNCHANGED planeVars

\* The CLI starts a process of its own, which inherits the pipes; one stands
\* for all of them.
CLIForks ==
  /\ check.cli = "alive" /\ check.heir = "none"
  /\ check' = [check EXCEPT !.heir = "alive"]
  /\ UNCHANGED planeVars

\* The CLI ends by itself, with an answer or without one.
CLIEnds ==
  /\ check.cli = "alive"
  /\ check' = [check EXCEPT !.cli = "gone"]
  /\ UNCHANGED planeVars

\* That process ends, or closes the pipes.
HeirEnds ==
  /\ check.heir = "alive"
  /\ check' = [check EXCEPT !.heir = "gone"]
  /\ UNCHANGED planeVars

\* Mutated form: exec.Command, without the context.
KillNothing == FALSE /\ UNCHANGED <<check, planeVars>>

\* exec.CommandContext kills the CLI, and nobody else.
KillCLI ==
  /\ check.cli = "alive" /\ check.expired
  /\ check' = [check EXCEPT !.cli = "gone"]
  /\ UNCHANGED planeVars

\* cmd.Run has waited for the CLI and, since its output goes to buffers and
\* WaitDelay is not set, for the other ends of the pipes to be closed.
RunReturns ==
  /\ Checks("render", "running") /\ check.cli = "gone" /\ check.heir # "alive"
  /\ CheckGoes("leaving")
  /\ UNCHANGED planeVars

\* The deferred call.
RemoveDirectory ==
  /\ Checks("render", "leaving")
  /\ check' = [check EXCEPT !.at = "over", !.dir = FALSE]
  /\ UNCHANGED planeVars

ValidateNext == GetComposition \/ CheckCompositeType \/ CheckPipeline
RenderNext ==
  \/ ListFunctions \/ MakeDirectory \/ WriteFiles
  \/ Deadline \/ Environment \/ DockerAnswers \/ StartCLI
  \/ CLIForks \/ CLIEnds \/ HeirEnds \/ KillCLI \/ RunReturns
  \/ RemoveDirectory
CheckNext == ValidateNext \/ RenderNext

\* A call of either tool on any control plane.
CheckSpec ==
  PlaneInit /\ CheckInit /\ [][CheckNext \/ (PlaneChanges /\ UNCHANGED check)]_<<planeVars, check>>

\* The server's own process goes on, and time passes.  No other process owes
\* anything: docker need not answer, nor the CLI or what it has started end.
RenderFairness ==
  /\ WF_check(GetComposition) /\ WF_check(ListFunctions)
  /\ WF_check(MakeDirectory) /\ WF_check(WriteFiles) /\ WF_check(Environment)
  /\ WF_check(Deadline) /\ WF_check(StartCLI) /\ WF_check(KillCLI)
  /\ WF_check(RunReturns) /\ WF_check(RemoveDirectory)
------------------------------------------------------------------------------
\* Crossplane can select the Composition (whatever the version it names) and
\* run its pipeline.
Works(c) ==
  /\ c.type \in Offers(xrd) /\ CategoryOf[c.type] = "composite"
  /\ c.mode = "Pipeline" => c.steps # <<>>
  /\ \A s \in Range(c.steps) : s.name # "" /\ s.function \in Functions
  /\ \A i, j \in DOMAIN c.steps : c.steps[i].name = c.steps[j].name => i = j
  /\ \A s \in Range(c.steps) : health[s.function] = "True"

\* "could this Composition work here?" (validate.go:33): on a control plane
\* nobody changes and whose APIs the server knows, a Composition that works
\* has no error, and one without a finding works; that the functions were not
\* checked is a finding.  When discovery fails the error about the type is
\* worth nothing (validate.go:78-82).
VerdictIsRight ==
  Checks("validate", "over") /\ check.composition.type # "none"
    /\ events = 0 /\ known = SnapshotOf(xrd) /\ ~check.blind
  => /\ Works(check.composition) => check.errors = {}
     /\ check.errors \cup check.warnings = {} => Works(check.composition)

\* What a render may wait for without end: docker, or a process the CLI has
\* left behind with its pipes, even after the CLI was killed.
WaitsForDocker == Checks("render", "inspecting")
WaitsForHeir == Checks("render", "running") /\ check.cli = "gone" /\ check.heir = "alive"

\* A render is over at last and leaves no directory behind, unless it waits
\* for docker, or for a process that has outlived the CLI, and does so for
\* ever; a CLI that never ends is no reason, whatever it has started and
\* whenever the deadline passes (render.go:24-26, 84-109, 147).
RenderEnds ==
  check.tool = "render" =>
    <>[](check.at = "over" /\ ~check.dir) \/ <>[]WaitsForDocker \/ <>[]WaitsForHeir

(***************************************************************************)
(* What of RenderEnds is no matter of fairness: a call has so many steps   *)
(* to go, its deadline and its processes' included, and does not end       *)
(* before its directory is gone.                                           *)
(***************************************************************************)
StepsOfCall ==
  CASE check.at = "asked" -> 9
    [] check.at = "read" -> 8
    [] check.at \in {"typed", "listed"} -> 7
    [] check.at = "writing" -> 6
    [] check.at = "written" -> 5
    [] check.at = "inspecting" -> 4
    [] check.at = "ready" -> 3
    [] check.at = "running" -> 2
    [] check.at = "leaving" -> 1
    [] OTHER -> 0

StepsOfProcess(is) == CASE is = "none" -> 2 [] is = "alive" -> 1 [] OTHER -> 0

StepsToGo ==
  StepsOfCall + StepsOfProcess(check.cli) + StepsOfProcess(check.heir) + IF check.expired THEN 0 ELSE 1

\* Nothing a call does takes it back: no stage is repeated, whatever fails, is
\* changed meanwhile or ends first (render.go:49-126, validate.go:58-171).
CheckGoesDown == [][StepsToGo' < StepsToGo]_check

\* On whichever path a call ends, it ends without a directory, and without one
\* there is no process that was started in it and still holds the pipes of the
\* render (render.go:84-109).
NothingIsLeft ==
  /\ check.at = "over" => ~check.dir
  /\ "alive" \in {check.cli, check.heir} => check.dir
==============================================================================
