----------------------------- MODULE BuildPipe -----------------------------
(***************************************************************************)
(* internal/pipe/build: Run goes over the builds and hands the targets of  *)
(* each to a group of ctx.Parallelism tasks; a builder that does not allow *)
(* concurrent builds gets one task, which runs its targets through a group *)
(* of one. A task runs the pre hooks, the builder's tool, copies the       *)
(* binary to dist when the tool left it elsewhere, registers it and runs   *)
(* the post hooks.                                                         *)
(***************************************************************************)
EXTENDS Builders, Naturals, Sequences, FiniteSets

CONSTANTS
  Builds,    \* ctx.Config.Builds: builder, working directory, binary, targets, skip
  CleanName, \* Target.clean of the Rust builder: the target less its glibc version
  Limit,     \* ctx.Parallelism
  Partials   \* what --split may ask for: "" for everything, or one target

Indices == 1..Len(Builds)
Targets == DOMAIN CleanName

ASSUME BuildAssumption ==
  /\ Builds \in Seq([builder : BuilderRecord, dir : STRING, binary : STRING,
                     targets : Seq(Targets), skip : BOOLEAN])
  /\ IsFiniteSet(Targets) /\ CleanName \in [Targets -> Targets]
  /\ \A b \in Indices : \A i, j \in 1..Len(Builds[b].targets) :
       Builds[b].targets[i] = Builds[b].targets[j] => i = j
  /\ Limit \in Nat \ {0}
  /\ Partials \subseteq Targets \cup {""}

VARIABLES
  partial,   \* the target this run is limited to
  loop,      \* where Run is: "build", "targets", "nest", "done"
  cur,       \* the build it is at
  ready,     \* builds whose builder is prepared
  next,      \* per build: the target to submit next
  nested,    \* per build: its task of its own: "none", "active", "done"
  job,       \* per build and target: where its task is
  workspace, \* whose binary each place a tool writes to holds
  artifacts, \* ctx.Artifacts: what was registered, and whose binary that is
  result     \* what Run answered

vars == <<partial, loop, cur, ready, next, nested, job, workspace, artifacts, result>>

Jobs == Indices \X Targets
Active == {j \in Jobs : job[j] \notin {"new", "ok", "failed"}}
ActiveOf(b) == {j \in Active : j[1] = b}

(* filter: all the targets of a build, or the one that was asked for.      *)
Has(b, t) == \E i \in 1..Len(Builds[b].targets) : Builds[b].targets[i] = t

Selected(b) ==
  IF partial = "" THEN Builds[b].targets
  ELSE IF Has(b, partial) THEN <<partial>> ELSE <<>>

(* Where the tool of a build puts the binary for a target. IDs of builds   *)
(* are unique, so dist has a directory per build and target; a build that  *)
(* gives it up (no_unique_dist_dir) is taken to name its binaries apart.   *)
Place(j) ==
  LET b == Builds[j[1]] IN
  CASE b.builder.leaves = "dist" -> <<"dist", j[1], j[2]>>
    [] b.builder.leaves = "target" -> <<b.dir, b.binary, j[2]>>
    [] b.builder.leaves = "clean" -> <<b.dir, b.binary, CleanName[j[2]]>>

Places == {Place(j) : j \in Jobs}

Init ==
  /\ partial \in Partials
  /\ loop = "build" /\ cur = 1
  /\ ready = {}
  /\ next = [b \in Indices |-> 1]
  /\ nested = [b \in Indices |-> "none"]
  /\ job = [j \in Jobs |-> "new"]
  /\ workspace = [p \in Places |-> <<>>]
  /\ artifacts = {}
  /\ result = "none"
-----------------------------------------------------------------------------
AllowParallelism_Always(b) == TRUE
AllowParallelism(b) == Builds[b].builder.concurrent

(* Tokens of the outer group: tasks of its own, and one per nested group.  *)
Own == {j \in Active : AllowParallelism(j[1])}
Nests == {b \in Indices : nested[b] = "active"}
Taken == Cardinality(Own) + Cardinality(Nests)

HasRoom == Taken < Limit

AtBuild == loop = "build" /\ cur <= Len(Builds)
TasksStay == UNCHANGED <<partial, job, workspace, artifacts>>

SkipBuild ==
  /\ AtBuild /\ Builds[cur].skip
  /\ cur' = cur + 1
  /\ UNCHANGED <<loop, ready, next, nested, result>> /\ TasksStay

GiveUp == loop' = "done" /\ result' = "err" /\ UNCHANGED cur

(* The skip template is invalid, or the builder cannot be prepared: Run    *)
(* returns at once, whatever its groups are still doing.                   *)
BuildFails ==
  /\ AtBuild
  /\ ~Builds[cur].skip => Builds[cur].builder.prepares
  /\ GiveUp
  /\ UNCHANGED <<ready, next, nested>> /\ TasksStay

Prepare ==
  /\ AtBuild /\ ~Builds[cur].skip
  /\ ready' = ready \cup {cur}
  /\ loop' = IF AllowParallelism(cur) THEN "targets" ELSE "nest"
  /\ UNCHANGED <<cur, next, nested, result>> /\ TasksStay

Start(b) ==
  /\ next[b] <= Len(Selected(b))
  /\ job' = [job EXCEPT ![<<b, Selected(b)[next[b]]>>] = "pre"]
  /\ next' = [next EXCEPT ![b] = @ + 1]
  /\ UNCHANGED <<partial, workspace, artifacts>>

(* runPipeOnBuild on the outer group: Go blocks while it is full.          *)
Submit ==
  /\ loop = "targets" /\ HasRoom
  /\ Start(cur)
  /\ UNCHANGED <<loop, cur, ready, nested, result>>

Submitted ==
  /\ loop = "targets" /\ next[cur] > Len(Selected(cur))
  /\ loop' = "build" /\ cur' = cur + 1
  /\ UNCHANGED <<ready, next, nested, result>> /\ TasksStay

SubmitNested ==
  /\ loop = "nest" /\ HasRoom
  /\ nested' = [nested EXCEPT ![cur] = "active"]
  /\ loop' = "build" /\ cur' = cur + 1
  /\ UNCHANGED <<ready, next, result>> /\ TasksStay

(* runPipeOnBuild on a group of one, in the goroutine of the build.        *)
InnerRoom(b) == ActiveOf(b) = {}

NestedGo(b) ==
  /\ nested[b] = "active"
  /\ InnerRoom(b)
  /\ Start(b)
  /\ UNCHANGED <<loop, cur, ready, nested, result>>

InnerOver_AllOK(b) ==
  /\ next[b] > Len(Selected(b))
  /\ \A i \in 1..Len(Selected(b)) : job[<<b, Selected(b)[i]>>] = "ok"
InnerOver(b) == next[b] > Len(Selected(b)) /\ ActiveOf(b) = {}

NestedWait(b) ==
  /\ nested[b] = "active"
  /\ InnerOver(b)
  /\ nested' = [nested EXCEPT ![b] = "done"]
  /\ UNCHANGED <<loop, cur, ready, next, result>> /\ TasksStay

Over_OwnTasks == \A j \in Active : ~AllowParallelism(j[1])
Over == Active = {} /\ \A b \in Indices : nested[b] # "active"

Verdict_SomeOK == IF \E j \in Jobs : job[j] = "ok" THEN "ok" ELSE "err"
Verdict == IF \E j \in Jobs : job[j] = "failed" THEN "err" ELSE "ok"

Wait ==
  /\ loop = "build" /\ cur > Len(Builds)
  /\ Over
  /\ loop' = "done" /\ result' = Verdict
  /\ UNCHANGED <<cur, ready, next, nested>> /\ TasksStay
-----------------------------------------------------------------------------
(* A task: buildTarget.                                                    *)
Goes(j, from, to) == job[j] = from /\ job' = [job EXCEPT ![j] = to]
RunStays == UNCHANGED <<partial, loop, cur, ready, next, nested, result>>

(* Parse, the template of the path, the directory or a pre hook failed, or *)
(* none of them did.                                                       *)
PreHook(j) ==
  /\ Goes(j, "pre", "tool") \/ Goes(j, "pre", "failed")
  /\ RunStays /\ UNCHANGED <<workspace, artifacts>>

(* The tool writes its output, and may fail before or after it did.        *)
Tool(j) ==
  /\ \/ Goes(j, "tool", "collect") /\ workspace' = [workspace EXCEPT ![Place(j)] = j]
     \/ Goes(j, "tool", "failed") /\ workspace' \in
          {workspace, [workspace EXCEPT ![Place(j)] = j]}
  /\ RunStays /\ UNCHANGED artifacts

(* What is where the tool should have put it is copied and registered. A   *)
(* target stands for one binary; Go's builder can make several of them.    *)
Collect(j) ==
  /\ \/ /\ Goes(j, "collect", "post")
        /\ artifacts' = artifacts \cup {[of |-> j, holds |-> workspace[Place(j)]]}
     \/ Goes(j, "collect", "failed") /\ UNCHANGED artifacts
  /\ RunStays /\ UNCHANGED workspace

PostHook(j) ==
  /\ Goes(j, "post", "ok") \/ Goes(j, "post", "failed")
  /\ RunStays /\ UNCHANGED <<workspace, artifacts>>

Run ==
  \/ SkipBuild \/ BuildFails \/ Prepare \/ Submit \/ Submitted \/ SubmitNested \/ Wait

Task(b) ==
  \/ NestedGo(b) \/ NestedWait(b)
  \/ \E t \in Targets : LET j == <<b, t>> IN
       PreHook(j) \/ Tool(j) \/ Collect(j) \/ PostHook(j)

Next == Run \/ \E b \in Indices : Task(b)

Spec == Init /\ [][Next]_vars

(* Goroutines are scheduled; tools and hooks run under the context's       *)
(* timeout. After an early return the process may end before they do.      *)
FairSpec ==
  /\ Spec /\ WF_vars(Run)
  /\ \A b \in Indices : WF_vars(loop # "done" /\ Task(b))
-----------------------------------------------------------------------------
TypeOK ==
  /\ partial \in Partials
  /\ loop \in {"build", "targets", "nest", "done"}
  /\ cur \in 1..Len(Builds) + 1
  /\ ready \subseteq Indices
  /\ \A b \in Indices : next[b] \in 1..Len(Builds[b].targets) + 1
  /\ nested \in [Indices -> {"none", "active", "done"}]
  /\ Taken \in 0..Limit
  /\ job \in [Jobs -> {"new", "pre", "tool", "collect", "post", "ok", "failed"}]
  /\ workspace \in [Places -> Jobs \cup {<<>>}]
  /\ artifacts \subseteq [of : Jobs, holds : Jobs \cup {<<>>}]
  /\ result \in {"none", "ok", "err"}

(* No more than ctx.Parallelism targets are built at a time, those of the  *)
(* builds with a group of their own included.                              *)
ParallelismKept == Cardinality(Active) <= Limit

(* The binary registered for a target is the one its own task made, not    *)
(* one another task left at the same place in the meantime.                *)
BinaryIsOwn == \A a \in artifacts : a.holds = a.of

(* Success means that every selected target of every build that is not     *)
(* skipped went through all its steps and is registered.                   *)
SuccessIsComplete ==
  result = "ok" =>
    \A b \in Indices : ~Builds[b].skip =>
      \A i \in 1..Len(Selected(b)) :
        LET j == <<b, Selected(b)[i]>> IN
          job[j] = "ok" /\ \E a \in artifacts : a.of = j

(* A target is not built before its builder is prepared, and no build is   *)
(* begun after one that could not be.                                      *)
PreparedFirst ==
  \A j \in Jobs : job[j] # "new" =>
    \A b \in 1..j[1] : ~Builds[b].skip => b \in ready

(* Once Run answered with success no task of it changes the registry under *)
(* the pipes that come after it.                                           *)
QuietAfterSuccess == [][result = "ok" => UNCHANGED <<artifacts, workspace>>]_vars

(* Run answers: a nested group never waits for a task that its own token   *)
(* keeps out.                                                              *)
Ends == <>(loop = "done")

=============================================================================
