-------------------------- MODULE BuildPipe_proofs --------------------------
(***************************************************************************)
(* Theorems about BuildPipe, for every project, every number of tokens and *)
(* every place the builders' tools may write to.                           *)
(***************************************************************************)
EXTENDS BuildPipe, FiniteSetTheorems, TLAPS

Types ==
  /\ partial \in Partials
  /\ loop \in {"build", "targets", "nest", "done"}
  /\ cur \in 1..Len(Builds) + 1
  /\ ready \subseteq Indices
  /\ next \in [Indices -> Nat \ {0}]
  /\ nested \in [Indices -> {"none", "active", "done"}]
  /\ job \in [Jobs -> {"new", "pre", "tool", "collect", "post", "ok", "failed"}]
  /\ workspace \in [Places -> Jobs \cup {<<>>}]
  /\ artifacts \subseteq [of : Jobs, holds : Jobs \cup {<<>>}]
  /\ result \in {"none", "ok", "err"}

(* Where Run is, and what it did about the builds before that.             *)
Progress ==
  /\ loop \in {"targets", "nest"} => cur \in Indices /\ cur \in ready
  /\ loop = "targets" => AllowParallelism(cur)
  /\ loop = "nest" => ~AllowParallelism(cur)
  /\ \A b \in Indices : b < cur /\ ~Builds[b].skip => b \in ready
  /\ \A b \in Indices : nested[b] # "none" => ~AllowParallelism(b) /\ b < cur
  /\ \A b \in Indices : next[b] > 1 => b < cur \/ (b = cur /\ loop = "targets")
  /\ result # "none" <=> loop = "done"

(* The targets that were submitted are the first ones of those selected.   *)
Submitting ==
  \A b \in Indices :
    /\ next[b] <= Len(Selected(b)) + 1
    /\ \A i \in 1..Len(Selected(b)) : i < next[b] <=> job[<<b, Selected(b)[i]>>] # "new"
    /\ \A t \in Targets : job[<<b, t>>] # "new" =>
         \E i \in 1..Len(Selected(b)) : Selected(b)[i] = t

(* A build with a group of its own has one task under way, and only while  *)
(* its nested group has not been waited for.                               *)
Nesting ==
  /\ \A j, k \in Active : j[1] = k[1] /\ ~AllowParallelism(j[1]) => j = k
  /\ \A j \in Active : ~AllowParallelism(j[1]) => nested[j[1]] = "active"

Tokens == Taken <= Limit

(* A build that Run is past has been handed to a group to the end.         *)
Handed ==
  \A b \in Indices : b < cur /\ ~Builds[b].skip =>
    IF AllowParallelism(b) THEN next[b] > Len(Selected(b))
    ELSE nested[b] \in {"active", "done"}

Waited == \A b \in Indices : nested[b] = "done" => next[b] > Len(Selected(b))

Registered ==
  \A j \in Jobs : job[j] \in {"post", "ok"} => \E a \in artifacts : a.of = j

(* A success is answered when everything is over.                          *)
AllOver ==
  result = "ok" =>
    Over /\ cur > Len(Builds) /\ \A j \in Jobs : job[j] # "failed"

IInv ==
  /\ Types /\ Progress /\ Submitting /\ Nesting /\ Tokens
  /\ Handed /\ Waited /\ Registered /\ AllOver
-----------------------------------------------------------------------------
LEMMA Elements ==
  ASSUME NEW S, NEW s \in Seq(S)
  PROVE  Len(s) \in Nat /\ \A i \in 1..Len(s) : s[i] \in S
  OBVIOUS

LEMMA Numbers ==
  /\ Len(Builds) \in Nat /\ Limit \in Nat \ {0}
  /\ IsFiniteSet(Targets)
  /\ \A b \in Indices : Builds[b].targets \in Seq(Targets)
<1> DEFINE R == [builder : BuilderRecord, dir : STRING, binary : STRING,
                 targets : Seq(Targets), skip : BOOLEAN]
<1>1. Builds \in Seq(R)
  BY BuildAssumption
<1>2. \A r \in R : r.targets \in Seq(Targets)
  OBVIOUS
<1> HIDE DEF R
<1>3. Len(Builds) \in Nat /\ \A b \in 1..Len(Builds) : Builds[b] \in R
  BY <1>1, Elements
<1> QED
  BY <1>2, <1>3, BuildAssumption DEF Indices

(* What is selected are targets of the build, none of them twice.          *)
LEMMA SelectedTargets ==
  ASSUME NEW b \in Indices
  PROVE  /\ Len(Selected(b)) \in Nat
         /\ Len(Builds[b].targets) \in Nat
         /\ Len(Selected(b)) <= Len(Builds[b].targets)
         /\ \A i \in 1..Len(Selected(b)) : Selected(b)[i] \in Targets
         /\ \A i, k \in 1..Len(Selected(b)) : Selected(b)[i] = Selected(b)[k] => i = k
<1>1. Builds[b].targets \in Seq(Targets)
  BY Numbers
<1>2. \A i, k \in 1..Len(Builds[b].targets) :
        Builds[b].targets[i] = Builds[b].targets[k] => i = k
  BY BuildAssumption
<1>3. CASE partial = ""
  <2>1. Selected(b) = Builds[b].targets
    BY <1>3 DEF Selected
  <2> QED
    BY <1>1, <1>2, <2>1, Elements
<1>4. CASE partial # "" /\ Has(b, partial)
  <2>1. Selected(b) = <<partial>>
    BY <1>4 DEF Selected
  <2>2. /\ partial \in Targets /\ Len(Builds[b].targets) \in Nat
        /\ 1 <= Len(Builds[b].targets)
    <3>1. PICK i \in 1..Len(Builds[b].targets) : Builds[b].targets[i] = partial
      BY <1>4 DEF Has
    <3>2. Len(Builds[b].targets) \in Nat /\ Builds[b].targets[i] \in Targets
      BY <1>1, Elements
    <3> QED
      BY <3>1, <3>2
  <2> QED
    BY <2>1, <2>2
<1>5. CASE partial # "" /\ ~Has(b, partial)
  <2>1. Selected(b) = <<>> /\ Len(Builds[b].targets) \in Nat
    BY <1>1, <1>5, Elements DEF Selected
  <2> QED
    BY <2>1
<1> QED
  BY <1>3, <1>4, <1>5

LEMMA JobsFinite == IsFiniteSet(Indices) /\ IsFiniteSet(Jobs)
<1>1. IsFiniteSet(Indices)
  BY Numbers, FS_Interval DEF Indices
<1> QED
  BY <1>1, Numbers, FS_Product DEF Jobs

LEMMA Finite ==
  /\ IsFiniteSet(Active) /\ IsFiniteSet(Own) /\ IsFiniteSet(Nests)
  /\ Cardinality(Own) \in Nat /\ Cardinality(Nests) \in Nat
<1>1. Active \subseteq Jobs /\ Own \subseteq Active /\ Nests \subseteq Indices
  BY DEF Active, Own, Nests
<1>2. IsFiniteSet(Active) /\ IsFiniteSet(Own) /\ IsFiniteSet(Nests)
  BY <1>1, JobsFinite, FS_Subset
<1> QED
  BY <1>2, FS_CardinalityType

(* Nothing new under way: no token is taken.                               *)
LEMMA TokensReturned ==
  ASSUME Tokens, Own' \subseteq Own, Nests' \subseteq Nests PROVE Tokens'
<1>1. /\ Cardinality(Own') <= Cardinality(Own) /\ Cardinality(Own') \in Nat
      /\ Cardinality(Nests') <= Cardinality(Nests) /\ Cardinality(Nests') \in Nat
  BY Finite, FS_Subset, FS_CardinalityType
<1> QED
  BY <1>1, Finite, Numbers DEF Tokens, Taken
-----------------------------------------------------------------------------
LEMMA InvInit == Init => IInv
<1> SUFFICES ASSUME Init PROVE IInv
  OBVIOUS
<1>1. Active = {} /\ Own = {} /\ Nests = {}
  BY DEF Init, Active, Own, Nests
<1>2. Types
  <2>1. cur \in 1..Len(Builds) + 1
    BY Numbers DEF Init
  <2>2. next \in [Indices -> Nat \ {0}] /\ nested \in [Indices -> {"none", "active", "done"}]
    BY DEF Init
  <2>3. job \in [Jobs -> {"new", "pre", "tool", "collect", "post", "ok", "failed"}]
    BY DEF Init
  <2>4. workspace \in [Places -> Jobs \cup {<<>>}]
    BY DEF Init
  <2> QED
    BY <2>1, <2>2, <2>3, <2>4 DEF Init, Types
<1>3. Progress
  BY DEF Init, Progress, Indices
<1>4. Submitting
  <2> SUFFICES ASSUME NEW b \in Indices
               PROVE  /\ next[b] <= Len(Selected(b)) + 1
                      /\ \A i \in 1..Len(Selected(b)) :
                           i < next[b] <=> job[<<b, Selected(b)[i]>>] # "new"
                      /\ \A t \in Targets : job[<<b, t>>] = "new"
    BY DEF Submitting
  <2>1. \A t \in Targets : job[<<b, t>>] = "new"
    BY DEF Init, Jobs
  <2> QED
    BY <2>1, SelectedTargets DEF Init
<1>5. Tokens
  BY <1>1, FS_EmptySet, Numbers DEF Tokens, Taken
<1>6. Nesting /\ Waited /\ Registered /\ AllOver /\ Handed
  BY <1>1 DEF Init, Nesting, Waited, Registered, AllOver, Handed, Indices
<1> QED
  BY <1>2, <1>3, <1>4, <1>5, <1>6 DEF IInv

(* What no step of Run does to the tasks.                                  *)
LEMMA TasksUntouched ==
  ASSUME IInv, TasksStay, next' = next
  PROVE  /\ Active' = Active /\ Own' = Own
         /\ Submitting' /\ Registered'
         /\ \A b \in Indices : Selected(b)' = Selected(b)
<1>1. Active' = Active /\ Own' = Own
  BY DEF TasksStay, Active, Own
<1>2. \A b \in Indices : Selected(b)' = Selected(b)
  BY DEF TasksStay, Selected
<1>3. Submitting'
  BY <1>2 DEF IInv, Submitting, TasksStay
<1>4. Registered'
  BY DEF IInv, Registered, TasksStay
<1> QED
  BY <1>1, <1>2, <1>3, <1>4

LEMMA InvLoop ==
  ASSUME IInv, SkipBuild \/ BuildFails \/ Prepare \/ Submitted \/ SubmitNested \/ Wait
  PROVE  IInv'
<1>1. TasksStay /\ next' = next
  BY DEF SkipBuild, BuildFails, Prepare, Submitted, SubmitNested, Wait
<1>2. /\ Active' = Active /\ Own' = Own /\ Submitting' /\ Registered'
      /\ \A b \in Indices : Selected(b)' = Selected(b)
  BY <1>1, TasksUntouched
<1>3. CASE SkipBuild
  <2>1. Types' /\ Progress'
    BY <1>3, Numbers DEF SkipBuild, AtBuild, TasksStay, IInv, Types, Progress, Indices
  <2>2. Nesting' /\ Waited'
    BY <1>2, <1>3 DEF SkipBuild, IInv, Nesting, Waited
  <2>3. Tokens'
    BY <1>2, <1>3, TokensReturned DEF SkipBuild, IInv, Nests
  <2>4. Handed'
    BY <1>2, <1>3 DEF SkipBuild, AtBuild, IInv, Types, Handed, Indices
  <2>5. AllOver'
    BY <1>3 DEF SkipBuild, AtBuild, IInv, Progress, AllOver
  <2> QED
    BY <1>2, <2>1, <2>2, <2>3, <2>4, <2>5 DEF IInv
<1>4. CASE BuildFails
  <2>1. Types' /\ Progress'
    BY <1>4, Numbers DEF BuildFails, AtBuild, TasksStay, IInv, Types, Progress, Indices, GiveUp
  <2>2. Nesting' /\ Waited'
    BY <1>2, <1>4 DEF BuildFails, GiveUp, IInv, Types, Progress, Nesting, Waited
  <2>3. Tokens'
    BY <1>2, <1>4, TokensReturned DEF BuildFails, GiveUp, IInv, Nests
  <2>4. Handed'
    BY <1>2, <1>4 DEF BuildFails, GiveUp, AtBuild, IInv, Types, Progress, Handed, Indices
  <2>5. AllOver'
    BY <1>2, <1>4 DEF BuildFails, GiveUp, AtBuild, IInv, Types, Progress, AllOver, GiveUp
  <2> QED
    BY <1>2, <2>1, <2>2, <2>3, <2>4, <2>5 DEF IInv
<1>5. CASE Prepare
  <2>1. Types' /\ Progress'
    BY <1>5, Numbers DEF Prepare, AtBuild, TasksStay, IInv, Types, Progress, Indices
  <2>2. Nesting' /\ Waited'
    BY <1>2, <1>5 DEF Prepare, IInv, Types, Progress, Nesting, Waited
  <2>3. Tokens'
    BY <1>2, <1>5, TokensReturned DEF Prepare, IInv, Nests
  <2>4. Handed'
    BY <1>2, <1>5 DEF Prepare, AtBuild, IInv, Types, Progress, Handed, Indices
  <2>5. AllOver'
    BY <1>2, <1>5 DEF Prepare, AtBuild, IInv, Types, Progress, AllOver
  <2> QED
    BY <1>2, <2>1, <2>2, <2>3, <2>4, <2>5 DEF IInv
<1>6. CASE Submitted
  <2>1. Types' /\ Progress'
    BY <1>6, Numbers DEF Submitted, AtBuild, TasksStay, IInv, Types, Progress, Indices
  <2>2. Nesting' /\ Waited'
    BY <1>2, <1>6 DEF Submitted, IInv, Types, Progress, Nesting, Waited
  <2>3. Tokens'
    BY <1>2, <1>6, TokensReturned DEF Submitted, IInv, Nests
  <2>4. Handed'
    BY <1>2, <1>6 DEF Submitted, AtBuild, IInv, Types, Progress, Handed, Indices
  <2>5. AllOver'
    BY <1>2, <1>6 DEF Submitted, AtBuild, IInv, Types, Progress, AllOver
  <2> QED
    BY <1>2, <2>1, <2>2, <2>3, <2>4, <2>5 DEF IInv
<1>7. CASE SubmitNested
  <2>1. Types' /\ Progress'
    BY <1>7, Numbers DEF SubmitNested, TasksStay, IInv, Types, Progress, Indices
  <2>2. Nesting' /\ Waited'
    BY <1>2, <1>7 DEF SubmitNested, IInv, Types, Progress, Nesting, Waited
  <2>3. Tokens'
    <3>1. cur \in Indices /\ nested[cur] = "none"
      BY <1>7 DEF SubmitNested, IInv, Types, Progress, Indices
    <3>2. Nests' = Nests \cup {cur} /\ cur \notin Nests
      BY <1>7, <3>1 DEF SubmitNested, IInv, Types, Nests
    <3>3. Cardinality(Nests') = Cardinality(Nests) + 1
      BY <3>2, Finite, FS_AddElement
    <3> QED
      BY <1>2, <1>7, <3>3, Finite, Numbers DEF SubmitNested, HasRoom, Tokens, Taken
  <2>4. Handed'
    BY <1>2, <1>7 DEF SubmitNested, IInv, Types, Progress, Handed, Indices
  <2>5. AllOver'
    BY <1>7 DEF SubmitNested, IInv, Progress, AllOver
  <2> QED
    BY <1>2, <2>1, <2>2, <2>3, <2>4, <2>5 DEF IInv
<1>8. CASE Wait
  <2>1. Types' /\ Progress'
    BY <1>8, Numbers DEF Wait, Verdict, TasksStay, IInv, Types, Progress, Indices
  <2>2. Nesting' /\ Waited'
    BY <1>2, <1>8 DEF Wait, IInv, Types, Progress, Nesting, Waited
  <2>3. Tokens'
    BY <1>2, <1>8, TokensReturned DEF Wait, IInv, Nests
  <2>4. Handed'
    BY <1>2, <1>8 DEF Wait, AtBuild, IInv, Types, Progress, Handed, Indices
  <2>5. AllOver'
    BY <1>2, <1>8 DEF Wait, AtBuild, IInv, Types, Progress, AllOver, Verdict, Over, TasksStay
  <2> QED
    BY <1>2, <2>1, <2>2, <2>3, <2>4, <2>5 DEF IInv
<1> QED
  BY <1>3, <1>4, <1>5, <1>6, <1>7, <1>8
-----------------------------------------------------------------------------
(* A task is started: it is a new one.                                     *)
LEMMA Starting ==
  ASSUME IInv, NEW b \in Indices, Start(b)
  PROVE  /\ Submitting' /\ Registered' /\ next' \in [Indices -> Nat \ {0}]
         /\ \A c \in Indices : Selected(c)' = Selected(c)
         /\ \E t \in Targets :
              /\ job[<<b, t>>] = "new" /\ job' = [job EXCEPT ![<<b, t>>] = "pre"]
              /\ Active' = Active \cup {<<b, t>>} /\ <<b, t>> \notin Active
<1> DEFINE n == next[b]
           t == Selected(b)[n]
           j == <<b, t>>
<1>1. /\ n \in Nat \ {0} /\ n <= Len(Selected(b)) /\ Len(Selected(b)) \in Nat
      /\ next' = [next EXCEPT ![b] = n + 1] /\ job' = [job EXCEPT ![j] = "pre"]
  BY SelectedTargets DEF Start, IInv, Types
<1>2. n \in 1..Len(Selected(b)) /\ t \in Targets /\ j \in Jobs
  BY <1>1, SelectedTargets DEF Jobs
<1>3. \A c \in Indices : Selected(c)' = Selected(c)
  BY DEF Start, Selected
<1>4. job[j] = "new"
  BY <1>1, <1>2 DEF IInv, Submitting
<1>5. Active' = Active \cup {j} /\ j \notin Active
  BY <1>1, <1>2, <1>4 DEF IInv, Types, Active
<1>6. Submitting'
  <2> SUFFICES ASSUME NEW c \in Indices
               PROVE  /\ next'[c] <= Len(Selected(c)) + 1
                      /\ \A i \in 1..Len(Selected(c)) :
                           i < next'[c] <=> job'[<<c, Selected(c)[i]>>] # "new"
                      /\ \A u \in Targets : job'[<<c, u>>] # "new" =>
                           \E i \in 1..Len(Selected(c)) : Selected(c)[i] = u
    BY <1>3 DEF Submitting
  <2>1. CASE c # b
    <3>1. next'[c] = next[c] /\ \A u \in Targets : job'[<<c, u>>] = job[<<c, u>>]
      BY <1>1, <1>2, <2>1 DEF IInv, Types, Jobs
    <3> QED
      BY <3>1, SelectedTargets DEF IInv, Submitting
  <2>2. CASE c = b
    <3>1. next'[b] = n + 1 /\ job'[j] = "pre"
      BY <1>1, <1>2 DEF IInv, Types
    <3>2. \A u \in Targets : u # t => job'[<<b, u>>] = job[<<b, u>>]
      BY <1>1, <1>2 DEF IInv, Types, Jobs
    <3>3. ASSUME NEW i \in 1..Len(Selected(b))
          PROVE  i < n + 1 <=> job'[<<b, Selected(b)[i]>>] # "new"
      <4>1. CASE i = n
        BY <4>1, <3>1, <1>1
      <4>2. CASE i # n
        <5>1. Selected(b)[i] # t /\ Selected(b)[i] \in Targets
          BY <4>2, <1>2, SelectedTargets
        <5>2. job'[<<b, Selected(b)[i]>>] = job[<<b, Selected(b)[i]>>]
          BY <5>1, <3>2
        <5>3. i < n <=> job[<<b, Selected(b)[i]>>] # "new"
          BY DEF IInv, Submitting
        <5> QED
          BY <5>2, <5>3, <4>2, <1>1
      <4> QED
        BY <4>1, <4>2
    <3>4. \A u \in Targets : job'[<<b, u>>] # "new" =>
            \E i \in 1..Len(Selected(b)) : Selected(b)[i] = u
      BY <3>2, <1>2 DEF IInv, Submitting
    <3> QED
      BY <2>2, <3>1, <3>3, <3>4, <1>1
  <2> QED
    BY <2>1, <2>2
<1>7. Registered'
  BY <1>1, <1>2 DEF IInv, Types, Registered, Start
<1>8. next' \in [Indices -> Nat \ {0}]
  BY <1>1 DEF IInv, Types
<1> QED
  BY <1>1, <1>2, <1>3, <1>4, <1>5, <1>6, <1>7, <1>8

LEMMA InvSubmit == ASSUME IInv, Submit PROVE IInv'
<1>1. cur \in Indices /\ AllowParallelism(cur) /\ Start(cur)
  BY DEF Submit, IInv, Progress
<1>2. PICK t \in Targets :
        /\ job[<<cur, t>>] = "new" /\ job' = [job EXCEPT ![<<cur, t>>] = "pre"]
        /\ Active' = Active \cup {<<cur, t>>} /\ <<cur, t>> \notin Active
  BY <1>1, Starting
<1>3. /\ Submitting' /\ Registered' /\ next' \in [Indices -> Nat \ {0}]
      /\ \A c \in Indices : Selected(c)' = Selected(c)
  BY <1>1, Starting
<1>4. Types'
  BY <1>1, <1>2, <1>3 DEF Submit, Start, IInv, Types
<1>5. Progress' /\ \A b \in Indices : b # cur => next'[b] = next[b]
  BY <1>1 DEF Submit, Start, IInv, Types, Progress
<1>6. Nesting'
  BY <1>1, <1>2 DEF Submit, IInv, Nesting
<1>7. Tokens'
  <2>1. Own' = Own \cup {<<cur, t>>} /\ <<cur, t>> \notin Own /\ Nests' = Nests
    BY <1>1, <1>2 DEF Submit, Own, Nests
  <2>2. Cardinality(Own') = Cardinality(Own) + 1
    BY <2>1, Finite, FS_AddElement
  <2> QED
    BY <2>1, <2>2, Finite, Numbers DEF Submit, HasRoom, Tokens, Taken
<1>8. Handed' /\ Waited'
  BY <1>1, <1>3, <1>5 DEF Submit, IInv, Types, Progress, Handed, Waited, Indices
<1>9. AllOver'
  BY DEF Submit, IInv, Progress, AllOver
<1> QED
  BY <1>3, <1>4, <1>5, <1>6, <1>7, <1>8, <1>9 DEF IInv

LEMMA InvNestedGo == ASSUME IInv, NEW b \in Indices, NestedGo(b) PROVE IInv'
<1>1. nested[b] = "active" /\ ~AllowParallelism(b) /\ b < cur /\ Start(b)
  BY DEF NestedGo, IInv, Progress
<1>2. PICK t \in Targets :
        /\ job[<<b, t>>] = "new" /\ job' = [job EXCEPT ![<<b, t>>] = "pre"]
        /\ Active' = Active \cup {<<b, t>>} /\ <<b, t>> \notin Active
  BY <1>1, Starting
<1>3. /\ Submitting' /\ Registered' /\ next' \in [Indices -> Nat \ {0}]
      /\ \A c \in Indices : Selected(c)' = Selected(c)
  BY <1>1, Starting
<1>4. Types'
  BY <1>1, <1>2, <1>3 DEF NestedGo, Start, IInv, Types
<1>5. Progress' /\ \A c \in Indices : c # b => next'[c] = next[c]
  BY <1>1 DEF NestedGo, Start, IInv, Types, Progress
<1>6. Nesting'
  <2>1. \A j \in Active : j[1] # b
    BY DEF NestedGo, InnerRoom, ActiveOf
  <2> QED
    BY <1>1, <1>2, <2>1 DEF NestedGo, IInv, Nesting
<1>7. Tokens'
  <2>1. Own' = Own /\ Nests' = Nests
    BY <1>1, <1>2 DEF NestedGo, Own, Nests
  <2> QED
    BY <2>1, TokensReturned DEF IInv
<1>8. Handed' /\ Waited'
  BY <1>1, <1>3, <1>5 DEF NestedGo, IInv, Types, Progress, Handed, Waited, Indices
<1>9. AllOver'
  BY <1>1 DEF NestedGo, IInv, AllOver, Over
<1> QED
  BY <1>3, <1>4, <1>5, <1>6, <1>7, <1>8, <1>9 DEF IInv

LEMMA InvNestedWait == ASSUME IInv, NEW b \in Indices, NestedWait(b) PROVE IInv'
<1>1. /\ Active' = Active /\ Own' = Own /\ Submitting' /\ Registered'
      /\ \A c \in Indices : Selected(c)' = Selected(c)
  BY TasksUntouched DEF NestedWait
<1>2. Types' /\ Progress'
  BY DEF NestedWait, TasksStay, IInv, Types, Progress
<1>3. Nesting'
  <2>1. \A j \in Active : j[1] # b
    BY DEF NestedWait, InnerOver, ActiveOf
  <2>2. \A c \in Indices : c # b => nested'[c] = nested[c]
    BY DEF NestedWait, IInv, Types
  <2>3. \A j \in Active : j[1] \in Indices
    BY DEF Active, Jobs
  <2> QED
    BY <1>1, <2>1, <2>2, <2>3 DEF IInv, Nesting
<1>4. Tokens'
  <2>1. Nests' \subseteq Nests
    BY DEF NestedWait, IInv, Types, Nests
  <2> QED
    BY <1>1, <2>1, TokensReturned DEF IInv
<1>5. Handed' /\ Waited'
  BY <1>1 DEF NestedWait, InnerOver, IInv, Types, Handed, Waited
<1>6. AllOver'
  BY DEF NestedWait, IInv, AllOver, Over
<1> QED
  BY <1>1, <1>2, <1>3, <1>4, <1>5, <1>6 DEF IInv

(* A task goes on or ends.                                                 *)
LEMMA Advancing ==
  ASSUME IInv, NEW j \in Active, NEW to \in {"tool", "collect", "post", "ok", "failed"},
         job' = [job EXCEPT ![j] = to], RunStays
  PROVE  Progress' /\ Submitting' /\ Nesting' /\ Tokens' /\ Handed' /\ Waited' /\ AllOver'
<1>1. j \in Jobs /\ job[j] # "new" /\ j = <<j[1], j[2]>> /\ j[1] \in Indices
  BY DEF Active, Jobs
<1>2. Active' \subseteq Active
  BY <1>1 DEF IInv, Types, Active
<1>3. \A c \in Indices : Selected(c)' = Selected(c)
  BY DEF RunStays, Selected
<1>4. \A k \in Jobs : job'[k] # "new" <=> job[k] # "new"
  BY <1>1 DEF IInv, Types
<1>5. Submitting'
  <2>1. \A c \in Indices, t \in Targets : job'[<<c, t>>] # "new" <=> job[<<c, t>>] # "new"
    BY <1>4 DEF Jobs
  <2> QED
    BY <1>3, <2>1, SelectedTargets DEF IInv, Submitting, RunStays
<1>6. Progress' /\ Handed' /\ Waited'
  BY <1>3 DEF RunStays, IInv, Progress, Handed, Waited
<1>7. Nesting'
  BY <1>2 DEF RunStays, IInv, Nesting
<1>8. Tokens'
  <2>1. Own' \subseteq Own /\ Nests' = Nests
    BY <1>2 DEF RunStays, Own, Nests
  <2> QED
    BY <2>1, TokensReturned DEF IInv
<1>9. AllOver'
  BY DEF RunStays, IInv, AllOver, Over
<1> QED
  BY <1>5, <1>6, <1>7, <1>8, <1>9

LEMMA InvTask ==
  ASSUME IInv, NEW j \in Jobs, PreHook(j) \/ Tool(j) \/ Collect(j) \/ PostHook(j)
  PROVE  IInv'
<1>1. Place(j) \in Places
  BY DEF Places
<1>2. PICK to \in {"tool", "collect", "post", "ok", "failed"} : job' = [job EXCEPT ![j] = to]
  BY DEF PreHook, Tool, Collect, PostHook, Goes
<1>3. j \in Active /\ RunStays
  BY DEF PreHook, Tool, Collect, PostHook, Goes, Active
<1>4. Progress' /\ Submitting' /\ Nesting' /\ Tokens' /\ Handed' /\ Waited' /\ AllOver'
  BY <1>2, <1>3, Advancing
<1>5. workspace' \in [Places -> Jobs \cup {<<>>}]
  BY <1>1 DEF PreHook, Tool, Collect, PostHook, Goes, IInv, Types
<1>6. artifacts' \subseteq [of : Jobs, holds : Jobs \cup {<<>>}]
  BY <1>1 DEF PreHook, Tool, Collect, PostHook, Goes, IInv, Types
<1>7. Types'
  BY <1>2, <1>3, <1>5, <1>6 DEF RunStays, IInv, Types
<1>8. Registered'
  <2>1. CASE PreHook(j) \/ Tool(j)
    BY <2>1 DEF PreHook, Tool, Goes, IInv, Types, Registered
  <2>2. CASE Collect(j) /\ Goes(j, "collect", "failed")
    BY <2>2 DEF Collect, Goes, IInv, Types, Registered
  <2>3. CASE Collect(j) /\ Goes(j, "collect", "post")
    <3> DEFINE a == [of |-> j, holds |-> workspace[Place(j)]]
    <3>1. a \in artifacts' /\ a.of = j /\ artifacts \subseteq artifacts'
      BY <2>3 DEF Collect, Goes, IInv, Types
    <3>2. \A k \in Jobs : k # j => job'[k] = job[k]
      BY <2>3 DEF Goes, IInv, Types
    <3> HIDE DEF a
    <3> QED
      BY <3>1, <3>2 DEF IInv, Registered
  <2>4. CASE PostHook(j)
    BY <2>4 DEF PostHook, Goes, IInv, Types, Registered
  <2> QED
    BY <2>1, <2>2, <2>3, <2>4 DEF Collect
<1> QED
  BY <1>4, <1>7, <1>8 DEF IInv

LEMMA InvNext == IInv /\ [Next]_vars => IInv'
<1> SUFFICES ASSUME IInv, [Next]_vars PROVE IInv'
  OBVIOUS
<1>1. CASE UNCHANGED vars
  <2>1. Types' /\ Progress'
    BY <1>1 DEF vars, IInv, Types, Progress
  <2>2. Active' = Active /\ Own' = Own /\ Nests' = Nests
    BY <1>1 DEF vars, Active, Own, Nests
  <2>3. Submitting' /\ Registered' /\ \A b \in Indices : Selected(b)' = Selected(b)
    BY <1>1, TasksUntouched DEF vars, TasksStay
  <2>4. Nesting' /\ Tokens' /\ Handed' /\ Waited' /\ AllOver'
    BY <1>1, <2>2, <2>3 DEF vars, IInv, Nesting, Tokens, Taken, Handed, Waited, AllOver, Over
  <2> QED
    BY <2>1, <2>3, <2>4 DEF IInv
<1>2. CASE Run
  BY <1>2, InvLoop, InvSubmit DEF Run
<1>3. ASSUME NEW b \in Indices, Task(b) PROVE IInv'
  <2>1. \A t \in Targets : <<b, t>> \in Jobs
    BY DEF Jobs
  <2> QED
    BY <1>3, <2>1, InvNestedGo, InvNestedWait, InvTask DEF Task
<1> QED
  BY <1>1, <1>2, <1>3 DEF Next

LEMMA Invariant == Spec => []IInv
  BY InvInit, InvNext, PTL DEF Spec
-----------------------------------------------------------------------------
(* Every variable stays in its range; the tokens never exceed the limit.   *)
THEOREM TypeCorrect == Spec => []TypeOK
<1>1. IInv => TypeOK
  <2> SUFFICES ASSUME IInv PROVE TypeOK
    OBVIOUS
  <2>1. Taken \in 0..Limit
    BY Finite, Numbers DEF IInv, Tokens, Taken
  <2>2. \A b \in Indices : next[b] \in 1..Len(Builds[b].targets) + 1
    <3> SUFFICES ASSUME NEW b \in Indices
                 PROVE  next[b] \in 1..Len(Builds[b].targets) + 1
      OBVIOUS
    <3>1. Len(Selected(b)) <= Len(Builds[b].targets) /\ Len(Builds[b].targets) \in Nat
      BY SelectedTargets
    <3> QED
      BY <3>1, SelectedTargets DEF IInv, Types, Submitting
  <2> QED
    BY <2>1, <2>2 DEF IInv, Types, TypeOK
<1> QED
  BY <1>1, Invariant, PTL

(* Whatever the builders and the number of their targets, no more than     *)
(* ctx.Parallelism targets are built at a time: a nested group holds one   *)
(* token and has one task.                                                 *)
THEOREM ParallelismIsKept == Spec => []ParallelismKept
<1>1. IInv => ParallelismKept
  <2> SUFFICES ASSUME IInv PROVE ParallelismKept
    OBVIOUS
  <2> DEFINE Inner == {j \in Active : ~AllowParallelism(j[1])}
             f == [j \in Inner |-> j[1]]
  <2>1. Active = Own \cup Inner /\ Own \cap Inner = {} /\ Inner \subseteq Active
    BY DEF Own
  <2>2. f \in Injection(Inner, Nests)
    <3>1. \A j \in Inner : j[1] \in Nests
      BY DEF IInv, Nesting, Nests, Active, Jobs
    <3>2. \A j, k \in Inner : j[1] = k[1] => j = k
      BY DEF IInv, Nesting
    <3> HIDE DEF Inner
    <3> QED
      BY <3>1, <3>2 DEF Injection, IsInjective
  <2>3. Cardinality(Inner) <= Cardinality(Nests) /\ IsFiniteSet(Inner)
    <3> HIDE DEF Inner, f
    <3> QED
      BY <2>2, Finite, FS_Injection
  <2>4. Cardinality(Active) = Cardinality(Own) + Cardinality(Inner) - Cardinality({})
    <3> HIDE DEF Inner
    <3> QED
      BY <2>1, <2>3, Finite, FS_Union
  <2>5. Cardinality(Inner) \in Nat /\ Cardinality({}) = 0
    BY <2>3, FS_CardinalityType, FS_EmptySet
  <2> HIDE DEF Inner
  <2> QED
    BY <2>3, <2>4, <2>5, Finite, Numbers DEF IInv, Tokens, Taken, ParallelismKept
<1> QED
  BY <1>1, Invariant, PTL

(* Success speaks for every selected target of every build: whatever the   *)
(* order in which the groups ended, none is left out, failed or missing    *)
(* from the artifacts.                                                     *)
THEOREM SuccessSpeaksForAll == Spec => []SuccessIsComplete
<1>1. IInv => SuccessIsComplete
  <2> SUFFICES ASSUME IInv, result = "ok", NEW b \in Indices, ~Builds[b].skip,
                      NEW i \in 1..Len(Selected(b))
               PROVE  LET j == <<b, Selected(b)[i]>> IN
                        job[j] = "ok" /\ \E a \in artifacts : a.of = j
    BY DEF SuccessIsComplete
  <2> DEFINE j == <<b, Selected(b)[i]>>
  <2>1. j \in Jobs
    BY SelectedTargets DEF Jobs
  <2>2. Active = {} /\ nested[b] # "active" /\ cur > Len(Builds) /\ job[j] # "failed"
    BY <2>1 DEF IInv, AllOver, Over
  <2>3. next[b] > Len(Selected(b))
    BY <2>2, Numbers DEF IInv, Types, Handed, Waited, Indices
  <2>4. job[j] # "new"
    BY <2>3, SelectedTargets DEF IInv, Types, Submitting
  <2>5. job[j] = "ok"
    BY <2>1, <2>2, <2>4 DEF Active
  <2> QED
    BY <2>1, <2>5 DEF IInv, Registered
<1> QED
  BY <1>1, Invariant, PTL

(* No target is built before its builder is prepared, nor after an earlier *)
(* builder could not be.                                                   *)
THEOREM BuildersArePrepared == Spec => []PreparedFirst
<1>1. IInv => PreparedFirst
  <2> SUFFICES ASSUME IInv, NEW j \in Jobs, job[j] # "new",
                      NEW b \in 1..j[1], ~Builds[b].skip
               PROVE  b \in ready
    BY DEF PreparedFirst
  <2>1. j[1] \in Indices /\ j[2] \in Targets /\ j = <<j[1], j[2]>> /\ b \in Indices
    BY Numbers DEF Jobs, Indices
  <2>2. next[j[1]] > 1
    BY <2>1, SelectedTargets DEF IInv, Types, Submitting
  <2>3. b < cur \/ (b = cur /\ loop = "targets")
    BY <2>1, <2>2, Numbers DEF IInv, Types, Progress, Indices
  <2> QED
    BY <2>1, <2>3 DEF IInv, Progress
<1> QED
  BY <1>1, Invariant, PTL

(* After a success nothing of the build pipe is left that could change     *)
(* what it made.                                                           *)
THEOREM SuccessIsQuiet == Spec => QuietAfterSuccess
<1>1. IInv /\ [Next]_vars => [result = "ok" => UNCHANGED <<artifacts, workspace>>]_vars
  <2> SUFFICES ASSUME IInv, Next, result = "ok" PROVE UNCHANGED <<artifacts, workspace>>
    BY DEF vars
  <2>1. Active = {} /\ loop = "done" /\ \A b \in Indices : nested[b] # "active"
    BY DEF IInv, AllOver, Over, Progress
  <2>2. \A j \in Jobs : job[j] \notin {"pre", "tool", "collect", "post"}
    BY <2>1 DEF Active
  <2>3. ~Run
    BY <2>1 DEF Run, SkipBuild, BuildFails, Prepare, Submit, Submitted, SubmitNested, Wait, AtBuild
  <2>4. \A b \in Indices : ~Task(b)
    BY <2>1, <2>2 DEF Task, NestedGo, NestedWait, PreHook, Tool, Collect, PostHook, Goes, Jobs
  <2> QED
    BY <2>3, <2>4 DEF Next
<1> QED
  BY <1>1, Invariant, PTL DEF Spec, QuietAfterSuccess
-----------------------------------------------------------------------------
(* Two tools write to one place only for targets of one build whose group  *)
(* runs one task at a time.                                                *)
PlacesApart ==
  \A j, k \in Jobs :
    j # k /\ Place(j) = Place(k) => j[1] = k[1] /\ ~AllowParallelism(j[1])

(* What a task is about to collect is what its own tool left.              *)
Undisturbed == \A j \in Jobs : job[j] = "collect" => workspace[Place(j)] = j

(* The condition under which every target gets its own binary. Two builds  *)
(* of one crate do not meet it.                                            *)
THEOREM OwnBinaries ==
  ASSUME PlacesApart PROVE Spec => []BinaryIsOwn
<1> DEFINE J == Undisturbed /\ BinaryIsOwn
<1>1. Init => J
  BY DEF Init, Undisturbed, BinaryIsOwn
<1>2. ASSUME IInv, J, NEW j \in Jobs, Tool(j) PROVE J'
  <2>1. j \in Active /\ Place(j) \in Places
    BY <1>2 DEF Tool, Goes, Active, Places
  <2>2. \A k \in Jobs : k # j /\ job[k] = "collect" => Place(k) # Place(j)
    <3> SUFFICES ASSUME NEW k \in Jobs, k # j, job[k] = "collect", Place(k) = Place(j)
                 PROVE  FALSE
      OBVIOUS
    <3>1. k[1] = j[1] /\ ~AllowParallelism(k[1])
      BY DEF PlacesApart
    <3>2. k \in Active
      BY DEF Active
    <3> QED
      BY <1>2, <2>1, <3>1, <3>2 DEF IInv, Nesting
  <2>3. \A k \in Jobs : Place(k) \in Places
    BY DEF Places
  <2>4. Undisturbed'
    BY <1>2, <2>1, <2>2, <2>3 DEF Tool, Goes, IInv, Types, Undisturbed
  <2> QED
    BY <1>2, <2>4 DEF Tool, BinaryIsOwn
<1>3. ASSUME IInv, J, NEW j \in Jobs, PreHook(j) \/ Collect(j) \/ PostHook(j) PROVE J'
  <2>1. Undisturbed'
    BY <1>3 DEF PreHook, Collect, PostHook, Goes, IInv, Types, Undisturbed
  <2>2. BinaryIsOwn'
    BY <1>3 DEF PreHook, Collect, PostHook, Goes, Undisturbed, BinaryIsOwn
  <2> QED
    BY <2>1, <2>2
<1>4. ASSUME IInv, J, NEW b \in Indices, Start(b) PROVE J'
  <2>1. PICK t \in Targets : job' = [job EXCEPT ![<<b, t>>] = "pre"]
    BY <1>4, Starting
  <2> QED
    BY <1>4, <2>1 DEF Start, IInv, Types, Undisturbed, BinaryIsOwn
<1>5. J /\ (TasksStay \/ UNCHANGED vars) => J'
  BY DEF TasksStay, vars, Undisturbed, BinaryIsOwn
<1>6. ASSUME IInv, J, Run PROVE J'
  <2>1. CASE Submit
    BY <1>4, <1>6, <2>1 DEF Submit, IInv, Progress
  <2>2. CASE ~Submit
    BY <1>5, <1>6, <2>2 DEF Run, SkipBuild, BuildFails, Prepare, Submitted, SubmitNested, Wait
  <2> QED
    BY <2>1, <2>2
<1>7. ASSUME IInv, J, NEW b \in Indices, Task(b) PROVE J'
  <2>1. CASE NestedGo(b)
    BY <1>4, <1>7, <2>1 DEF NestedGo
  <2>2. CASE NestedWait(b)
    BY <1>5, <1>7, <2>2 DEF NestedWait
  <2>3. ASSUME NEW t \in Targets, LET j == <<b, t>> IN
                 PreHook(j) \/ Tool(j) \/ Collect(j) \/ PostHook(j)
        PROVE  J'
    <3>1. <<b, t>> \in Jobs
      BY DEF Jobs
    <3> QED
      BY <1>2, <1>3, <1>7, <2>3, <3>1
  <2> QED
    BY <1>7, <2>1, <2>2, <2>3 DEF Task
<1>8. IInv /\ J /\ [Next]_vars => J'
  BY <1>5, <1>6, <1>7 DEF Next
<1> QED
  BY <1>1, <1>8, Invariant, PTL DEF Spec
=============================================================================
