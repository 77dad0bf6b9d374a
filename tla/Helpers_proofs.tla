--------------------------- MODULE Helpers_proofs ---------------------------
(***************************************************************************)
(* Theorems about the two helpers that every pipe builds on: the task      *)
(* groups of internal/semerrgroup, for every number of tasks, every limit  *)
(* and every combination of the wrappers, and the retry loop of            *)
(* internal/retryx, for every configuration and every error. The two share *)
(* no variable; the proofs about the group come first.                     *)
(***************************************************************************)
EXTENDS TaskGroup, Retry, FiniteSetTheorems, TLAPS

(* The types alone, the lower bound of tokens left out: that one needs the *)
(* count.                                                                  *)
Types ==
  /\ submitted \in 0..N
  /\ status \in [Task -> {"new", "inline", "running", "returned", "done"}]
  /\ outcome \in [Task -> Outcome \cup {"pending"}]
  /\ tokens \in Nat /\ tokens <= Limit
  /\ firstDone \in BOOLEAN
  /\ groupErr \in Task \cup {0}
  /\ skipErr \subseteq Task
  /\ result \in [class : Outcome \cup {"none"}, of : SUBSET Task]

(* A task has an outcome once its function returned, and the tasks that    *)
(* have not been submitted are those after the last submitted one.         *)
Progress ==
  \A t \in Task :
    /\ status[t] = "new" <=> t > submitted
    /\ outcome[t] = "pending" <=> status[t] \in {"new", "inline", "running"}

(* The first task runs inline until firstDone, and nothing else before.    *)
FirstStep ==
  /\ \A t \in Task : status[t] = "inline" => t = 1 /\ FirstAlone /\ ~firstDone
  /\ FirstAlone /\ ~firstDone =>
       submitted = 0 \/ (submitted = 1 /\ status[1] = "inline")
  /\ FirstAlone /\ firstDone => status[1] \in {"returned", "done"}

(* What the group keeps: the error of a task that is done, if one is, and  *)
(* the skips of those that are done.                                       *)
Kept ==
  /\ groupErr # 0 =>
       status[groupErr] = "done" /\ outcome[groupErr] # "ok" /\ ~KeepsSkip(groupErr)
  /\ groupErr = 0 =>
       \A t \in Task : status[t] = "done" => outcome[t] = "ok" \/ KeepsSkip(t)
  /\ skipErr = {t \in Task : status[t] = "done" /\ KeepsSkip(t)}

Answered ==
  result # NoResult =>
    (\A t \in Task : status[t] = "done") /\ result = Verdict

IInv == Types /\ TokensMatchPool /\ Progress /\ FirstStep /\ Kept /\ Answered
-----------------------------------------------------------------------------
LEMMA Numbers == N \in Nat /\ Limit \in Nat \ {0}
  BY GroupAssumption

USE Numbers DEF HasRoom, FirstOver, GivenBack, AllDone, SkipAware, FirstAlone

LEMMA TaskFinite == IsFiniteSet(Task)
  BY FS_Interval DEF Task

(* The pool is a finite set.                                               *)
LEMMA PoolFinite == IsFiniteSet(InPool)
  BY TaskFinite, FS_Subset DEF InPool
(* Entering the pool adds one task to it, leaving it takes one away: the   *)
(* semaphore counts the pool.                                              *)
LEMMA EnterPool ==
  ASSUME Types, NEW t \in Task, status[t] \notin {"running", "returned"},
         NEW s \in {"running", "returned"}, status' = [status EXCEPT ![t] = s]
  PROVE  Cardinality(InPool') = Cardinality(InPool) + 1
<1>1. InPool' = InPool \cup {t}
  BY DEF InPool, Types
<1>2. t \notin InPool
  BY DEF InPool
<1> QED
  BY <1>1, <1>2, PoolFinite, FS_AddElement

LEMMA LeavePool ==
  ASSUME Types, NEW t \in Task, status[t] \in {"running", "returned"},
         status' = [status EXCEPT ![t] = "done"]
  PROVE  /\ Cardinality(InPool') = Cardinality(InPool) - 1
         /\ Cardinality(InPool) \in Nat \ {0}
<1>1. InPool' = InPool \ {t} /\ t \in InPool
  BY DEF InPool, Types
<1>2. Cardinality(InPool) \in Nat /\ Cardinality(InPool) # 0
  BY <1>1, PoolFinite, FS_CardinalityType, FS_EmptySet
<1> QED
  BY <1>1, <1>2, PoolFinite, FS_RemoveElement
-----------------------------------------------------------------------------
LEMMA InvInit == Init => IInv
<1> SUFFICES ASSUME Init PROVE IInv
  OBVIOUS
<1>1. InPool = {} /\ Cardinality(InPool) = 0
  BY FS_EmptySet DEF Init, InPool, Task
<1>2. Types /\ TokensMatchPool
  <2>1. submitted \in 0..N /\ groupErr \in Task \cup {0} /\ skipErr \subseteq Task
    BY DEF Init
  <2>2. result \in [class : Outcome \cup {"none"}, of : SUBSET Task]
    BY DEF Init, NoResult
  <2>3. tokens \in Nat /\ tokens <= Limit /\ TokensMatchPool
    BY <1>1 DEF Init, TokensMatchPool
  <2>4. status \in [Task -> {"new", "inline", "running", "returned", "done"}]
    BY DEF Init
  <2>5. outcome \in [Task -> Outcome \cup {"pending"}] /\ firstDone \in BOOLEAN
    BY DEF Init
  <2> QED
    BY <2>1, <2>2, <2>3, <2>4, <2>5 DEF Types
<1>3. Progress /\ FirstStep /\ Kept /\ Answered
  BY DEF Init, Progress, FirstStep, Kept, Answered, KeepsSkip, Task
<1> QED
  BY <1>2, <1>3 DEF IInv

LEMMA InvGo == IInv /\ Go => IInv'
<1> SUFFICES ASSUME IInv, Go PROVE IInv'
  OBVIOUS
<1> DEFINE u == submitted + 1
<1>1. u \in Task /\ status[u] = "new" /\ status' = [status EXCEPT ![u] = "running"]
  BY DEF IInv, Types, Progress, Go, Task
<1>2. Types'
  BY <1>1 DEF IInv, Types, Go
<1>3. TokensMatchPool'
  BY <1>1, EnterPool DEF IInv, TokensMatchPool, Go
<1>4. Progress'
  BY <1>1 DEF IInv, Types, Progress, Go, Task
<1>5. FirstStep'
  BY <1>1 DEF IInv, Types, FirstStep, Go
<1>6. Kept'
  BY <1>1 DEF IInv, Types, Kept, Go, KeepsSkip
<1>7. Answered'
  BY <1>1 DEF IInv, Answered, Go
<1> QED
  BY <1>2, <1>3, <1>4, <1>5, <1>6, <1>7 DEF IInv

LEMMA InvGoFirst == IInv /\ GoFirst => IInv'
<1> SUFFICES ASSUME IInv, GoFirst PROVE IInv'
  OBVIOUS
<1>1. 1 \in Task /\ status[1] = "new" /\ status' = [status EXCEPT ![1] = "inline"]
  BY DEF IInv, Types, Progress, GoFirst, Task
<1>2. Types'
  BY <1>1 DEF IInv, Types, GoFirst
<1>3. TokensMatchPool'
  <2>1. InPool' = InPool
    BY <1>1 DEF IInv, Types, InPool
  <2> QED
    BY <2>1 DEF IInv, TokensMatchPool, GoFirst
<1>4. Progress'
  BY <1>1 DEF IInv, Types, Progress, GoFirst, Task
<1>5. FirstStep'
  BY <1>1 DEF IInv, Types, FirstStep, GoFirst
<1>6. Kept'
  BY <1>1 DEF IInv, Types, Kept, GoFirst, KeepsSkip
<1>7. Answered'
  BY <1>1 DEF IInv, Answered, GoFirst
<1> QED
  BY <1>2, <1>3, <1>4, <1>5, <1>6, <1>7 DEF IInv

LEMMA InvFirstReturns == IInv /\ FirstReturns => IInv'
<1> SUFFICES ASSUME IInv, FirstReturns PROVE IInv'
  OBVIOUS
<1>1. 1 \in Task /\ status[1] = "inline" /\ ~firstDone
  BY DEF IInv, FirstStep, FirstReturns
<1>2. CASE /\ status' = [status EXCEPT ![1] = "done"]
           /\ outcome' = [outcome EXCEPT ![1] = "ok"]
           /\ UNCHANGED tokens
  <2>1. Types'
    BY <1>1, <1>2 DEF IInv, Types, FirstReturns, Outcome
  <2>2. TokensMatchPool'
    <3>1. InPool' = InPool
      BY <1>1, <1>2 DEF IInv, Types, InPool
    <3> QED
      BY <3>1, <1>2 DEF IInv, TokensMatchPool
  <2>3. Progress'
    BY <1>1, <1>2 DEF IInv, Types, Progress, FirstReturns
  <2>4. FirstStep'
    BY <1>1, <1>2 DEF IInv, Types, FirstStep, FirstReturns
  <2>5. Kept'
    BY <1>1, <1>2 DEF IInv, Types, Kept, FirstReturns, KeepsSkip
  <2>6. Answered'
    BY <1>1 DEF IInv, Answered, FirstReturns
  <2> QED
    BY <2>1, <2>2, <2>3, <2>4, <2>5, <2>6 DEF IInv
<1>3. ASSUME tokens < Limit, status' = [status EXCEPT ![1] = "returned"],
             NEW o \in {"skip", "fail"}, outcome' = [outcome EXCEPT ![1] = o],
             tokens' = tokens + 1
      PROVE  IInv'
  <2>1. Types'
    BY <1>1, <1>3 DEF IInv, Types, FirstReturns, Outcome
  <2>2. TokensMatchPool'
    BY <1>1, <1>3, EnterPool DEF IInv, TokensMatchPool
  <2>3. Progress'
    BY <1>1, <1>3 DEF IInv, Types, Progress, FirstReturns
  <2>4. FirstStep'
    BY <1>1, <1>3 DEF IInv, Types, FirstStep, FirstReturns
  <2>5. Kept'
    BY <1>1, <1>3 DEF IInv, Types, Kept, FirstReturns, KeepsSkip
  <2>6. Answered'
    BY <1>1 DEF IInv, Answered, FirstReturns
  <2> QED
    BY <2>1, <2>2, <2>3, <2>4, <2>5, <2>6 DEF IInv
<1> QED
  BY <1>2, <1>3 DEF FirstReturns

LEMMA InvReturn == ASSUME NEW t \in Task, IInv, Return(t) PROVE IInv'
<1>1. PICK o \in Outcome : outcome' = [outcome EXCEPT ![t] = o]
  BY DEF Return
<1>2. Types'
  BY <1>1 DEF IInv, Types, Return
<1>3. TokensMatchPool'
  <2>1. InPool' = InPool
    BY DEF IInv, Types, InPool, Return
  <2> QED
    BY <2>1 DEF IInv, TokensMatchPool, Return
<1>4. Progress'
  BY <1>1 DEF IInv, Types, Progress, Return, Outcome
<1>5. FirstStep'
  BY DEF IInv, Types, FirstStep, Return
<1>6. Kept'
  BY <1>1 DEF IInv, Types, Kept, Return, KeepsSkip
<1>7. Answered'
  BY DEF IInv, Answered, Return
<1> QED
  BY <1>2, <1>3, <1>4, <1>5, <1>6, <1>7 DEF IInv

LEMMA InvRetire == ASSUME NEW t \in Task, IInv, Retire(t) PROVE IInv'
<1>1. status[t] = "returned" /\ status' = [status EXCEPT ![t] = "done"]
  BY DEF Retire
<1>2. /\ Cardinality(InPool') = Cardinality(InPool) - 1
      /\ tokens = Cardinality(InPool) /\ tokens \in Nat \ {0}
  BY <1>1, LeavePool DEF IInv, TokensMatchPool
<1>3. Types'
  BY <1>1, <1>2 DEF IInv, Types, Retire
<1>4. TokensMatchPool'
  BY <1>2 DEF TokensMatchPool, Retire
<1>5. Progress'
  BY <1>1 DEF IInv, Types, Progress, Retire
<1>6. FirstStep'
  BY <1>1 DEF IInv, Types, FirstStep, Retire
<1>7. Kept'
  BY <1>1 DEF IInv, Types, Kept, Retire, KeepsSkip, Task
<1>8. Answered'
  BY <1>1 DEF IInv, Answered, Retire
<1> QED
  BY <1>3, <1>4, <1>5, <1>6, <1>7, <1>8 DEF IInv

LEMMA InvWait == IInv /\ Wait => IInv'
<1> SUFFICES ASSUME IInv, Wait PROVE IInv'
  OBVIOUS
<1>1. Verdict \in [class : Outcome \cup {"none"}, of : SUBSET Task]
  <2>1. CASE groupErr # 0
    <3>1. groupErr \in Task /\ outcome[groupErr] \in Outcome
      BY <2>1 DEF IInv, Types, Kept, Progress, Outcome
    <3>2. Verdict = [class |-> outcome[groupErr], of |-> {groupErr}]
      BY <2>1 DEF Verdict
    <3> QED
      BY <3>1, <3>2
  <2>2. CASE groupErr = 0
    <3>1. skipErr \in SUBSET Task
      BY DEF IInv, Types
    <3> QED
      BY <2>2, <3>1 DEF Verdict, Outcome
  <2> QED
    BY <2>1, <2>2
<1>2. Types'
  BY <1>1 DEF IInv, Types, Wait
<1>3. TokensMatchPool' /\ Progress' /\ FirstStep' /\ Kept'
  BY DEF IInv, TokensMatchPool, InPool, Progress, FirstStep, Kept, KeepsSkip, Wait
<1>4. Answered'
  BY DEF Answered, Verdict, Wait
<1> QED
  BY <1>2, <1>3, <1>4 DEF IInv

LEMMA InvNext == IInv /\ [Next]_vars => IInv'
<1> SUFFICES ASSUME IInv, [Next]_vars PROVE IInv'
  OBVIOUS
<1>1. CASE UNCHANGED vars
  BY <1>1 DEF vars, IInv, Types, TokensMatchPool, InPool, Progress, FirstStep,
              Kept, KeepsSkip, Answered, Verdict
<1> QED
  BY <1>1, InvGo, InvGoFirst, InvFirstReturns, InvReturn, InvRetire, InvWait DEF Next

LEMMA Invariant == Spec => []IInv
<1> QED
  BY InvInit, InvNext, PTL DEF Spec
-----------------------------------------------------------------------------
(* Every variable stays in its range; the tokens never exceed the limit    *)
(* and are never given back twice.                                         *)
THEOREM TypeCorrect == Spec => []TypeOK
<1>1. Spec => [](wraps \in Shapes)
  <2>1. Init => wraps \in Shapes
    BY DEF Init
  <2>2. wraps \in Shapes /\ [Next]_vars => (wraps \in Shapes)'
    BY DEF Next, vars, Go, GoFirst, FirstReturns, Return, Retire, Wait
  <2> QED
    BY <2>1, <2>2, PTL DEF Spec
<1>2. IInv /\ wraps \in Shapes => TypeOK
  BY DEF IInv, Types, TypeOK
<1> QED
  BY <1>1, <1>2, Invariant, PTL

(* The semaphore counts the goroutines that hold a token, so no path       *)
(* through a task loses one.                                               *)
THEOREM TokensCountPool == Spec => []TokensMatchPool
<1>1. IInv => TokensMatchPool
  BY DEF IInv
<1> QED
  BY <1>1, Invariant, PTL

(* With NewBlockingFirst nothing is under way before the first task        *)
(* returned.                                                               *)
THEOREM FirstTaskAlone == Spec => []FirstRunsAlone
<1>1. IInv => FirstRunsAlone
  <2> SUFFICES ASSUME IInv, FirstAlone, NEW t \in Task \ {1}, outcome[1] = "pending"
               PROVE  status[t] = "new"
    BY DEF FirstRunsAlone
  <2>1. 1 \in Task /\ t > 1 /\ submitted \in Nat
    BY DEF Task, IInv, Types
  <2>2. ~firstDone
    BY <2>1 DEF IInv, Progress, FirstStep
  <2>3. submitted <= 1
    BY <2>2 DEF IInv, FirstStep
  <2> QED
    BY <2>1, <2>3 DEF IInv, Progress, Task
<1> QED
  BY <1>1, Invariant, PTL

LEMMA FaithfulFromInv == IInv => WaitIsFaithful
<1> SUFFICES ASSUME IInv, result.class # "none" PROVE WaitIsFaithful
  BY DEF WaitIsFaithful
<1>1. (\A t \in Task : status[t] = "done") /\ result = Verdict
  BY DEF IInv, Answered, NoResult
<1>2. \A t \in Task : outcome[t] # "pending"
  BY <1>1 DEF IInv, Progress
<1>3. CASE groupErr # 0
  <2>1. /\ groupErr \in Task /\ outcome[groupErr] # "ok" /\ ~KeepsSkip(groupErr)
        /\ result.class = outcome[groupErr] /\ result.of = {groupErr}
    BY <1>1, <1>3 DEF IInv, Types, Kept, Verdict
  <2> QED
    BY <1>1, <1>2, <2>1 DEF WaitIsFaithful, KeepsSkip
<1>4. CASE groupErr = 0
  <2>1. \A t \in Task : outcome[t] = "ok" \/ KeepsSkip(t)
    BY <1>1, <1>4 DEF IInv, Kept
  <2>2. skipErr = {t \in Task : KeepsSkip(t)}
    BY <1>1 DEF IInv, Kept
  <2>3. CASE skipErr = {}
    <3>1. result.class = "ok" /\ result.of = {}
      BY <1>1, <1>4, <2>3 DEF Verdict
    <3> QED
      BY <1>1, <1>2, <2>1, <2>2, <2>3, <3>1 DEF WaitIsFaithful
  <2>4. CASE skipErr # {}
    <3>1. result.class = "skip" /\ result.of = skipErr
      BY <1>1, <1>4, <2>4 DEF Verdict
    <3> QED
      BY <1>1, <1>2, <2>1, <2>2, <2>4, <3>1 DEF WaitIsFaithful, KeepsSkip
  <2> QED
    BY <2>3, <2>4
<1> QED
  BY <1>3, <1>4

(* What Wait returns speaks for all the tasks, and a skip set apart never  *)
(* hides a failure.                                                        *)
THEOREM WaitSpeaksForAll == Spec => []WaitIsFaithful
  BY FaithfulFromInv, Invariant, PTL
-----------------------------------------------------------------------------
LEMMA SameTasks == Abstract!Task = Task /\ Abstract!Outcome = Outcome
  BY DEF Abstract!Task, Task, Abstract!Outcome, Outcome

(* Cardinality is the same operator on both sides of the mapping.          *)
LEMMA SameCardinality == ASSUME NEW S PROVE Abstract!Cardinality(S) = Cardinality(S)
  BY DEF Abstract!Cardinality, Cardinality

(* A task starts: the step every Go makes at the abstract level.           *)
LEMMA StartStep ==
  ASSUME IInv, NEW t \in Task, t = submitted + 1, status[t] = "new",
         Cardinality(Executing) < Limit, FirstAlone => 1 \notin Executing,
         Executing' = Executing \cup {t}, Ended' = Ended,
         UNCHANGED <<wraps, result>>
  PROVE  Abstract!Start(t)
<1>1. \A s \in Task : s < t => s \in Executing \/ Ended[s] # "pending"
  BY DEF IInv, Types, Progress, Executing, Ended, Task
<1>2. Ended[t] = "pending" /\ t \notin Executing
  BY DEF Ended, Executing
<1>3. \A s \in Abstract!Task : s < t => s \in Executing \/ Ended[s] # "pending"
  BY <1>1, SameTasks
<1>4. UNCHANGED <<wraps, Ended, result.class>>
  OBVIOUS
<1> QED
  BY <1>2, <1>3, <1>4, SameCardinality DEF Abstract!Start, Abstract!FirstAlone

(* A task ends: its function returned, inline or in the pool.              *)
LEMMA EndStep ==
  ASSUME IInv, NEW t \in Task, status[t] \in {"inline", "running"},
         NEW s \in {"returned", "done"}, status' = [status EXCEPT ![t] = s],
         NEW o \in Outcome, outcome' = [outcome EXCEPT ![t] = o],
         UNCHANGED <<wraps, result>>
  PROVE  Abstract!End(t)
<1>1. t \in Executing /\ Executing' = Executing \ {t}
  BY DEF Executing, IInv, Types
<1>2. Ended' = [Ended EXCEPT ![t] = o]
  BY DEF Ended, IInv, Types
<1> QED
  BY <1>1, <1>2, SameTasks DEF Abstract!End

(* The group implements TaskGroupSpec: what the pipes rely on holds for    *)
(* every number of tasks and every limit.                                  *)
THEOREM GroupRefinement == Spec => ImplementsGroup
<1>1. Init => Abstract!Init
  BY SameTasks DEF Init, Abstract!Init, NoResult, Ended, Executing
<1>2. IInv /\ [Next]_vars => [Abstract!Next]_(Abstract!specVars)
  <2> SUFFICES ASSUME IInv, [Next]_vars
               PROVE  Abstract!Next \/ UNCHANGED <<wraps, Ended, Executing, result>>
    BY DEF Abstract!specVars
  <2>1. ASSUME Go PROVE Abstract!Next
    <3> PICK u \in Task : u = submitted + 1
      BY <2>1 DEF IInv, Types, Go, Task
    <3>1. u \in Task /\ status[u] = "new" /\ status' = [status EXCEPT ![u] = "running"]
      BY <2>1 DEF IInv, Types, Progress, Go, Task
    <3>2. Executing \subseteq InPool
      BY <2>1 DEF Go, IInv, FirstStep, Executing, InPool
    <3>3. Cardinality(Executing) < Limit
      <4>1. Cardinality(Executing) <= tokens
        BY <3>2, PoolFinite, FS_Subset DEF IInv, TokensMatchPool
      <4>2. Cardinality(Executing) \in Nat
        BY <3>2, PoolFinite, FS_Subset, FS_CardinalityType
      <4> QED
        BY <4>1, <4>2, <2>1 DEF Go, IInv, Types
    <3>4. FirstAlone => 1 \notin Executing
      BY <2>1 DEF Go, IInv, FirstStep, Executing
    <3>5. Executing' = Executing \cup {u} /\ Ended' = Ended
          /\ UNCHANGED <<wraps, result>>
      BY <2>1, <3>1 DEF Go, IInv, Types, Executing, Ended
    <3>6. Abstract!Start(u)
      BY <3>1, <3>3, <3>4, <3>5, StartStep
    <3> QED
      BY <3>1, <3>6, SameTasks DEF Abstract!Next
  <2>2. ASSUME GoFirst PROVE Abstract!Next
    <3>1. 1 \in Task /\ status[1] = "new" /\ status' = [status EXCEPT ![1] = "inline"]
      BY <2>2 DEF IInv, Types, Progress, GoFirst, Task
    <3>2. Executing = {}
      BY <2>2 DEF GoFirst, IInv, Progress, Executing, Task
    <3>3. Cardinality(Executing) < Limit
      BY <3>2, FS_EmptySet
    <3>4. Executing' = Executing \cup {1} /\ Ended' = Ended
          /\ UNCHANGED <<wraps, result>>
      BY <2>2, <3>1 DEF GoFirst, IInv, Types, Executing, Ended
    <3>5. Abstract!Start(1)
      BY <2>2, <3>1, <3>2, <3>3, <3>4, StartStep DEF GoFirst
    <3> QED
      BY <3>1, <3>5, SameTasks DEF Abstract!Next
  <2>3. ASSUME FirstReturns PROVE Abstract!Next
    <3>1. 1 \in Task /\ status[1] = "inline" /\ UNCHANGED <<wraps, result>>
      BY <2>3 DEF IInv, FirstStep, FirstReturns
    <3>2. Abstract!End(1)
      BY <2>3, <3>1, EndStep DEF FirstReturns, Outcome
    <3> QED
      BY <3>1, <3>2, SameTasks DEF Abstract!Next
  <2>4. ASSUME NEW t \in Task, Return(t) PROVE Abstract!Next
    <3>1. Abstract!End(t)
      BY <2>4, EndStep DEF Return
    <3> QED
      BY <3>1, SameTasks DEF Abstract!Next
  <2>5. ASSUME NEW t \in Task, Retire(t)
        PROVE  UNCHANGED <<wraps, Ended, Executing, result>>
    BY <2>5 DEF Retire, IInv, Types, Ended, Executing
  <2>6. ASSUME Wait PROVE Abstract!Next
    <3>1. (\A t \in Task : Ended[t] = outcome[t] /\ outcome[t] # "pending")
      BY <2>6 DEF Wait, IInv, Progress, Ended
    <3>2. result = NoResult /\ result' = Verdict /\ UNCHANGED <<wraps, Ended, Executing>>
      BY <2>6 DEF Wait, Ended, Executing
    <3>3. result'.class # "none"
      <4>1. CASE groupErr # 0
        BY <4>1, <3>1, <3>2 DEF IInv, Types, Verdict, Outcome
      <4>2. CASE groupErr = 0
        BY <4>2, <3>2 DEF Verdict
      <4> QED
        BY <4>1, <4>2
    <3>4. WaitIsFaithful' /\ UNCHANGED <<wraps, status, outcome>>
      <4>1. IInv'
        BY <2>6, InvWait
      <4>2. WaitIsFaithful'
        BY <4>1, FaithfulFromInv, PTL
      <4> QED
        BY <4>2, <2>6 DEF Wait
    <3>5. /\ \A t \in result'.of : outcome[t] = result'.class
          /\ result'.class = "ok" <=> \A t \in Task : outcome[t] = "ok"
          /\ SkipAware /\ result'.class = "skip" => \A t \in Task : outcome[t] # "fail"
      BY <3>3, <3>4 DEF WaitIsFaithful
    <3>6. result'.class # "ok" => \E t \in Task : t \in result'.of
      BY <3>2 DEF Verdict, IInv, Types
    <3>7. result'.class \in Outcome
      BY <3>3, <2>6, InvWait DEF IInv, Types
    <3>8. Abstract!Answer
      BY <3>1, <3>2, <3>5, <3>6, <3>7, SameTasks DEF Abstract!Answer, Abstract!SkipAware, NoResult, Outcome
    <3> QED
      BY <3>8 DEF Abstract!Next
  <2>7. CASE UNCHANGED vars
    BY <2>7 DEF vars, Ended, Executing
  <2> QED
    BY <2>1, <2>2, <2>3, <2>4, <2>5, <2>6, <2>7 DEF Next
<1> QED
  BY <1>1, <1>2, Invariant, PTL DEF Spec, ImplementsGroup, Abstract!Spec
-----------------------------------------------------------------------------
(* The retry loop.                                                         *)

(* Before a call, and while waiting for one, an attempt is left.           *)
AttemptsLeft ==
  /\ calls <= Tries
  /\ phase \in {"call", "wait"} => calls < Tries
  /\ phase = "wait" => calls > 0

(* What the loop waits for is an error it retries, for as long as Delay    *)
(* says.                                                                   *)
WaitsForIt ==
  phase = "wait" =>
    \E e \in Errors : /\ last = {e} /\ Retries(e)
                      /\ pause = Delay(e, BackOff, MaxDelay)

(* What ended the loop in failure is an error it does not retry, or the    *)
(* last attempt.                                                           *)
FailedForIt ==
  /\ phase # "done" => answer = "none"
  /\ answer = "failed" => calls = Tries \/ \A e \in last : ~Retries(e)

RetryInv == RetryTypeOK /\ AttemptsLeft /\ WaitsForIt /\ FailedForIt
-----------------------------------------------------------------------------
LEMMA RetryNumbers == BackOff \in Nat /\ MaxDelay \in Nat \ {0} /\ Configured \subseteq Nat
BY RetryAssumption

LEMMA TriesPositive == RetryTypeOK => Tries \in Nat \ {0}
BY RetryNumbers DEF RetryTypeOK, Tries

(* No pause is longer than max_delay, nor shorter than both what was asked *)
(* for and max_delay.                                                      *)
LEMMA DelayBounds ==
  ASSUME NEW e \in Errors
  PROVE  /\ Delay(e, BackOff, MaxDelay) \in 0..MaxDelay
         /\ e.after > 0 => \/ Delay(e, BackOff, MaxDelay) >= e.after
                           \/ Delay(e, BackOff, MaxDelay) = MaxDelay
BY RetryAssumption DEF ErrorRecord, Delay, Capped

LEMMA RetryInitInv == RetryInit => RetryInv
<1> SUFFICES ASSUME RetryInit PROVE RetryInv
  OBVIOUS
<1>1. RetryTypeOK
  <2>1. calls \in Nat /\ pause \in 0..MaxDelay
    BY RetryNumbers DEF RetryInit
  <2>2. last \subseteq Errors /\ cancelled \in BOOLEAN
    BY DEF RetryInit
  <2>3. attempts \in Configured /\ retryIf \in Predicates
    BY DEF RetryInit
  <2>4. phase \in {"call", "wait", "done"} /\ answer \in {"none", "ok", "failed", "cancelled"}
    BY DEF RetryInit
  <2>. QED
    BY <2>1, <2>2, <2>3, <2>4 DEF RetryTypeOK
<1>2. AttemptsLeft
  BY <1>1, TriesPositive DEF RetryInit, AttemptsLeft
<1>3. WaitsForIt /\ FailedForIt
  BY DEF RetryInit, WaitsForIt, FailedForIt
<1>. QED
  BY <1>1, <1>2, <1>3 DEF RetryInv

LEMMA SucceedsInv == RetryInv /\ Succeeds => RetryInv'
<1> SUFFICES ASSUME RetryInv, Succeeds PROVE RetryInv'
  OBVIOUS
<1>1. /\ phase = "call" /\ phase' = "done" /\ calls' = calls + 1
      /\ answer' = "ok" /\ last' = {} /\ Tries' = Tries
  BY DEF Succeeds, Tries
<1>2. calls \in Nat /\ Tries \in Nat /\ calls < Tries
  BY <1>1, TriesPositive DEF RetryInv, RetryTypeOK, AttemptsLeft
<1>3. RetryTypeOK'
  BY <1>1, <1>2 DEF RetryInv, RetryTypeOK, Succeeds
<1>4. AttemptsLeft'
  BY <1>1, <1>2 DEF AttemptsLeft
<1>. QED
  BY <1>1, <1>3, <1>4 DEF RetryInv, WaitsForIt, FailedForIt

LEMMA FailsInv == RetryInv /\ Fails => RetryInv'
<1> SUFFICES ASSUME RetryInv, Fails PROVE RetryInv'
  OBVIOUS
<1>1. PICK e \in Errors :
        /\ last' = {e}
        /\ IF Retries(e) /\ calls + 1 # Tries
             THEN /\ phase' = "wait" /\ pause' = Delay(e, BackOff, MaxDelay)
                  /\ UNCHANGED answer
             ELSE phase' = "done" /\ answer' = "failed" /\ UNCHANGED pause
  BY DEF Fails
<1>2. /\ phase = "call" /\ calls' = calls + 1 /\ attempts' = attempts
      /\ retryIf' = retryIf /\ cancelled' = cancelled
  BY DEF Fails
<1>3. /\ RetryTypeOK /\ AttemptsLeft /\ FailedForIt
      /\ calls \in Nat /\ Tries \in Nat \ {0} /\ calls < Tries /\ Tries' = Tries
  BY <1>2, TriesPositive DEF RetryInv, RetryTypeOK, AttemptsLeft, Tries
<1>4. Retries(e)' <=> Retries(e)
  BY <1>2 DEF Retries
<1>5. RetryTypeOK'
  <2>1. pause' \in 0..MaxDelay /\ phase' \in {"call", "wait", "done"}
        /\ answer' \in {"none", "ok", "failed", "cancelled"}
    BY <1>1, <1>3, DelayBounds DEF RetryTypeOK
  <2>. QED
    BY <1>1, <1>2, <1>3, <2>1 DEF RetryTypeOK
<1>6. AttemptsLeft'
  BY <1>1, <1>2, <1>3 DEF AttemptsLeft
<1>7. WaitsForIt'
  <2>. SUFFICES ASSUME phase' = "wait"
                PROVE  \E d \in Errors : /\ last' = {d} /\ Retries(d)'
                                         /\ pause' = Delay(d, BackOff, MaxDelay)
    BY DEF WaitsForIt
  <2>. WITNESS e \in Errors
  <2>. QED
    BY <1>1, <1>2, <1>4
<1>8. FailedForIt'
  <2>1. CASE Retries(e) /\ calls + 1 # Tries
    <3>1. answer' # "failed"
      BY <1>1, <1>2, <1>3, <2>1 DEF FailedForIt
    <3>. QED
      BY <1>1, <1>2, <1>3, <3>1 DEF FailedForIt
  <2>2. CASE calls + 1 = Tries
    BY <1>1, <1>2, <1>3, <2>2 DEF FailedForIt
  <2>3. CASE ~Retries(e)
    <3>1. \A d \in last' : ~Retries(d)'
      BY <1>1, <1>4, <2>3
    <3>. QED
      BY <1>1, <1>2, <1>3, <3>1 DEF FailedForIt
  <2>. QED
    BY <2>1, <2>2, <2>3
<1>. QED
  BY <1>5, <1>6, <1>7, <1>8 DEF RetryInv

THEOREM RetryInvHolds == RetrySpec => []RetryInv
<1>1. RetryInv /\ [RetryNext]_retryVars => RetryInv'
  <2>. SUFFICES ASSUME RetryInv, [RetryNext]_retryVars PROVE RetryInv'
    OBVIOUS
  <2>. USE DEF RetryInv, RetryTypeOK, AttemptsLeft, WaitsForIt, FailedForIt, Tries, Retries
  <2>1. CASE CancelledBefore
    BY <2>1 DEF CancelledBefore
  <2>2. CASE Succeeds
    BY <2>2, SucceedsInv
  <2>3. CASE Fails
    BY <2>3, FailsInv
  <2>4. CASE TimerFires
    BY <2>4 DEF TimerFires
  <2>5. CASE CancelledWaiting
    BY <2>5 DEF CancelledWaiting
  <2>6. CASE Cancel
    BY <2>6 DEF Cancel
  <2>7. CASE UNCHANGED retryVars
    BY <2>7 DEF retryVars
  <2>. QED
    BY <2>1, <2>2, <2>3, <2>4, <2>5, <2>6, <2>7 DEF RetryNext
<1>. QED
  BY RetryInitInv, <1>1, PTL DEF RetrySpec

(* The function is never called more often than configured, and once when  *)
(* retry.attempts is 0.                                                    *)
THEOREM CallsAreBounded == RetrySpec => []BoundedCalls
<1>1. RetryInv => BoundedCalls
  <2>. SUFFICES ASSUME RetryInv PROVE BoundedCalls
    OBVIOUS
  <2>1. calls \in Nat /\ attempts \in Nat /\ phase \in {"call", "wait", "done"}
    BY RetryNumbers DEF RetryInv, RetryTypeOK
  <2>. QED
    BY <2>1 DEF RetryInv, AttemptsLeft, BoundedCalls, Tries
<1>. QED
  BY RetryInvHolds, <1>1, PTL

(* A transient error is given up on only with the attempts used up.        *)
THEOREM TransientIsRetried == RetrySpec => []NoEarlySurrender
<1>1. RetryInv => NoEarlySurrender
  <2>. SUFFICES ASSUME RetryInv, answer = "failed", retryIf = "IsRetriable",
                       ~(calls >= attempts), NEW e \in last
                PROVE  ~e.network /\ ~e.marked /\ e.after = 0
                       /\ ~(e.status >= 500 \/ e.status = 429)
    BY DEF NoEarlySurrender
  <2>1. calls # Tries
    BY RetryAssumption DEF RetryInv, RetryTypeOK, Tries
  <2>2. ~IsRetriable(e)
    BY <2>1 DEF RetryInv, FailedForIt, Retries
  <2>3. e.after \in Nat
    BY RetryAssumption DEF RetryInv, RetryTypeOK, ErrorRecord
  <2>. QED
    BY <2>2, <2>3 DEF IsRetriable, IsNetworkError, ServerTrouble
<1>. QED
  BY RetryInvHolds, <1>1, PTL

(* The wait the server asked for is kept, up to max_delay.                 *)
THEOREM ServerWaitIsKept == RetrySpec => []ServerWaitKept
<1>1. RetryInv => ServerWaitKept
  BY DelayBounds DEF RetryInv, WaitsForIt, ServerWaitKept
<1>. QED
  BY RetryInvHolds, <1>1, PTL

(* What the server refused for good is not sent again.                     *)
THEOREM RefusalsEnd == RetrySpec => []RefusalIsFinal
<1>1. RetryInv => RefusalIsFinal
  <2>. SUFFICES ASSUME RetryInv, phase = "wait", retryIf # "nil", NEW e \in last
                PROVE  ~(e.status \in 400..499 \ {429} /\ ~e.network
                         /\ ~e.marked /\ e.after = 0)
    BY DEF RefusalIsFinal
  <2>1. IsRetriable(e) \/ IsNetworkError(e)
    BY DEF RetryInv, WaitsForIt, Retries
  <2>2. e.status \in Nat /\ e.after \in Nat
    BY RetryAssumption DEF RetryInv, RetryTypeOK, ErrorRecord
  <2>. QED
    BY <2>1, <2>2 DEF IsRetriable, IsNetworkError, ServerTrouble
<1>. QED
  BY RetryInvHolds, <1>1, PTL
=============================================================================
