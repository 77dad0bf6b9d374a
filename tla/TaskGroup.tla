----------------------------- MODULE TaskGroup -----------------------------
(***************************************************************************)
(* internal/semerrgroup: a group of tasks over golang.org/x/sync/errgroup. *)
(* A pipe calls Go for each of its tasks in a loop and then Wait.          *)
(*                                                                         *)
(* errgroup (external): Go takes a token of the semaphore channel, which   *)
(* blocks the caller while Limit tokens are out, and starts a goroutine;   *)
(* when the function returns, the first non-nil error is kept (errOnce)    *)
(* and the token is given back. There is no context: a failure stops no    *)
(* other task. skipAwareGroup takes skips out of the tasks' errors;        *)
(* blockingFirstGroup calls the first function in the caller.              *)
(***************************************************************************)
EXTENDS Naturals, FiniteSets

CONSTANTS
  N,          \* number of tasks the pipe submits
  Limit,      \* the size given to New: ctx.Parallelism, or 1
  Shapes      \* the sets of wrappers the pipes put around New(Limit)

(* ctx.Parallelism is GOMAXPROCS or a positive flag, never 0.              *)
ASSUME GroupAssumption ==
  /\ N \in Nat /\ Limit \in Nat \ {0}
  /\ Shapes \subseteq SUBSET {"skipAware", "blockingFirst"}

VARIABLES
  wraps,      \* the wrappers of this group
  submitted,  \* how many of the tasks Go has returned for or is running inline
  status,     \* where each task is
  outcome,    \* class of the error its function returned
  tokens,     \* tokens taken from the semaphore channel
  firstDone,  \* blockingFirstGroup.firstDone
  groupErr,   \* task whose error errOnce kept, 0 when none
  skipErr,    \* tasks whose skip skipAwareGroup recorded
  result      \* what Wait returned: the class, and the tasks it speaks of

vars ==
  <<wraps, submitted, status, outcome, tokens, firstDone, groupErr, skipErr, result>>

SkipAware == "skipAware" \in wraps       \* NewSkipAware(...)
FirstAlone == "blockingFirst" \in wraps  \* NewBlockingFirst(...)

Task == 1..N
Outcome == {"ok", "skip", "fail"}
InPool == {t \in Task : status[t] \in {"running", "returned"}}
NoResult == [class |-> "none", of |-> {}]

(* Some operators come with a variant, named after them with a suffix: a   *)
(* slip the code could contain, which no specification uses and which the  *)
(* properties are shown to notice.                                         *)

(* The semaphore channel has capacity Limit.                               *)
HasRoom == tokens < Limit

(* blockingFirstGroup lets a task into the pool after its first call.      *)
FirstOver == FirstAlone => firstDone

(* errgroup.done: the token goes back whatever the function returned.      *)
GivenBack_OnSuccess(t) == IF outcome[t] = "ok" THEN tokens - 1 ELSE tokens
GivenBack(t) == tokens - 1

(* errgroup.Wait blocks until every goroutine is done.                     *)
AllDone_OrFailed ==
  \/ groupErr # 0
  \/ submitted = N /\ \A t \in Task : status[t] = "done"
AllDone == submitted = N /\ \A t \in Task : status[t] = "done"

Init ==
  /\ wraps \in Shapes
  /\ submitted = 0
  /\ status = [t \in Task |-> "new"]
  /\ outcome = [t \in Task |-> "pending"]
  /\ tokens = 0
  /\ firstDone = FALSE
  /\ groupErr = 0
  /\ skipErr = {}
  /\ result = NoResult

(* errgroup.Go, directly or through the wrappers: blocked while all tokens *)
(* are out.                                                                *)
Go ==
  /\ submitted < N
  /\ FirstOver
  /\ HasRoom
  /\ submitted' = submitted + 1
  /\ status' = [status EXCEPT ![submitted + 1] = "running"]
  /\ tokens' = tokens + 1
  /\ UNCHANGED <<wraps, outcome, firstDone, groupErr, skipErr, result>>

(* blockingFirstGroup.Go, first call: fn runs in the caller, under firstMu. *)
GoFirst ==
  /\ FirstAlone /\ ~firstDone
  /\ submitted = 0 /\ submitted < N
  /\ submitted' = 1
  /\ status' = [status EXCEPT ![1] = "inline"]
  /\ UNCHANGED <<wraps, outcome, tokens, firstDone, groupErr, skipErr, result>>

(* The first function returned: no error ends it, an error is handed to    *)
(* the inner group as a task of its own, which needs a token.              *)
FirstReturns ==
  /\ \E t \in Task : status[t] = "inline"
  /\ \/ /\ status' = [status EXCEPT ![1] = "done"]
        /\ outcome' = [outcome EXCEPT ![1] = "ok"]
        /\ UNCHANGED tokens
     \/ /\ HasRoom
        /\ status' = [status EXCEPT ![1] = "returned"]
        /\ \E o \in {"skip", "fail"} : outcome' = [outcome EXCEPT ![1] = o]
        /\ tokens' = tokens + 1
  /\ firstDone' = TRUE
  /\ UNCHANGED <<wraps, submitted, groupErr, skipErr, result>>

(* The function of a task in the pool returned.                            *)
Return(t) ==
  /\ status[t] = "running"
  /\ status' = [status EXCEPT ![t] = "returned"]
  /\ \E o \in Outcome : outcome' = [outcome EXCEPT ![t] = o]
  /\ UNCHANGED <<wraps, submitted, tokens, firstDone, groupErr, skipErr, result>>

(* skipAwareGroup's closure keeps a skip for later and hands nil to        *)
(* errgroup, which keeps the first error and gives the token back.         *)
KeepsSkip(t) == SkipAware /\ outcome[t] = "skip"

Retire(t) ==
  /\ status[t] = "returned"
  /\ status' = [status EXCEPT ![t] = "done"]
  /\ tokens' = GivenBack(t)
  /\ skipErr' = IF KeepsSkip(t) THEN skipErr \cup {t} ELSE skipErr
  /\ groupErr' = IF groupErr = 0 /\ outcome[t] # "ok" /\ ~KeepsSkip(t)
                   THEN t ELSE groupErr
  /\ UNCHANGED <<wraps, submitted, outcome, firstDone, result>>

Verdict_SkipsFirst ==
  IF skipErr # {} THEN [class |-> "skip", of |-> skipErr]
  ELSE IF groupErr # 0 THEN [class |-> outcome[groupErr], of |-> {groupErr}]
  ELSE [class |-> "ok", of |-> {}]

(* Wait returns when the last goroutine is done: the real error, else the  *)
(* skips, else nil.                                                        *)
Verdict ==
  IF groupErr # 0 THEN [class |-> outcome[groupErr], of |-> {groupErr}]
  ELSE IF skipErr # {} THEN [class |-> "skip", of |-> skipErr]
  ELSE [class |-> "ok", of |-> {}]

Wait ==
  /\ AllDone
  /\ result = NoResult
  /\ result' = Verdict
  /\ UNCHANGED <<wraps, submitted, status, outcome, tokens, firstDone, groupErr, skipErr>>

Next ==
  \/ Go
  \/ GoFirst
  \/ FirstReturns
  \/ \E t \in Task : Return(t) \/ Retire(t)
  \/ Wait

Spec == Init /\ [][Next]_vars

(* The goroutines are scheduled and the tasks' functions return: commands  *)
(* and requests run under the timeout of the release context.              *)
Fairness ==
  /\ WF_vars(Go) /\ WF_vars(GoFirst) /\ WF_vars(FirstReturns) /\ WF_vars(Wait)
  /\ \A t \in Task : WF_vars(Return(t)) /\ WF_vars(Retire(t))

FairSpec == Spec /\ Fairness
-----------------------------------------------------------------------------
TypeOK ==
  /\ wraps \in Shapes
  /\ submitted \in 0..N
  /\ status \in [Task -> {"new", "inline", "running", "returned", "done"}]
  /\ outcome \in [Task -> Outcome \cup {"pending"}]
  /\ tokens \in 0..Limit
  /\ firstDone \in BOOLEAN
  /\ groupErr \in Task \cup {0}
  /\ skipErr \subseteq Task
  /\ result \in [class : Outcome \cup {"none"}, of : SUBSET Task]

(* The tokens that are out are those of the goroutines that have not given *)
(* theirs back, on the error and skip paths too: none leaks, so Go never   *)
(* blocks forever and never lets more than Limit tasks in.                 *)
TokensMatchPool == tokens = Cardinality(InPool)

(* A group that runs its first task alone (the snapcraft and flatpak pipes *)
(* rely on it to set up a shared cache) has no other task under way before *)
(* the first one returned, failed or not.                                  *)
FirstRunsAlone ==
  FirstAlone =>
    \A t \in Task \ {1} : outcome[1] = "pending" => status[t] = "new"

(* Wait answers for every task, not only for those that ended before the   *)
(* first failure; what it answers is what the tasks returned, and with     *)
(* skips set apart a skip never hides a failure.                           *)
WaitIsFaithful ==
  result.class # "none" =>
    /\ \A t \in Task : status[t] = "done" /\ outcome[t] # "pending"
    /\ \A t \in result.of : outcome[t] = result.class
    /\ result.class = "ok" <=> \A t \in Task : outcome[t] = "ok"
    /\ SkipAware /\ result.class = "skip" =>
         /\ \A t \in Task : outcome[t] # "fail"
         /\ result.of = {t \in Task : outcome[t] = "skip"}

(* Every pipe that loops over Go and then calls Wait gets its answer.      *)
WaitReturns == <>(result.class # "none")

(* The state of TaskGroupSpec: a task ended when its function returned.    *)
Ended == [t \in Task |-> IF status[t] \in {"returned", "done"} THEN outcome[t]
                                                              ELSE "pending"]
Executing == {t \in Task : status[t] \in {"inline", "running"}}

Abstract == INSTANCE TaskGroupSpec WITH
  wraps <- wraps, ended <- Ended, executing <- Executing, verdict <- result.class

(* The group implements its promise: order, limit, first task alone and    *)
(* the verdict of Wait.                                                    *)
ImplementsGroup == Abstract!Spec
=============================================================================
