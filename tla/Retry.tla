------------------------------- MODULE Retry -------------------------------
(***************************************************************************)
(* retryx.Do and DoWithData over retry-go: call the function, and call it  *)
(* again after a pause while its error is one to retry and attempts are    *)
(* left. The context may be cancelled at any time.                         *)
(***************************************************************************)
EXTENDS RetryPolicy

CONSTANTS
  Errors,       \* errors the function may return
  Configured,   \* values of retry.attempts, 0 included
  Predicates,   \* retryIf: "nil", IsRetriable or IsNetworkError
  BackOff,      \* the pause of exponential backoff, one value of it
  MaxDelay      \* retry.max_delay; defaults never leave it at 0

ASSUME RetryAssumption ==
  /\ Errors \subseteq ErrorRecord
  /\ Configured \subseteq Nat
  /\ Predicates \subseteq {"nil", "IsRetriable", "IsNetworkError"}
  /\ BackOff \in Nat /\ MaxDelay \in Nat \ {0}

VARIABLES
  attempts,   \* config.Retry.Attempts
  retryIf,    \* the predicate passed to Do
  phase,      \* "call", "wait", "done"
  calls,      \* calls made
  last,       \* the errors of the last call: one, or none
  pause,      \* the wait before the next call
  cancelled,  \* the context is done
  answer      \* what Do returns: "none" while it runs

retryVars == <<attempts, retryIf, phase, calls, last, pause, cancelled, answer>>

(* max(c.Attempts, 1): retry-go takes 0 for "without end".                 *)
Tries_AsGiven == attempts
Tries == IF attempts = 0 THEN 1 ELSE attempts

Retries(e) ==
  \/ retryIf = "nil" /\ IsRecoverable(e)
  \/ retryIf = "IsRetriable" /\ IsRetriable(e)
  \/ retryIf = "IsNetworkError" /\ IsNetworkError(e)

RetryInit ==
  /\ attempts \in Configured /\ retryIf \in Predicates
  /\ phase = "call" /\ calls = 0 /\ last = {} /\ pause = 0
  /\ cancelled = FALSE /\ answer = "none"

(* retry-go looks at the context once before the first call.               *)
CancelledBefore ==
  /\ phase = "call" /\ calls = 0 /\ cancelled
  /\ phase' = "done" /\ answer' = "cancelled"
  /\ UNCHANGED <<attempts, retryIf, calls, last, pause, cancelled>>

Succeeds ==
  /\ phase = "call" /\ (calls = 0 => ~cancelled)
  /\ calls' = calls + 1 /\ last' = {}
  /\ phase' = "done" /\ answer' = "ok"
  /\ UNCHANGED <<attempts, retryIf, pause, cancelled>>

(* An error that is not to be retried ends the loop, and so does the last  *)
(* attempt; LastErrorOnly returns that error.                              *)
Fails ==
  /\ phase = "call" /\ (calls = 0 => ~cancelled)
  /\ calls' = calls + 1
  /\ \E e \in Errors :
       /\ last' = {e}
       /\ IF Retries(e) /\ calls + 1 # Tries
            THEN /\ phase' = "wait" /\ pause' = Delay(e, BackOff, MaxDelay)
                 /\ UNCHANGED answer
            ELSE phase' = "done" /\ answer' = "failed" /\ UNCHANGED pause
  /\ UNCHANGED <<attempts, retryIf, cancelled>>

(* The select between the timer and the context: with both ready, either.  *)
TimerFires ==
  /\ phase = "wait" /\ phase' = "call"
  /\ UNCHANGED <<attempts, retryIf, calls, last, pause, cancelled, answer>>

CancelledWaiting ==
  /\ phase = "wait" /\ cancelled
  /\ phase' = "done" /\ answer' = "cancelled"
  /\ UNCHANGED <<attempts, retryIf, calls, last, pause, cancelled>>

Cancel ==
  /\ phase # "done" /\ ~cancelled /\ cancelled' = TRUE
  /\ UNCHANGED <<attempts, retryIf, phase, calls, last, pause, answer>>

RetryNext ==
  \/ CancelledBefore \/ Succeeds \/ Fails
  \/ TimerFires \/ CancelledWaiting \/ Cancel

RetrySpec == RetryInit /\ [][RetryNext]_retryVars
-----------------------------------------------------------------------------
RetryTypeOK ==
  /\ attempts \in Configured /\ retryIf \in Predicates
  /\ phase \in {"call", "wait", "done"}
  /\ calls \in Nat /\ pause \in 0..MaxDelay
  /\ last \subseteq Errors
  /\ cancelled \in BOOLEAN
  /\ answer \in {"none", "ok", "failed", "cancelled"}

(* The function is called as often as the user asked at most, and once     *)
(* when retrying is configured away: a side effect is not repeated more.   *)
BoundedCalls ==
  /\ calls <= attempts \/ calls <= 1
  /\ phase = "wait" => calls < attempts

(* A failure is given back only when it was the last attempt's, or when    *)
(* trying again could not help: a transient error that goes through        *)
(* IsRetriable is never given up on early.                                 *)
NoEarlySurrender ==
  answer = "failed" /\ retryIf = "IsRetriable" =>
    \/ calls >= attempts
    \/ \A e \in last : ~e.network /\ ~e.marked /\ e.after = 0 /\ ~(e.status >= 500 \/ e.status = 429)

(* A pause that the server asked for is kept, up to max_delay.             *)
ServerWaitKept ==
  phase = "wait" =>
    \A e \in last : e.after > 0 => pause >= e.after \/ pause = MaxDelay

(* A request the server refused (4xx other than 429, no rate limit) is not *)
(* sent again.                                                             *)
RefusalIsFinal ==
  phase = "wait" /\ retryIf # "nil" =>
    \A e \in last :
      ~(e.status \in 400..499 \ {429} /\ ~e.network /\ ~e.marked /\ e.after = 0)

=============================================================================
