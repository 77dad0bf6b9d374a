---------------------------- MODULE RetryPolicy ----------------------------
(***************************************************************************)
(* internal/retryx: how an error is classified, and how long a retry waits *)
(* before it. An error is what its classification reads of it.             *)
(***************************************************************************)
EXTENDS Naturals

(* network: its text is that of a network failure, or it wraps io.EOF.     *)
(* marked:  Retriable() wraps it.                                          *)
(* status:  the HTTP status when an HTTPError wraps it, 0 without answer.  *)
(* after:   the wait the server asked for, 0 when none.                    *)
(* final:   Unrecoverable() wraps it.                                      *)
ErrorRecord == [network : BOOLEAN, marked : BOOLEAN, final : BOOLEAN,
                status : Nat, after : Nat]

IsNetworkError(e) == e.network

ServerTrouble(e) == e.status >= 500 \/ e.status = 429

(* The wrappers all unwrap: none hides what is inside from errors.As, and  *)
(* their text is the text of what they wrap.                               *)
IsRetriable_NetworkOnly(e) == IsNetworkError(e)
IsRetriable(e) ==
  \/ IsNetworkError(e)
  \/ e.marked
  \/ e.after > 0
  \/ ServerTrouble(e)

(* retry-go's own predicate, in force when none is given (external).       *)
IsRecoverable(e) == ~e.final

(* A pause longer than MaxDelay is cut to it, the server's as well.        *)
Capped(d, maxDelay) == IF d > maxDelay THEN maxDelay ELSE d

Delay(e, backOff, maxDelay) ==
  Capped(IF e.after > 0 THEN e.after ELSE backOff, maxDelay)
=============================================================================
