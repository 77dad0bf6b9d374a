------------------------------ MODULE MCRetry ------------------------------
(* One error of each class the callers of retryx produce.                  *)
EXTENDS Retry

Plain == [network |-> FALSE, marked |-> FALSE, final |-> FALSE,
          status |-> 0, after |-> 0]
Refused == [Plain EXCEPT !.status = 404]
Broken == [Plain EXCEPT !.status = 503]
Reset == [Plain EXCEPT !.network = TRUE]
TooMany == [Plain EXCEPT !.status = 429]
RateLimited == [Plain EXCEPT !.status = 403, !.after = 2]
LongLimited == [Plain EXCEPT !.status = 403, !.after = 9]
Marked == [Plain EXCEPT !.status = 422, !.marked = TRUE]
FinalLocal == [Plain EXCEPT !.final = TRUE]
FinalBroken == [Broken EXCEPT !.final = TRUE]

(* FinalBroken: deleteReleaseArtifact gave up on a 503 and Upload wraps    *)
(* its error in Unrecoverable.                                             *)
AllErrors == {Plain, Refused, Broken, Reset, TooMany, RateLimited,
              LongLimited, Marked, FinalLocal, FinalBroken}
AllPredicates == {"nil", "IsRetriable", "IsNetworkError"}
UpToThree == 0..3
=============================================================================
