--------------------------- MODULE SignChecksums ---------------------------
(***************************************************************************)
(* internal/pipe/sign over the checksum files of internal/pipe/checksums.  *)
(* The sign configurations run concurrently, each one refreshing and then  *)
(* signing the checksum files one after the other; the pipe refreshes them *)
(* all when it is done. A refresh truncates the file and writes it again,  *)
(* and the sign commands read it from the disk.                            *)
(***************************************************************************)
EXTENDS Naturals, Sequences, FiniteSets

CONSTANTS
  Configs,  \* ctx.Config.Signs that sign checksums, or nothing
  Nones,    \* those of them with "artifacts: none"
  Files,    \* the checksum files in the order of the artifact list
  Split,    \* checksum.split: one file per artifact
  Limit     \* ctx.Parallelism

ASSUME SignAssumption ==
  /\ IsFiniteSet(Configs) /\ Nones \subseteq Configs
  /\ Files \in Seq(STRING)
  /\ Split \in BOOLEAN
  /\ ~Split => Len(Files) = 1
  /\ Limit \in Nat \ {0}

VARIABLES
  copies,  \* how often the lines of each file are in it; 1 is what it should
           \* be, 0 is a file that is empty or stops in the middle
  holder,  \* who holds checksums.lock: a set of one or none
  at,      \* where the goroutine of each configuration is
  pos,     \* the file each of them works on
  sigs,    \* the signatures made: of what configuration, file and contents
  pipe,    \* where Run is: waiting for the group, or refreshing the files
  next,    \* the file Run refreshes next
  result

vars == <<copies, holder, at, pos, sigs, pipe, next, result>>

Positions == 1..Len(Files)
Busy == {"lock", "truncate", "write", "sign"}

Init ==
  /\ copies = [i \in Positions |-> 1]
  /\ holder = {}
  /\ at = [c \in Configs |-> "new"]
  /\ pos = [c \in Configs |-> 1]
  /\ sigs = {}
  /\ pipe = "signing" /\ next = 1
  /\ result = "none"

Goes(c, to) == at' = [at EXCEPT ![c] = to]
Stays == UNCHANGED <<pipe, next, result>>

HasRoom == Cardinality({d \in Configs : at[d] \in Busy}) < Limit

(* The group starts a goroutine; one for "none" answers with a skip.       *)
Begin(c) ==
  /\ pipe = "signing" /\ at[c] = "new"
  /\ HasRoom
  /\ Goes(c, IF c \in Nones THEN "skip" ELSE IF Files = <<>> THEN "ok" ELSE "lock")
  /\ Stays /\ UNCHANGED <<copies, holder, pos, sigs>>

(* refreshAll holds the lock; refreshOne, of split checksums, takes none.  *)
LockFree_Always == TRUE
LockFree == Split \/ holder = {}

TakeLock(c) ==
  /\ at[c] = "lock" /\ LockFree
  /\ holder' = IF Split THEN holder ELSE {c}
  /\ Goes(c, "truncate")
  /\ Stays /\ UNCHANGED <<copies, pos, sigs>>

(* defer lock.Unlock(), on every way out.                                  *)
Unlocks_OnSuccess(c) == holder' = IF at[c] = "write" THEN holder \ {c} ELSE holder
Unlocks(c) == holder' = holder \ {c}

(* Checksumming an artifact failed, before the file was touched.           *)
RefreshFails(c) ==
  /\ at[c] = "truncate"
  /\ Unlocks(c)
  /\ Goes(c, "failed")
  /\ Stays /\ UNCHANGED <<copies, pos, sigs>>

(* os.O_TRUNC, or os.WriteFile.                                            *)
Truncate(c) ==
  /\ at[c] = "truncate"
  /\ copies' = [copies EXCEPT ![pos[c]] = 0]
  /\ Goes(c, "write")
  /\ Stays /\ UNCHANGED <<holder, pos, sigs>>

(* refreshAll writes at the end of the file, refreshOne at its start.      *)
Written(i) == IF Split THEN 1 ELSE copies[i] + 1

Write(c) ==
  /\ at[c] = "write"
  /\ copies' = [copies EXCEPT ![pos[c]] = Written(pos[c])]
  /\ Unlocks(c)
  /\ Goes(c, "sign")
  /\ Stays /\ UNCHANGED <<pos, sigs>>

(* The disk is full: the file stays as short as it is by now.              *)
WriteFails(c) ==
  /\ at[c] = "write"
  /\ Unlocks(c)
  /\ Goes(c, "failed")
  /\ Stays /\ UNCHANGED <<copies, pos, sigs>>

LastFile(i) == i = Len(Files)

(* The sign command reads the file, whatever is in it by now.              *)
SignOne(c) ==
  /\ at[c] = "sign"
  /\ sigs' = sigs \cup {[by |-> c, file |-> pos[c], over |-> copies[pos[c]]]}
  /\ IF LastFile(pos[c])
       THEN UNCHANGED pos /\ Goes(c, "ok")
       ELSE pos' = [pos EXCEPT ![c] = @ + 1] /\ Goes(c, "lock")
  /\ Stays /\ UNCHANGED <<copies, holder>>

SignFails(c) ==
  /\ at[c] = "sign"
  /\ Goes(c, "failed")
  /\ Stays /\ UNCHANGED <<copies, holder, pos, sigs>>

(* g.Wait: a real error ends the pipe, a skip does not.                    *)
Failed == {c \in Configs : at[c] = "failed"}

EndsEarly == Failed # {}

Wait ==
  /\ pipe = "signing"
  /\ \A c \in Configs : at[c] \in {"ok", "skip", "failed"}
  /\ IF EndsEarly THEN pipe' = "done" /\ result' = "err"
                  ELSE pipe' = "truncate" /\ UNCHANGED result
  /\ UNCHANGED <<copies, holder, at, pos, sigs, next>>

(* ctx.Artifacts.Refresh at the end: file by file, no goroutine is left.   *)
Answer == IF \E c \in Configs : at[c] = "skip" THEN "skip" ELSE "ok"

RefreshTruncates ==
  /\ pipe = "truncate" /\ next <= Len(Files)
  /\ \/ copies' = [copies EXCEPT ![next] = 0] /\ pipe' = "write" /\ UNCHANGED result
     \/ pipe' = "done" /\ result' = "not refreshed" /\ UNCHANGED copies
  /\ UNCHANGED <<holder, at, pos, sigs, next>>

RefreshWrites ==
  /\ pipe = "write"
  /\ \/ /\ copies' = [copies EXCEPT ![next] = Written(next)]
        /\ pipe' = "truncate" /\ next' = next + 1 /\ UNCHANGED result
     \/ pipe' = "done" /\ result' = "not refreshed" /\ UNCHANGED <<copies, next>>
  /\ UNCHANGED <<holder, at, pos, sigs>>

Return ==
  /\ pipe = "truncate" /\ next > Len(Files)
  /\ pipe' = "done" /\ result' = Answer
  /\ UNCHANGED <<copies, holder, at, pos, sigs, next>>

Config(c) ==
  \/ Begin(c) \/ TakeLock(c) \/ RefreshFails(c) \/ Truncate(c) \/ Write(c)
  \/ WriteFails(c) \/ SignOne(c) \/ SignFails(c)

Run == Wait \/ RefreshTruncates \/ RefreshWrites \/ Return

Next == Run \/ \E c \in Configs : Config(c)

Spec == Init /\ [][Next]_vars

(* Goroutines are scheduled; sign commands run under the context's timeout. *)
FairSpec == Spec /\ WF_vars(Run) /\ \A c \in Configs : WF_vars(Config(c))
-----------------------------------------------------------------------------
TypeOK ==
  /\ copies \in [Positions -> 0..Cardinality(Configs) + 1]
  /\ holder \subseteq Configs
  /\ at \in [Configs -> Busy \cup {"new", "ok", "skip", "failed"}]
  /\ pos \in [Configs -> Positions \cup {1}]
  /\ \A g \in sigs : g.by \in Configs /\ g.file \in Positions
  /\ pipe \in {"signing", "truncate", "write", "done"}
  /\ next \in 1..Len(Files) + 1
  /\ result \in {"none", "ok", "skip", "err", "not refreshed"}

(* However the refreshes of concurrent configurations interleave and fail, *)
(* a checksum file never holds its lines twice. The pipe succeeds only if  *)
(* every file is whole; if it does not, a file that is cut short is one    *)
(* whose refresh failed, in a configuration or in the end.                 *)
FilesWhole ==
  /\ \A i \in Positions : copies[i] <= 1
  /\ result \in {"ok", "skip"} => \A i \in Positions : copies[i] = 1
  /\ pipe = "done" =>
       \A i \in Positions :
         \/ copies[i] = 1
         \/ \E c \in Configs : at[c] = "failed" /\ pos[c] = i
         \/ result = "not refreshed" /\ next = i

(* What a signature was made over is the checksum file that is uploaded:   *)
(* who downloads both can verify one with the other.                       *)
SignaturesVerify == \A g \in sigs : g.over = 1

(* The pipe ends: no configuration waits forever for checksums.lock.       *)
Ends == <>(pipe = "done")
=============================================================================
