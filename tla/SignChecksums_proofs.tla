------------------------ MODULE SignChecksums_proofs ------------------------
(***************************************************************************)
(* The checksum files are never doubled, and cut short only by a refresh   *)
(* that failed, which the pipe answers for, for any number of              *)
(* configurations, files and goroutines. That a signature verifies needs   *)
(* the configurations to run one at a time: it is proved for Limit = 1,    *)
(* and TLC refutes it for more.                                            *)
(***************************************************************************)
EXTENDS SignChecksums, FiniteSetTheorems, TLAPS

Types ==
  /\ copies \in [Positions -> {0, 1}]
  /\ holder \subseteq Configs
  /\ at \in [Configs -> Busy \cup {"new", "ok", "skip", "failed"}]
  /\ pos \in [Configs -> Nat]
  /\ \A c \in Configs : /\ at[c] = "new" => pos[c] = 1
                        /\ at[c] \in Busy => pos[c] \in Positions
  /\ pipe \in {"signing", "truncate", "write", "done"}
  /\ next \in 1..Len(Files) + 1
  /\ pipe = "write" => next \in Positions
  /\ result # "none" => pipe = "done"

(* An empty file is one that somebody is about to write, or failed to.     *)
EmptyMeanwhile ==
  \A i \in Positions :
    copies[i] = 0 => \/ \E c \in Configs : at[c] \in {"write", "failed"} /\ pos[c] = i
                     \/ pipe = "write" /\ next = i
                     \/ result = "not refreshed" /\ next = i

(* The lock is held from before the truncation to after the writing, by    *)
(* one configuration.                                                      *)
Locked ==
  ~Split => /\ \A c \in Configs : c \in holder <=> at[c] \in {"truncate", "write"}
            /\ \A c, d \in holder : c = d

(* With the lock, what is written next is the file just truncated.         *)
WritesTruncated ==
  /\ ~Split => \A c \in Configs : at[c] = "write" => copies[pos[c]] = 0
  /\ pipe = "write" => copies[next] = 0

(* Run refreshes when the configurations are done.                         *)
RunAlone ==
  /\ pipe # "signing" => \A c \in Configs : at[c] \in {"ok", "skip", "failed"}
  /\ pipe \in {"truncate", "write"} \/ result \in {"ok", "skip"} =>
       \A c \in Configs : at[c] # "failed"

IInv == Types /\ EmptyMeanwhile /\ Locked /\ WritesTruncated /\ RunAlone
-----------------------------------------------------------------------------
LEMMA Lengths ==
  /\ Len(Files) \in Nat
  /\ ~Split => Positions = {1}
  /\ Files # <<>> => 1 \in Positions
<1>1. Len(Files) \in Nat /\ (Files # <<>> => Len(Files) > 0)
  BY SignAssumption
<1>2. ~Split => Len(Files) = 1
  BY SignAssumption
<1>3. 1..1 = {1}
  OBVIOUS
<1>4. Files # <<>> => 1 \in 1..Len(Files)
  BY <1>1
<1>. QED
  BY <1>1, <1>2, <1>3, <1>4 DEF Positions

LEMMA InitInv == Init => IInv
BY Lengths DEF Init, IInv, Types, EmptyMeanwhile, Locked, WritesTruncated,
               RunAlone, Positions, Busy

LEMMA ConfigInv == ASSUME NEW c \in Configs PROVE IInv /\ Config(c) => IInv'
<1> SUFFICES ASSUME IInv, Config(c) PROVE IInv'
  OBVIOUS
<1> USE Lengths DEF IInv, Goes, Stays, Busy
<1>1. CASE Begin(c)
  <2>1. Types'
    BY <1>1 DEF Types, Begin
  <2>2. EmptyMeanwhile' /\ Locked' /\ WritesTruncated'
    BY <1>1 DEF Types, EmptyMeanwhile, Locked, WritesTruncated, Begin
  <2>3. RunAlone'
    BY <1>1 DEF Types, RunAlone, Begin
  <2>. QED
    BY <2>1, <2>2, <2>3
<1>2. CASE TakeLock(c)
  <2>1. Types'
    BY <1>2 DEF Types, TakeLock, LockFree
  <2>2. EmptyMeanwhile'
    BY <1>2 DEF Types, EmptyMeanwhile, RunAlone, TakeLock, LockFree
  <2>3. Locked'
    BY <1>2 DEF Types, Locked, TakeLock, LockFree
  <2>4. WritesTruncated'
    BY <1>2 DEF Types, WritesTruncated, Locked, RunAlone, TakeLock, LockFree
  <2>5. RunAlone'
    BY <1>2 DEF Types, RunAlone, TakeLock, LockFree
  <2>. QED
    BY <2>1, <2>2, <2>3, <2>4, <2>5
<1>3. CASE RefreshFails(c)
  <2>1. Types'
    BY <1>3 DEF Types, RefreshFails, Unlocks
  <2>2. EmptyMeanwhile'
    BY <1>3 DEF Types, EmptyMeanwhile, RunAlone, RefreshFails, Unlocks
  <2>3. Locked'
    BY <1>3 DEF Types, Locked, RefreshFails, Unlocks
  <2>4. WritesTruncated'
    BY <1>3 DEF Types, WritesTruncated, Locked, RunAlone, RefreshFails, Unlocks
  <2>5. RunAlone'
    BY <1>3 DEF Types, RunAlone, RefreshFails, Unlocks
  <2>. QED
    BY <2>1, <2>2, <2>3, <2>4, <2>5
<1>4. CASE Truncate(c)
  <2>1. Types'
    BY <1>4 DEF Types, Truncate
  <2>2. EmptyMeanwhile'
    BY <1>4 DEF Types, EmptyMeanwhile, RunAlone, Truncate
  <2>3. Locked'
    BY <1>4 DEF Types, Locked, Truncate
  <2>4. WritesTruncated'
    BY <1>4 DEF Types, WritesTruncated, Locked, RunAlone, Truncate
  <2>5. RunAlone'
    BY <1>4 DEF Types, RunAlone, Truncate
  <2>. QED
    BY <2>1, <2>2, <2>3, <2>4, <2>5
<1>5. CASE Write(c)
  <2>0. pos[c] \in Positions /\ Written(pos[c]) = 1
    BY <1>5 DEF Types, Write, Written, WritesTruncated
  <2>1. Types'
    <3>1. copies' = [copies EXCEPT ![pos[c]] = 1] /\ at' = [at EXCEPT ![c] = "sign"] /\ holder' \subseteq holder
      BY <1>5, <2>0 DEF Write, Unlocks
    <3>. QED
      BY <1>5, <2>0, <3>1 DEF Types, Write
  <2>2. EmptyMeanwhile'
    <3> SUFFICES ASSUME NEW i \in Positions, copies'[i] = 0
                 PROVE  \/ \E d \in Configs : at'[d] \in {"write", "failed"} /\ pos'[d] = i
                        \/ pipe' = "write" /\ next' = i
                        \/ result' = "not refreshed" /\ next' = i
      BY DEF EmptyMeanwhile
    <3>1. /\ copies' = [copies EXCEPT ![pos[c]] = 1] /\ at' = [at EXCEPT ![c] = "sign"] /\ at[c] = "write"
          /\ UNCHANGED <<pos, pipe, next, result>>
      BY <1>5, <2>0 DEF Write
    <3>2. i # pos[c] /\ copies[i] = 0
      BY <2>0, <3>1 DEF Types
    <3>3. CASE (pipe = "write" /\ next = i) \/ (result = "not refreshed" /\ next = i)
      BY <3>1, <3>3
    <3>4. CASE \E d \in Configs : at[d] \in {"write", "failed"} /\ pos[d] = i
      <4>1. PICK d \in Configs : at[d] \in {"write", "failed"} /\ pos[d] = i
        BY <3>4
      <4>2. at'[d] = at[d]
        BY <3>1, <3>2, <4>1 DEF Types
      <4>. QED
        BY <3>1, <4>1, <4>2
    <3>. QED
      BY <3>2, <3>3, <3>4 DEF EmptyMeanwhile
  <2>3. Locked'
    BY <1>5 DEF Types, Locked, Write, Written, Unlocks
  <2>4. WritesTruncated'
    BY <1>5 DEF Types, WritesTruncated, Locked, RunAlone, Write, Written, Unlocks
  <2>5. RunAlone'
    BY <1>5 DEF Types, RunAlone, Write, Written, Unlocks
  <2>. QED
    BY <2>1, <2>2, <2>3, <2>4, <2>5
<1>8. CASE WriteFails(c)
  <2>1. Types'
    BY <1>8 DEF Types, WriteFails, Unlocks
  <2>2. EmptyMeanwhile'
    BY <1>8 DEF Types, EmptyMeanwhile, RunAlone, WriteFails, Unlocks
  <2>3. Locked'
    BY <1>8 DEF Types, Locked, WriteFails, Unlocks
  <2>4. WritesTruncated'
    BY <1>8 DEF Types, WritesTruncated, Locked, RunAlone, WriteFails, Unlocks
  <2>5. RunAlone'
    BY <1>8 DEF Types, RunAlone, WriteFails, Unlocks
  <2>. QED
    BY <2>1, <2>2, <2>3, <2>4, <2>5
<1>6. CASE SignOne(c)
  <2>1. pos[c] \in Positions /\ pos[c] \in Nat /\ pipe = "signing"
    BY <1>6 DEF Types, RunAlone, SignOne
  <2>2. ~LastFile(pos[c]) => pos[c] + 1 \in Positions
    BY <2>1 DEF LastFile, Positions
  <2>3. Types'
    BY <1>6, <2>1, <2>2 DEF Types, SignOne
  <2>4. EmptyMeanwhile'
    <3> SUFFICES ASSUME NEW i \in Positions, copies'[i] = 0
                 PROVE  \/ \E d \in Configs : at'[d] \in {"write", "failed"} /\ pos'[d] = i
                        \/ pipe' = "write" /\ next' = i
                        \/ result' = "not refreshed" /\ next' = i
      BY DEF EmptyMeanwhile
    <3>1. /\ copies[i] = 0 /\ at[c] = "sign" /\ UNCHANGED <<pipe, next, result>>
          /\ \A d \in Configs \ {c} : at'[d] = at[d] /\ pos'[d] = pos[d]
      BY <1>6 DEF SignOne, Types
    <3>2. CASE (pipe = "write" /\ next = i) \/ (result = "not refreshed" /\ next = i)
      BY <3>1, <3>2
    <3>3. CASE \E d \in Configs : at[d] \in {"write", "failed"} /\ pos[d] = i
      <4>1. PICK d \in Configs : at[d] \in {"write", "failed"} /\ pos[d] = i
        BY <3>3
      <4>. QED
        BY <3>1, <4>1
    <3>. QED
      BY <3>1, <3>2, <3>3 DEF EmptyMeanwhile
  <2>5. Locked' /\ WritesTruncated'
    BY <1>6, <2>1 DEF Types, Locked, WritesTruncated, RunAlone, SignOne
  <2>6. RunAlone'
    BY <1>6, <2>1 DEF Types, RunAlone, SignOne
  <2>. QED
    BY <2>3, <2>4, <2>5, <2>6
<1>7. CASE SignFails(c)
  <2>1. Types'
    BY <1>7 DEF Types, SignFails
  <2>2. EmptyMeanwhile'
    BY <1>7 DEF Types, EmptyMeanwhile, RunAlone, SignFails
  <2>3. Locked'
    BY <1>7 DEF Types, Locked, SignFails
  <2>4. WritesTruncated'
    BY <1>7 DEF Types, WritesTruncated, Locked, RunAlone, SignFails
  <2>5. RunAlone'
    BY <1>7 DEF Types, RunAlone, SignFails
  <2>. QED
    BY <2>1, <2>2, <2>3, <2>4, <2>5
<1>. QED
  BY <1>1, <1>2, <1>3, <1>4, <1>5, <1>6, <1>7, <1>8 DEF Config

LEMMA RunInv == IInv /\ Run => IInv'
<1> SUFFICES ASSUME IInv, Run PROVE IInv'
  OBVIOUS
<1> USE Lengths DEF IInv
<1>1. CASE Wait
  <2>1. Types'
    BY <1>1 DEF Types, RunAlone, Wait
  <2>2. EmptyMeanwhile'
    BY <1>1 DEF Types, EmptyMeanwhile, RunAlone, Wait
  <2>3. Locked' /\ WritesTruncated'
    BY <1>1 DEF Types, Locked, WritesTruncated, Wait
  <2>4. RunAlone'
    BY <1>1 DEF Types, RunAlone, Wait, EndsEarly, Failed
  <2>. QED
    BY <2>1, <2>2, <2>3, <2>4
<1>2. CASE RefreshTruncates
  <2>1. \A c \in Configs : at[c] \in {"ok", "skip"}
    BY <1>2 DEF RunAlone, RefreshTruncates
  <2>2. next \in Positions
    <3>1. next \in 1..Len(Files) + 1 /\ next <= Len(Files) /\ Len(Files) \in Nat
      BY <1>2 DEF RefreshTruncates, Types
    <3>. QED
      BY <3>1 DEF Positions
  <2>3. CASE pipe' = "write" /\ copies' = [copies EXCEPT ![next] = 0]
    <3>1. Types'
      BY <1>2, <2>2, <2>3 DEF Types, RefreshTruncates
    <3>2. EmptyMeanwhile'
      BY <1>2, <2>1, <2>2, <2>3 DEF Types, EmptyMeanwhile, RefreshTruncates
    <3>3. Locked' /\ WritesTruncated' /\ RunAlone'
      BY <1>2, <2>1, <2>2, <2>3 DEF Types, Locked, WritesTruncated, RunAlone, RefreshTruncates
    <3>. QED
      BY <3>1, <3>2, <3>3
  <2>4. CASE pipe' = "done" /\ result' = "not refreshed" /\ UNCHANGED copies
    <3>1. Types' /\ Locked' /\ WritesTruncated' /\ RunAlone'
      BY <1>2, <2>1, <2>4 DEF Types, Locked, WritesTruncated, RunAlone, RefreshTruncates
    <3>2. EmptyMeanwhile'
      BY <1>2, <2>1, <2>4 DEF Types, EmptyMeanwhile, RefreshTruncates
    <3>. QED
      BY <3>1, <3>2
  <2>. QED
    BY <1>2, <2>3, <2>4 DEF RefreshTruncates
<1>3. CASE RefreshWrites
  <2>1. /\ next \in Positions /\ copies[next] = 0 /\ Written(next) = 1 /\ result = "none"
        /\ \A c \in Configs : at[c] \in {"ok", "skip"}
    <3>1. pipe = "write"
      BY <1>3 DEF RefreshWrites
    <3>2. next \in Positions /\ copies[next] = 0 /\ result = "none"
      BY <3>1 DEF Types, WritesTruncated
    <3>3. \A c \in Configs : at[c] \in {"ok", "skip"}
      BY <3>1 DEF RunAlone
    <3>. QED
      BY <3>2, <3>3 DEF Written
  <2>2. next + 1 \in 1..Len(Files) + 1
    BY <2>1 DEF Positions
  <2>3. CASE pipe' = "done"
    <3>1. Types' /\ Locked' /\ WritesTruncated' /\ RunAlone'
      BY <1>3, <2>1, <2>3 DEF Types, Locked, WritesTruncated, RunAlone, RefreshWrites
    <3>2. EmptyMeanwhile'
      BY <1>3, <2>1, <2>3 DEF Types, EmptyMeanwhile, RefreshWrites
    <3>. QED
      BY <3>1, <3>2
  <2>4. CASE pipe' = "truncate"
    <3>1. Types'
      BY <1>3, <2>1, <2>2, <2>4 DEF Types, RefreshWrites
    <3>2. EmptyMeanwhile'
      BY <1>3, <2>1, <2>4 DEF Types, EmptyMeanwhile, RefreshWrites
    <3>3. Locked' /\ WritesTruncated' /\ RunAlone'
      BY <1>3, <2>1, <2>4 DEF Types, Locked, WritesTruncated, RunAlone, RefreshWrites
    <3>. QED
      BY <3>1, <3>2, <3>3
  <2>. QED
    BY <1>3, <2>3, <2>4 DEF RefreshWrites
<1>4. CASE Return
  <2>1. \A c \in Configs : at[c] \in {"ok", "skip"}
    BY <1>4 DEF RunAlone, Return
  <2>2. Types' /\ Locked' /\ WritesTruncated' /\ RunAlone'
    BY <1>4, <2>1 DEF Types, Locked, WritesTruncated, RunAlone, Return
  <2>3. EmptyMeanwhile'
    BY <1>4, <2>1 DEF Types, EmptyMeanwhile, Return
  <2>. QED
    BY <2>2, <2>3
<1>. QED
  BY <1>1, <1>2, <1>3, <1>4 DEF Run

THEOREM IInvHolds == Spec => []IInv
<1>1. IInv /\ UNCHANGED vars => IInv'
  <2> SUFFICES ASSUME IInv, UNCHANGED vars PROVE IInv'
    OBVIOUS
  <2>. USE DEF IInv, vars
  <2>1. Types' /\ Locked'
    BY DEF Types, Locked
  <2>2. EmptyMeanwhile' /\ WritesTruncated' /\ RunAlone'
    BY DEF EmptyMeanwhile, WritesTruncated, RunAlone
  <2>. QED
    BY <2>1, <2>2
<1>2. IInv /\ [Next]_vars => IInv'
  BY <1>1, ConfigInv, RunInv DEF Next
<1>. QED
  BY InitInv, <1>2, PTL DEF Spec

(* However the configurations interleave and fail, a checksum file never   *)
(* holds its lines twice; every one is whole when the pipe succeeds, and   *)
(* one that is not when it fails is one whose refresh failed.              *)
THEOREM ChecksumFilesWhole == Spec => []FilesWhole
<1>1. ASSUME IInv PROVE FilesWhole
  <2>1. \A i \in Positions : copies[i] \in {0, 1} /\ copies[i] <= 1
    BY <1>1 DEF IInv, Types
  <2>2. ASSUME pipe = "done", NEW i \in Positions, copies[i] = 0
        PROVE  \/ \E c \in Configs : at[c] = "failed" /\ pos[c] = i
               \/ result = "not refreshed" /\ next = i
    BY <1>1, <2>2 DEF IInv, EmptyMeanwhile, RunAlone
  <2>3. ASSUME result \in {"ok", "skip"}, NEW i \in Positions PROVE copies[i] = 1
    <3>1. pipe = "done" /\ \A c \in Configs : at[c] # "failed"
      BY <1>1, <2>3 DEF IInv, Types, RunAlone
    <3>. QED
      BY <2>1, <2>2, <2>3, <3>1
  <2>. QED
    BY <2>1, <2>2, <2>3 DEF FilesWhole
<1>. QED
  BY IInvHolds, <1>1, PTL
-----------------------------------------------------------------------------
(* At most one configuration is at work, and what was signed was whole.    *)
Serial == \A c, d \in Configs : at[c] \in Busy /\ at[d] \in Busy => c = d

(* With one goroutine at a time every signature is over a whole file.      *)
THEOREM SerialSignaturesVerify ==
  ASSUME Limit = 1 PROVE Spec => [](Serial /\ SignaturesVerify)
<1>. DEFINE SignsWhole == \A c \in Configs : at[c] = "sign" => copies[pos[c]] = 1
            J == Serial /\ SignsWhole /\ SignaturesVerify
<1>1. Init => J
  BY DEF Init, Serial, SignaturesVerify, Busy
<1>2. ASSUME IInv, J, NEW c \in Configs, Config(c) PROVE J'
  <2>. USE <1>2 DEF Goes, Stays, Busy
  <2>1. CASE Begin(c)
    <3>1. {d \in Configs : at[d] \in Busy} = {}
      <4>. DEFINE B == {d \in Configs : at[d] \in Busy}
      <4>1. IsFiniteSet(B) /\ Cardinality(B) < 1
        BY <2>1, SignAssumption, FS_Subset DEF Begin, HasRoom
      <4>. QED
        BY <4>1, FS_EmptySet, FS_CardinalityType
    <3>. QED
      BY <2>1, <3>1 DEF Begin, Serial, SignaturesVerify, IInv, Types
  <2>2. CASE SignOne(c)
    BY <2>2 DEF SignOne, Serial, SignaturesVerify, IInv, Types
  <2>4. CASE Write(c)
    <3>1. /\ pos[c] \in Positions /\ Written(pos[c]) = 1 /\ pos' = pos
          /\ copies \in [Positions -> {0, 1}] /\ at \in [Configs -> Busy \cup {"new", "ok", "skip", "failed"}]
      BY <2>4 DEF Write, Written, IInv, Types, WritesTruncated
    <3>2. copies'[pos[c]] = 1 /\ at' = [at EXCEPT ![c] = "sign"] /\ at[c] = "write"
      BY <2>4, <3>1 DEF Write
    <3>. QED
      BY <2>4, <3>1, <3>2 DEF Write, Serial, SignaturesVerify
  <2>3. CASE TakeLock(c) \/ RefreshFails(c) \/ Truncate(c) \/ WriteFails(c) \/ SignFails(c)
    BY <2>3 DEF TakeLock, RefreshFails, Truncate, WriteFails, SignFails, Serial,
                SignaturesVerify, IInv, Types
  <2>. QED
    BY <2>1, <2>2, <2>3, <2>4 DEF Config
<1>3. ASSUME IInv, J, Run PROVE J'
  BY <1>3 DEF Run, Wait, RefreshTruncates, RefreshWrites, Return, Serial, SignaturesVerify,
              IInv, RunAlone
<1>4. J /\ UNCHANGED vars => J'
  BY DEF vars, Serial, SignaturesVerify
<1>5. IInv /\ J /\ [Next]_vars => J'
  BY <1>2, <1>3, <1>4 DEF Next
<1>. QED
  BY IInvHolds, <1>1, <1>5, PTL DEF Spec
=============================================================================
