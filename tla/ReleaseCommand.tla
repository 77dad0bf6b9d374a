--------------------------- MODULE ReleaseCommand ---------------------------
(***************************************************************************)
(* cmd/release.go: the release command. It runs the pipes in order and     *)
(* stops at the first real error; the publish pipe runs the publishers and *)
(* goes on after a failure of some of them, the announce pipe runs every   *)
(* announcer. A pipe that answers with a skip counts as run: errhandler    *)
(* turns skips into nil, and skip.Maybe leaves a disabled pipe out.        *)
(***************************************************************************)
EXTENDS Naturals, Sequences

CONSTANTS
  Pipes,        \* the pipeline, "publish" and "announce" among its pipes
  Publishers,   \* the publishers, in order
  Continuable,  \* publishers whose ContinueOnError answers true
  Announcers    \* the announcers, in order

(* Publishing comes once, announcing after it and last.                    *)
ASSUME OrderAssumption ==
  /\ Pipes \in Seq(STRING) /\ Publishers \in Seq(STRING) /\ Announcers \in Seq(STRING)
  /\ \E p \in 1..Len(Pipes) :
       /\ Pipes[p] = "publish"
       /\ \A i \in 1..Len(Pipes) : Pipes[i] = "publish" => i = p
       /\ \A i \in 1..Len(Pipes) : Pipes[i] = "announce" => p < i /\ i = Len(Pipes)

VARIABLES
  options,    \* --snapshot, --fail-fast and --skip as given
  skips,      \* ctx.Skips, of the keys that matter here
  stage,      \* where the command is
  at,         \* the next pipe
  pubAt,      \* the next publisher
  annAt,      \* the next announcer
  pipeFailed, \* pipes that answered with an error
  pubFailed,  \* publishers that did: the memo of publish.Pipe.Run, or its error
  annFailed,  \* announcers that did: the memo of announce.Pipe.Run
  result      \* what releaseProject returned

vars == <<options, skips, stage, at, pubAt, annAt,
          pipeFailed, pubFailed, annFailed, result>>

SkipKeys == {"publish", "announce", "validate"}
Options == [snapshot : BOOLEAN, failFast : BOOLEAN, skip : SUBSET SkipKeys]

Init ==
  /\ options \in Options
  /\ skips = {}
  /\ stage = "setup"
  /\ at = 1 /\ pubAt = 1 /\ annAt = 1
  /\ pipeFailed = {} /\ pubFailed = {} /\ annFailed = {}
  /\ result = "none"

(* setupReleaseContext: a snapshot skips publishing, announcing and        *)
(* validation, and what is not published is not announced.                 *)
Given(o) ==
  IF o.snapshot THEN o.skip \cup {"publish", "announce", "validate"} ELSE o.skip

EffectiveSkips_NoSnapshot(o) ==
  IF "publish" \in o.skip THEN o.skip \cup {"announce"} ELSE o.skip
EffectiveSkips(o) ==
  IF "publish" \in Given(o) THEN Given(o) \cup {"announce"} ELSE Given(o)

Setup ==
  /\ stage = "setup"
  /\ skips' = EffectiveSkips(options)
  /\ stage' = "pipes"
  /\ UNCHANGED <<options, at, pubAt, annAt, pipeFailed, pubFailed, annFailed, result>>

(* loadConfig or setupReleaseContext failed: no pipe runs.                 *)
SetupFails ==
  /\ stage = "setup"
  /\ stage' = "done" /\ result' = "err"
  /\ UNCHANGED <<options, skips, at, pubAt, annAt, pipeFailed, pubFailed, annFailed>>

AtPipe == stage = "pipes" /\ at <= Len(Pipes)

(* A pipe ran or was skipped: publish by its key alone, announce by its    *)
(* key or by announce.skip of the configuration.                           *)
PassPipe ==
  /\ AtPipe
  /\ Pipes[at] = "publish" => "publish" \in skips
  /\ at' = at + 1
  /\ UNCHANGED <<options, skips, stage, pubAt, annAt,
                 pipeFailed, pubFailed, annFailed, result>>

(* A pipe failed, or its Skip did: the command ends.                       *)
PipeFails ==
  /\ AtPipe
  /\ Pipes[at] # "publish"
  /\ pipeFailed' = pipeFailed \cup {Pipes[at]}
  /\ stage' = "done" /\ result' = "err"
  /\ UNCHANGED <<options, skips, at, pubAt, annAt, pubFailed, annFailed>>

EnterStage ==
  /\ AtPipe
  /\ Pipes[at] \in {"publish", "announce"} \ skips
  /\ stage' = Pipes[at]
  /\ UNCHANGED <<options, skips, at, pubAt, annAt,
                 pipeFailed, pubFailed, annFailed, result>>

(* publish.Pipe.Run, one publisher.                                        *)
PublisherOK ==
  /\ stage = "publish" /\ pubAt <= Len(Publishers)
  /\ pubAt' = pubAt + 1
  /\ UNCHANGED <<options, skips, stage, at, annAt,
                 pipeFailed, pubFailed, annFailed, result>>

SetAside_Always(p) == p \in Continuable
SetAside(p) == p \in Continuable /\ ~options.failFast

PublisherFails ==
  /\ stage = "publish" /\ pubAt <= Len(Publishers)
  /\ pubFailed' = pubFailed \cup {pubAt}
  /\ IF SetAside(Publishers[pubAt])
       THEN pubAt' = pubAt + 1 /\ UNCHANGED <<stage, pipeFailed, result>>
       ELSE /\ stage' = "done" /\ result' = "err"
            /\ pipeFailed' = pipeFailed \cup {"publish"}
            /\ UNCHANGED pubAt
  /\ UNCHANGED <<options, skips, at, annAt, annFailed>>

(* The end of a stage: the errors set aside are its error.                 *)
LeaveWith_Nil(memo) ==
  /\ stage' = "pipes" /\ at' = at + 1
  /\ UNCHANGED <<pipeFailed, result>>
LeaveWith(memo) ==
  \/ /\ memo = {}
     /\ stage' = "pipes" /\ at' = at + 1
     /\ UNCHANGED <<pipeFailed, result>>
  \/ /\ memo # {}
     /\ stage' = "done" /\ result' = "err"
     /\ pipeFailed' = pipeFailed \cup {stage}
     /\ UNCHANGED at

LeavePublish ==
  /\ stage = "publish" /\ pubAt > Len(Publishers)
  /\ LeaveWith(pubFailed)
  /\ UNCHANGED <<options, skips, pubAt, annAt, pubFailed, annFailed>>

(* announce.Pipe.Run: every announcer is called, whatever the others do.   *)
AnnouncerLeft == annAt <= Len(Announcers)

AnnouncerOK ==
  /\ stage = "announce" /\ AnnouncerLeft
  /\ annAt' = annAt + 1
  /\ UNCHANGED <<options, skips, stage, at, pubAt,
                 pipeFailed, pubFailed, annFailed, result>>

AnnouncerFails ==
  /\ stage = "announce" /\ AnnouncerLeft
  /\ annFailed' = annFailed \cup {annAt}
  /\ annAt' = annAt + 1
  /\ UNCHANGED <<options, skips, stage, at, pubAt, pipeFailed, pubFailed, result>>

LeaveAnnounce ==
  /\ stage = "announce" /\ ~AnnouncerLeft
  /\ LeaveWith(annFailed)
  /\ UNCHANGED <<options, skips, pubAt, annAt, pubFailed, annFailed>>

Succeed ==
  /\ stage = "pipes" /\ at > Len(Pipes)
  /\ stage' = "done" /\ result' = "ok"
  /\ UNCHANGED <<options, skips, at, pubAt, annAt, pipeFailed, pubFailed, annFailed>>

Next ==
  \/ Setup \/ SetupFails
  \/ PassPipe \/ PipeFails \/ EnterStage
  \/ PublisherOK \/ PublisherFails \/ LeavePublish
  \/ AnnouncerOK \/ AnnouncerFails \/ LeaveAnnounce
  \/ Succeed

Spec == Init /\ [][Next]_vars

-----------------------------------------------------------------------------
TypeOK ==
  /\ options \in Options
  /\ skips \subseteq SkipKeys
  /\ stage \in {"setup", "pipes", "publish", "announce", "done"}
  /\ at \in 1..Len(Pipes) + 1
  /\ pubAt \in 1..Len(Publishers) + 1
  /\ annAt \in 1..Len(Announcers) + 1
  /\ pipeFailed \subseteq {Pipes[i] : i \in 1..Len(Pipes)}
  /\ pubFailed \subseteq 1..Len(Publishers)
  /\ annFailed \subseteq 1..Len(Announcers)
  /\ result \in {"none", "ok", "err"}

(* A release is announced only when all of it is out: every publisher was  *)
(* called and none failed, not even one whose failure was set aside.       *)
AnnouncedMeansPublished ==
  stage = "announce" \/ annAt > 1 =>
    /\ pubAt = Len(Publishers) + 1 /\ pubFailed = {}
    /\ pipeFailed \subseteq {"announce"}

(* A snapshot, or --skip=publish, reaches no publisher and no announcer:   *)
(* publishing was not asked for, and there is nothing to announce.         *)
LocalStaysLocal ==
  options.snapshot \/ "publish" \in options.skip =>
    /\ stage \notin {"publish", "announce"}
    /\ pubAt = 1 /\ annAt = 1

(* A publisher is called only when each one before it succeeded or failed  *)
(* in a way that is set aside: the taps, buckets and package managers that *)
(* point at the release are not updated after the release itself failed.   *)
LaterNeedsEarlier ==
  \A i \in pubFailed :
    i < pubAt => Publishers[i] \in Continuable /\ ~options.failFast

(* And a failure that is to be set aside keeps no later publisher from     *)
(* being called.                                                           *)
SetAsideGoesOn ==
  stage = "done" /\ pubFailed # {} =>
    \/ pubAt = Len(Publishers) + 1
    \/ pubAt \in pubFailed /\ (options.failFast \/ Publishers[pubAt] \notin Continuable)

(* The command answers with success exactly when it ran to the end and     *)
(* nothing failed on the way, set aside or not.                            *)
ExitIsHonest ==
  stage = "done" =>
    /\ result = "ok" => /\ at = Len(Pipes) + 1
                        /\ pipeFailed = {} /\ pubFailed = {} /\ annFailed = {}
    /\ result = "err" => pipeFailed # {} \/ at = 1
    /\ result # "none"

=============================================================================
