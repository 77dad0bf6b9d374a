------------------------ MODULE ReleaseCommand_proofs ------------------------
(***************************************************************************)
(* What the release command promises, for every order of the pipes that    *)
(* publishes once and announces last, and for every list of publishers and *)
(* announcers.                                                             *)
(***************************************************************************)
EXTENDS ReleaseCommand, TLAPS

(* Nothing has happened before the setup is done.                          *)
Fresh == stage = "setup" => /\ at = 1 /\ pubAt = 1 /\ annAt = 1

(* No answer and no failed pipe while the command goes on.                 *)
Clean == stage # "done" => pipeFailed = {} /\ result = "none"

(* The skips are the ones the options ask for.                             *)
SkipsKnown ==
  stage \in {"pipes", "publish", "announce"} => skips = EffectiveSkips(options)

(* A stage is entered by its own pipe, and only when it is not skipped.    *)
OnStage ==
  stage \in {"publish", "announce"} =>
    at <= Len(Pipes) /\ Pipes[at] = stage /\ stage \notin skips

(* Outside its stage a memo is empty: a stage that failed ends the command. *)
(* In it, it names publishers that were called.                            *)
Memos ==
  /\ stage = "publish" => \A i \in pubFailed : i < pubAt
  /\ stage \in {"setup", "pipes", "announce"} => pubFailed = {}
  /\ stage \in {"setup", "pipes", "publish"} => annFailed = {}

(* Past the publish pipe every publisher was called, unless it is skipped. *)
Published ==
  \A i \in 1..Len(Pipes) :
    Pipes[i] = "publish" /\ i < at /\ stage \in {"pipes", "announce"} =>
      "publish" \in skips \/ pubAt = Len(Publishers) + 1

(* Announcing is the last thing the command does.                          *)
AnnouncedLast ==
  annAt > 1 => /\ stage \in {"pipes", "announce", "done"}
               /\ stage = "pipes" => at = Len(Pipes) + 1

IInv ==
  /\ TypeOK /\ Fresh /\ Clean /\ SkipsKnown /\ OnStage /\ Memos
  /\ Published /\ AnnouncedLast
  /\ AnnouncedMeansPublished /\ LocalStaysLocal /\ LaterNeedsEarlier
  /\ SetAsideGoesOn /\ ExitIsHonest
-----------------------------------------------------------------------------
LEMMA Lengths ==
  /\ Len(Pipes) \in Nat /\ Len(Publishers) \in Nat /\ Len(Announcers) \in Nat
  /\ \A i \in 1..Len(Pipes) : Pipes[i] \in STRING
BY OrderAssumption

(* What is not published is not announced.                                 *)
LEMMA AnnounceFollowsPublish ==
  ASSUME NEW o \in Options
  PROVE  /\ EffectiveSkips(o) \subseteq SkipKeys
         /\ "publish" \in EffectiveSkips(o) => "announce" \in EffectiveSkips(o)
         /\ o.snapshot \/ "publish" \in o.skip => "publish" \in EffectiveSkips(o)
BY DEF EffectiveSkips, Given, Options, SkipKeys

LEMMA InitInv == Init => IInv
BY Lengths, SMTT(30)
   DEF Init, IInv, TypeOK, Fresh, Clean, SkipsKnown, OnStage, Memos, Published,
       AnnouncedLast, AnnouncedMeansPublished, LocalStaysLocal,
       LaterNeedsEarlier, SetAsideGoesOn, ExitIsHonest, SkipKeys

LEMMA SetupInv == IInv /\ Setup => IInv'
<1> SUFFICES ASSUME IInv, Setup PROVE IInv'
  OBVIOUS
<1> USE Lengths DEF IInv
<1>1. TypeOK'
  BY AnnounceFollowsPublish DEF TypeOK, OnStage, Setup
<1>2. Fresh' /\ Clean' /\ SkipsKnown'
  BY DEF TypeOK, Fresh, Clean, SkipsKnown, Setup
<1>3. OnStage' /\ Memos'
  BY DEF TypeOK, OnStage, Memos, Setup
<1>4. Published'
  BY OrderAssumption DEF TypeOK, Fresh, OnStage, Published, Setup
<1>5. AnnouncedLast'
  BY OrderAssumption DEF TypeOK, Fresh, OnStage, AnnouncedLast, Setup
<1>6. AnnouncedMeansPublished'
  BY OrderAssumption, AnnounceFollowsPublish
     DEF TypeOK, Fresh, Clean, SkipsKnown, OnStage, Memos, Published, AnnouncedLast,
         AnnouncedMeansPublished, Setup
<1>7. LocalStaysLocal'
  BY AnnounceFollowsPublish
     DEF TypeOK, Fresh, SkipsKnown, OnStage, LocalStaysLocal, Setup
<1>8. LaterNeedsEarlier' /\ SetAsideGoesOn'
  BY DEF TypeOK, Memos, LaterNeedsEarlier, SetAsideGoesOn, Setup
<1>9. ExitIsHonest'
  BY DEF TypeOK, Fresh, Clean, Memos, ExitIsHonest, Setup
<1>. QED
  BY <1>1, <1>2, <1>3, <1>4, <1>5, <1>6, <1>7, <1>8, <1>9

LEMMA SetupFailsInv == IInv /\ SetupFails => IInv'
<1> SUFFICES ASSUME IInv, SetupFails PROVE IInv'
  OBVIOUS
<1> USE Lengths DEF IInv
<1>1. TypeOK'
  BY DEF TypeOK, SetupFails
<1>2. Fresh' /\ Clean' /\ SkipsKnown'
  BY DEF TypeOK, Fresh, Clean, SkipsKnown, SetupFails
<1>3. OnStage' /\ Memos'
  BY DEF TypeOK, OnStage, Memos, SetupFails
<1>4. Published'
  BY OrderAssumption DEF TypeOK, Fresh, OnStage, Published, SetupFails
<1>5. AnnouncedLast'
  BY OrderAssumption DEF TypeOK, Fresh, OnStage, AnnouncedLast, SetupFails
<1>6. AnnouncedMeansPublished'
  BY OrderAssumption, AnnounceFollowsPublish
     DEF TypeOK, Fresh, Clean, SkipsKnown, OnStage, Memos, Published, AnnouncedLast,
         AnnouncedMeansPublished, SetupFails
<1>7. LocalStaysLocal'
  BY AnnounceFollowsPublish
     DEF TypeOK, Fresh, SkipsKnown, OnStage, LocalStaysLocal, SetupFails
<1>8. LaterNeedsEarlier' /\ SetAsideGoesOn'
  BY DEF TypeOK, Memos, LaterNeedsEarlier, SetAsideGoesOn, SetupFails
<1>9. ExitIsHonest'
  BY DEF TypeOK, Fresh, Clean, Memos, ExitIsHonest, SetupFails
<1>. QED
  BY <1>1, <1>2, <1>3, <1>4, <1>5, <1>6, <1>7, <1>8, <1>9

LEMMA PassPipeInv == IInv /\ PassPipe => IInv'
<1> SUFFICES ASSUME IInv, PassPipe PROVE IInv'
  OBVIOUS
<1> USE Lengths DEF IInv
<1>1. TypeOK'
  BY DEF TypeOK, PassPipe, AtPipe
<1>2. Fresh' /\ Clean' /\ SkipsKnown'
  BY DEF TypeOK, Fresh, Clean, SkipsKnown, PassPipe, AtPipe
<1>3. OnStage' /\ Memos'
  BY DEF TypeOK, OnStage, Memos, PassPipe, AtPipe
<1>4. Published'
  BY OrderAssumption DEF TypeOK, Fresh, OnStage, Published, PassPipe, AtPipe
<1>5. AnnouncedLast'
  BY OrderAssumption DEF TypeOK, Fresh, OnStage, AnnouncedLast, PassPipe, AtPipe
<1>6. AnnouncedMeansPublished'
  BY OrderAssumption, AnnounceFollowsPublish
     DEF TypeOK, Fresh, Clean, SkipsKnown, OnStage, Memos, Published, AnnouncedLast,
         AnnouncedMeansPublished, PassPipe, AtPipe
<1>7. LocalStaysLocal'
  BY AnnounceFollowsPublish
     DEF TypeOK, Fresh, SkipsKnown, OnStage, LocalStaysLocal, PassPipe, AtPipe
<1>8. LaterNeedsEarlier' /\ SetAsideGoesOn'
  BY DEF TypeOK, Memos, LaterNeedsEarlier, SetAsideGoesOn, PassPipe, AtPipe
<1>9. ExitIsHonest'
  BY DEF TypeOK, Fresh, Clean, Memos, ExitIsHonest, PassPipe, AtPipe
<1>. QED
  BY <1>1, <1>2, <1>3, <1>4, <1>5, <1>6, <1>7, <1>8, <1>9

LEMMA PipeFailsInv == IInv /\ PipeFails => IInv'
<1> SUFFICES ASSUME IInv, PipeFails PROVE IInv'
  OBVIOUS
<1> USE Lengths DEF IInv
<1>1. TypeOK'
  <2>1. at \in 1..Len(Pipes)
    BY DEF TypeOK, PipeFails, AtPipe
  <2>2. pipeFailed' \subseteq {Pipes[i] : i \in 1..Len(Pipes)}
    BY <2>1 DEF TypeOK, PipeFails
  <2>3. /\ stage' = "done" /\ result' = "err"
        /\ UNCHANGED <<options, skips, at, pubAt, annAt, pubFailed, annFailed>>
    BY DEF PipeFails
  <2>. QED
    BY <2>2, <2>3 DEF TypeOK
<1>2. Fresh' /\ Clean' /\ SkipsKnown'
  BY DEF TypeOK, Fresh, Clean, SkipsKnown, PipeFails, AtPipe
<1>3. OnStage' /\ Memos'
  BY DEF TypeOK, OnStage, Memos, PipeFails, AtPipe
<1>4. Published'
  BY OrderAssumption DEF TypeOK, Fresh, OnStage, Published, PipeFails, AtPipe
<1>5. AnnouncedLast'
  BY OrderAssumption DEF TypeOK, Fresh, OnStage, AnnouncedLast, PipeFails, AtPipe
<1>6. AnnouncedMeansPublished'
  BY OrderAssumption, AnnounceFollowsPublish
     DEF TypeOK, Fresh, Clean, SkipsKnown, OnStage, Memos, Published, AnnouncedLast,
         AnnouncedMeansPublished, PipeFails, AtPipe
<1>7. LocalStaysLocal'
  BY AnnounceFollowsPublish
     DEF TypeOK, Fresh, SkipsKnown, OnStage, LocalStaysLocal, PipeFails, AtPipe
<1>8. LaterNeedsEarlier' /\ SetAsideGoesOn'
  BY DEF TypeOK, Memos, LaterNeedsEarlier, SetAsideGoesOn, PipeFails, AtPipe
<1>9. ExitIsHonest'
  BY DEF TypeOK, Fresh, Clean, Memos, ExitIsHonest, PipeFails, AtPipe
<1>. QED
  BY <1>1, <1>2, <1>3, <1>4, <1>5, <1>6, <1>7, <1>8, <1>9

LEMMA EnterStageInv == IInv /\ EnterStage => IInv'
<1> SUFFICES ASSUME IInv, EnterStage PROVE IInv'
  OBVIOUS
<1> USE Lengths DEF IInv
<1>1. TypeOK'
  BY DEF TypeOK, EnterStage, AtPipe
<1>2. Fresh' /\ Clean' /\ SkipsKnown'
  BY DEF TypeOK, Fresh, Clean, SkipsKnown, EnterStage, AtPipe
<1>3. OnStage' /\ Memos'
  BY DEF TypeOK, OnStage, Memos, EnterStage, AtPipe
<1>4. Published'
  BY OrderAssumption DEF TypeOK, Fresh, OnStage, Published, EnterStage, AtPipe
<1>5. AnnouncedLast'
  BY OrderAssumption DEF TypeOK, Fresh, OnStage, AnnouncedLast, EnterStage, AtPipe
<1>6. AnnouncedMeansPublished'
  BY OrderAssumption, AnnounceFollowsPublish
     DEF TypeOK, Fresh, Clean, SkipsKnown, OnStage, Memos, Published, AnnouncedLast,
         AnnouncedMeansPublished, EnterStage, AtPipe
<1>7. LocalStaysLocal'
  BY AnnounceFollowsPublish
     DEF TypeOK, Fresh, SkipsKnown, OnStage, LocalStaysLocal, EnterStage, AtPipe
<1>8. LaterNeedsEarlier' /\ SetAsideGoesOn'
  BY DEF TypeOK, Memos, LaterNeedsEarlier, SetAsideGoesOn, EnterStage, AtPipe
<1>9. ExitIsHonest'
  BY DEF TypeOK, Fresh, Clean, Memos, ExitIsHonest, EnterStage, AtPipe
<1>. QED
  BY <1>1, <1>2, <1>3, <1>4, <1>5, <1>6, <1>7, <1>8, <1>9

LEMMA PublisherOKInv == IInv /\ PublisherOK => IInv'
<1> SUFFICES ASSUME IInv, PublisherOK PROVE IInv'
  OBVIOUS
<1> USE Lengths DEF IInv
<1>1. TypeOK'
  BY DEF TypeOK, PublisherOK
<1>2. Fresh' /\ Clean' /\ SkipsKnown'
  BY DEF TypeOK, Fresh, Clean, SkipsKnown, PublisherOK
<1>3. OnStage' /\ Memos'
  BY DEF TypeOK, OnStage, Memos, PublisherOK
<1>4. Published'
  BY OrderAssumption DEF TypeOK, Fresh, OnStage, Published, PublisherOK
<1>5. AnnouncedLast'
  BY OrderAssumption DEF TypeOK, Fresh, OnStage, AnnouncedLast, PublisherOK
<1>6. AnnouncedMeansPublished'
  BY OrderAssumption, AnnounceFollowsPublish
     DEF TypeOK, Fresh, Clean, SkipsKnown, OnStage, Memos, Published, AnnouncedLast,
         AnnouncedMeansPublished, PublisherOK
<1>7. LocalStaysLocal'
  BY AnnounceFollowsPublish
     DEF TypeOK, Fresh, SkipsKnown, OnStage, LocalStaysLocal, PublisherOK
<1>8. LaterNeedsEarlier' /\ SetAsideGoesOn'
  BY DEF TypeOK, Memos, LaterNeedsEarlier, SetAsideGoesOn, PublisherOK
<1>9. ExitIsHonest'
  BY DEF TypeOK, Fresh, Clean, Memos, ExitIsHonest, PublisherOK
<1>. QED
  BY <1>1, <1>2, <1>3, <1>4, <1>5, <1>6, <1>7, <1>8, <1>9

LEMMA PublisherFailsInv == IInv /\ PublisherFails => IInv'
<1> SUFFICES ASSUME IInv, PublisherFails PROVE IInv'
  OBVIOUS
<1> USE Lengths DEF IInv
<1>1. TypeOK'
  <2>1. "publish" \in {Pipes[i] : i \in 1..Len(Pipes)}
    BY DEF TypeOK, OnStage, PublisherFails
  <2>2. pubAt \in 1..Len(Publishers)
    BY DEF TypeOK, PublisherFails
  <2>3. pubAt' \in 1..Len(Publishers) + 1 /\ pubFailed' \subseteq 1..Len(Publishers)
    BY <2>2 DEF TypeOK, PublisherFails
  <2>4. pipeFailed' \subseteq {Pipes[i] : i \in 1..Len(Pipes)}
    BY <2>1 DEF TypeOK, PublisherFails
  <2>5. /\ stage' \in {"setup", "pipes", "publish", "announce", "done"}
        /\ result' \in {"none", "ok", "err"}
        /\ UNCHANGED <<options, skips, at, annAt, annFailed>>
    BY DEF TypeOK, PublisherFails
  <2>. QED
    BY <2>3, <2>4, <2>5 DEF TypeOK
<1>2. Fresh' /\ Clean' /\ SkipsKnown'
  BY DEF TypeOK, Fresh, Clean, SkipsKnown, PublisherFails, SetAside
<1>3. OnStage' /\ Memos'
  BY DEF TypeOK, OnStage, Memos, PublisherFails, SetAside
<1>4. Published'
  BY OrderAssumption DEF TypeOK, Fresh, OnStage, Published, PublisherFails, SetAside
<1>5. AnnouncedLast'
  BY OrderAssumption DEF TypeOK, Fresh, OnStage, AnnouncedLast, PublisherFails, SetAside
<1>6. AnnouncedMeansPublished'
  BY OrderAssumption, AnnounceFollowsPublish
     DEF TypeOK, Fresh, Clean, SkipsKnown, OnStage, Memos, Published, AnnouncedLast,
         AnnouncedMeansPublished, PublisherFails, SetAside
<1>7. LocalStaysLocal'
  BY AnnounceFollowsPublish
     DEF TypeOK, Fresh, SkipsKnown, OnStage, LocalStaysLocal, PublisherFails, SetAside
<1>8. LaterNeedsEarlier' /\ SetAsideGoesOn'
  BY DEF TypeOK, Memos, LaterNeedsEarlier, SetAsideGoesOn, PublisherFails, SetAside
<1>9. ExitIsHonest'
  BY DEF TypeOK, Fresh, Clean, Memos, ExitIsHonest, PublisherFails, SetAside
<1>. QED
  BY <1>1, <1>2, <1>3, <1>4, <1>5, <1>6, <1>7, <1>8, <1>9

LEMMA LeavePublishInv == IInv /\ LeavePublish => IInv'
<1> SUFFICES ASSUME IInv, LeavePublish PROVE IInv'
  OBVIOUS
<1> USE Lengths DEF IInv
<1>1. TypeOK'
  BY DEF TypeOK, OnStage, LeavePublish, LeaveWith
<1>2. Fresh' /\ Clean' /\ SkipsKnown'
  BY DEF TypeOK, Fresh, Clean, SkipsKnown, LeavePublish, LeaveWith
<1>3. OnStage' /\ Memos'
  BY DEF TypeOK, OnStage, Memos, LeavePublish, LeaveWith
<1>4. Published'
  BY OrderAssumption DEF TypeOK, Fresh, OnStage, Published, LeavePublish, LeaveWith
<1>5. AnnouncedLast'
  BY OrderAssumption DEF TypeOK, Fresh, OnStage, AnnouncedLast, LeavePublish, LeaveWith
<1>6. AnnouncedMeansPublished'
  BY OrderAssumption, AnnounceFollowsPublish
     DEF TypeOK, Fresh, Clean, SkipsKnown, OnStage, Memos, Published, AnnouncedLast,
         AnnouncedMeansPublished, LeavePublish, LeaveWith
<1>7. LocalStaysLocal'
  BY AnnounceFollowsPublish
     DEF TypeOK, Fresh, SkipsKnown, OnStage, LocalStaysLocal, LeavePublish, LeaveWith
<1>8. LaterNeedsEarlier' /\ SetAsideGoesOn'
  BY DEF TypeOK, Memos, LaterNeedsEarlier, SetAsideGoesOn, LeavePublish, LeaveWith
<1>9. ExitIsHonest'
  BY DEF TypeOK, Fresh, Clean, Memos, ExitIsHonest, LeavePublish, LeaveWith
<1>. QED
  BY <1>1, <1>2, <1>3, <1>4, <1>5, <1>6, <1>7, <1>8, <1>9

LEMMA AnnouncerOKInv == IInv /\ AnnouncerOK => IInv'
<1> SUFFICES ASSUME IInv, AnnouncerOK PROVE IInv'
  OBVIOUS
<1> USE Lengths DEF IInv
<1>1. TypeOK'
  BY DEF TypeOK, AnnouncerOK, AnnouncerLeft
<1>2. Fresh' /\ Clean' /\ SkipsKnown'
  BY DEF TypeOK, Fresh, Clean, SkipsKnown, AnnouncerOK, AnnouncerLeft
<1>3. OnStage' /\ Memos'
  BY DEF TypeOK, OnStage, Memos, AnnouncerOK, AnnouncerLeft
<1>4. Published'
  BY OrderAssumption DEF TypeOK, Fresh, OnStage, Published, AnnouncerOK, AnnouncerLeft
<1>5. AnnouncedLast'
  BY OrderAssumption DEF TypeOK, Fresh, OnStage, AnnouncedLast, AnnouncerOK, AnnouncerLeft
<1>6. AnnouncedMeansPublished'
  BY OrderAssumption, AnnounceFollowsPublish
     DEF TypeOK, Fresh, Clean, SkipsKnown, OnStage, Memos, Published, AnnouncedLast,
         AnnouncedMeansPublished, AnnouncerOK, AnnouncerLeft
<1>7. LocalStaysLocal'
  BY AnnounceFollowsPublish
     DEF TypeOK, Fresh, SkipsKnown, OnStage, LocalStaysLocal, AnnouncerOK, AnnouncerLeft
<1>8. LaterNeedsEarlier' /\ SetAsideGoesOn'
  BY DEF TypeOK, Memos, LaterNeedsEarlier, SetAsideGoesOn, AnnouncerOK, AnnouncerLeft
<1>9. ExitIsHonest'
  BY DEF TypeOK, Fresh, Clean, Memos, ExitIsHonest, AnnouncerOK, AnnouncerLeft
<1>. QED
  BY <1>1, <1>2, <1>3, <1>4, <1>5, <1>6, <1>7, <1>8, <1>9

LEMMA AnnouncerFailsInv == IInv /\ AnnouncerFails => IInv'
<1> SUFFICES ASSUME IInv, AnnouncerFails PROVE IInv'
  OBVIOUS
<1> USE Lengths DEF IInv
<1>1. TypeOK'
  BY DEF TypeOK, AnnouncerFails, AnnouncerLeft
<1>2. Fresh' /\ Clean' /\ SkipsKnown'
  BY DEF TypeOK, Fresh, Clean, SkipsKnown, AnnouncerFails, AnnouncerLeft
<1>3. OnStage' /\ Memos'
  BY DEF TypeOK, OnStage, Memos, AnnouncerFails, AnnouncerLeft
<1>4. Published'
  BY OrderAssumption DEF TypeOK, Fresh, OnStage, Published, AnnouncerFails, AnnouncerLeft
<1>5. AnnouncedLast'
  BY OrderAssumption DEF TypeOK, Fresh, OnStage, AnnouncedLast, AnnouncerFails, AnnouncerLeft
<1>6. AnnouncedMeansPublished'
  BY OrderAssumption, AnnounceFollowsPublish
     DEF TypeOK, Fresh, Clean, SkipsKnown, OnStage, Memos, Published, AnnouncedLast,
         AnnouncedMeansPublished, AnnouncerFails, AnnouncerLeft
<1>7. LocalStaysLocal'
  BY AnnounceFollowsPublish
     DEF TypeOK, Fresh, SkipsKnown, OnStage, LocalStaysLocal, AnnouncerFails, AnnouncerLeft
<1>8. LaterNeedsEarlier' /\ SetAsideGoesOn'
  BY DEF TypeOK, Memos, LaterNeedsEarlier, SetAsideGoesOn, AnnouncerFails, AnnouncerLeft
<1>9. ExitIsHonest'
  BY DEF TypeOK, Fresh, Clean, Memos, ExitIsHonest, AnnouncerFails, AnnouncerLeft
<1>. QED
  BY <1>1, <1>2, <1>3, <1>4, <1>5, <1>6, <1>7, <1>8, <1>9

LEMMA LeaveAnnounceInv == IInv /\ LeaveAnnounce => IInv'
<1> SUFFICES ASSUME IInv, LeaveAnnounce PROVE IInv'
  OBVIOUS
<1> USE Lengths DEF IInv
<1>1. TypeOK'
  BY DEF TypeOK, OnStage, LeaveAnnounce, LeaveWith, AnnouncerLeft
<1>2. Fresh' /\ Clean' /\ SkipsKnown'
  BY DEF TypeOK, Fresh, Clean, SkipsKnown, LeaveAnnounce, LeaveWith, AnnouncerLeft
<1>3. OnStage' /\ Memos'
  BY DEF TypeOK, OnStage, Memos, LeaveAnnounce, LeaveWith, AnnouncerLeft
<1>4. Published'
  BY OrderAssumption DEF TypeOK, Fresh, OnStage, Published, LeaveAnnounce, LeaveWith, AnnouncerLeft
<1>5. AnnouncedLast'
  <2>1. at = Len(Pipes)
    BY OrderAssumption DEF TypeOK, OnStage, LeaveAnnounce, AnnouncerLeft
  <2>. QED
    BY <2>1 DEF TypeOK, Fresh, OnStage, AnnouncedLast, LeaveAnnounce, LeaveWith, AnnouncerLeft
<1>6. AnnouncedMeansPublished'
  BY OrderAssumption, AnnounceFollowsPublish
     DEF TypeOK, Fresh, Clean, SkipsKnown, OnStage, Memos, Published, AnnouncedLast,
         AnnouncedMeansPublished, LeaveAnnounce, LeaveWith, AnnouncerLeft
<1>7. LocalStaysLocal'
  BY AnnounceFollowsPublish
     DEF TypeOK, Fresh, SkipsKnown, OnStage, LocalStaysLocal, LeaveAnnounce, LeaveWith, AnnouncerLeft
<1>8. LaterNeedsEarlier' /\ SetAsideGoesOn'
  BY DEF TypeOK, Memos, LaterNeedsEarlier, SetAsideGoesOn, LeaveAnnounce, LeaveWith, AnnouncerLeft
<1>9. ExitIsHonest'
  BY DEF TypeOK, Fresh, Clean, Memos, ExitIsHonest, LeaveAnnounce, LeaveWith, AnnouncerLeft
<1>. QED
  BY <1>1, <1>2, <1>3, <1>4, <1>5, <1>6, <1>7, <1>8, <1>9

LEMMA SucceedInv == IInv /\ Succeed => IInv'
<1> SUFFICES ASSUME IInv, Succeed PROVE IInv'
  OBVIOUS
<1> USE Lengths DEF IInv
<1>1. TypeOK'
  BY DEF TypeOK, Succeed
<1>2. Fresh' /\ Clean' /\ SkipsKnown'
  BY DEF TypeOK, Fresh, Clean, SkipsKnown, Succeed
<1>3. OnStage' /\ Memos'
  BY DEF TypeOK, OnStage, Memos, Succeed
<1>4. Published'
  BY OrderAssumption DEF TypeOK, Fresh, OnStage, Published, Succeed
<1>5. AnnouncedLast'
  BY OrderAssumption DEF TypeOK, Fresh, OnStage, AnnouncedLast, Succeed
<1>6. AnnouncedMeansPublished'
  BY OrderAssumption, AnnounceFollowsPublish
     DEF TypeOK, Fresh, Clean, SkipsKnown, OnStage, Memos, Published, AnnouncedLast,
         AnnouncedMeansPublished, Succeed
<1>7. LocalStaysLocal'
  BY AnnounceFollowsPublish
     DEF TypeOK, Fresh, SkipsKnown, OnStage, LocalStaysLocal, Succeed
<1>8. LaterNeedsEarlier' /\ SetAsideGoesOn'
  BY DEF TypeOK, Memos, LaterNeedsEarlier, SetAsideGoesOn, Succeed
<1>9. ExitIsHonest'
  BY DEF TypeOK, Fresh, Clean, Memos, ExitIsHonest, Succeed
<1>. QED
  BY <1>1, <1>2, <1>3, <1>4, <1>5, <1>6, <1>7, <1>8, <1>9

THEOREM IInvHolds == Spec => []IInv
<1>1. IInv /\ UNCHANGED vars => IInv'
  BY DEF IInv, vars, TypeOK, Fresh, Clean, SkipsKnown, OnStage, Memos, Published,
         AnnouncedLast, AnnouncedMeansPublished, LocalStaysLocal,
         LaterNeedsEarlier, SetAsideGoesOn, ExitIsHonest
<1>2. IInv /\ [Next]_vars => IInv'
  BY <1>1, SetupInv, SetupFailsInv, PassPipeInv, PipeFailsInv, EnterStageInv,
     PublisherOKInv, PublisherFailsInv, LeavePublishInv, AnnouncerOKInv,
     AnnouncerFailsInv, LeaveAnnounceInv, SucceedInv DEF Next
<1>. QED
  BY InitInv, <1>2, PTL DEF Spec

(* Every variable keeps its type, and a position its bound.                *)
THEOREM TypeCorrect == Spec => []TypeOK
BY IInvHolds, PTL DEF IInv

(* Whatever the pipeline, nothing is announced before all of it is out.    *)
THEOREM NothingAnnouncedEarly == Spec => []AnnouncedMeansPublished
BY IInvHolds, PTL DEF IInv

(* A snapshot, or --skip=publish, calls no publisher and no announcer.     *)
THEOREM SnapshotStaysLocal == Spec => []LocalStaysLocal
BY IInvHolds, PTL DEF IInv

(* A publisher is called after failures that are set aside only, and such  *)
(* a failure keeps none from being called.                                 *)
THEOREM PublishersInOrder == Spec => [](LaterNeedsEarlier /\ SetAsideGoesOn)
<1>1. IInv => LaterNeedsEarlier /\ SetAsideGoesOn
  BY DEF IInv
<1>. QED
  BY IInvHolds, <1>1, PTL

(* The exit status tells the truth about every pipe and publisher.         *)
THEOREM HonestExit == Spec => []ExitIsHonest
BY IInvHolds, PTL DEF IInv
=============================================================================
