-------------------------- MODULE MCReleaseCommand --------------------------
(* The release command over goreleaser's own pipeline and publishers; the  *)
(* announcers, which all behave alike, are the first four.                 *)
EXTENDS ReleaseCommand, PipelineOrder

FirstAnnouncers == SubSeq(AnnouncePipeline, 1, 4)
=============================================================================
