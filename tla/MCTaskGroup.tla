---------------------------- MODULE MCTaskGroup ----------------------------
(* The shapes the pipes build: a plain group (build, archive, ...), a      *)
(* skip-aware one (sign, sbom, docker, ...) and one behind a blocking      *)
(* first task (snapcraft, flatpak).                                        *)
EXTENDS TaskGroup

UsedShapes == {{}, {"skipAware"}, {"blockingFirst"}}
=============================================================================
