-------------------------- MODULE MCGitHubRelease --------------------------
(* Small instances of the release to GitHub.                               *)
EXTENDS GitHubRelease, TLC

CONSTANTS a1, a2

TwoArtifacts == {a1, a2}
TwoNames == [u \in TwoArtifacts |-> u]

Default ==
  [draft |-> FALSE, replaceDraft |-> FALSE, useExisting |-> FALSE,
   replaceAssets |-> FALSE, skipUpload |-> FALSE, failOnError |-> FALSE,
   freezes |-> FALSE]

(* The artifacts are alike while each has its own name.                    *)
Interchangeable == Permutations(TwoArtifacts)

(* Every way to look for a release and to keep a draft, with uploads, and  *)
(* one without.                                                            *)
LookupOptions ==
  {o \in OptionRecord : ~o.skipUpload /\ (o.failOnError => o.freezes)
                        /\ (o.replaceDraft => o.draft)}
  \cup {[Default EXCEPT !.skipUpload = TRUE]}
=============================================================================
