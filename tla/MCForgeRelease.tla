-------------------------- MODULE MCForgeRelease --------------------------
(* Small instances of a release to GitLab and Gitea with its notes.        *)
EXTENDS ForgeRelease, TLC

CONSTANTS a1, a2

TwoArtifacts == {a1, a2}
Interchangeable == Permutations(TwoArtifacts)

GitLab ==
  [forge |-> "gitlab", draft |-> FALSE, mode |-> "keep-existing",
   replaceAssets |-> FALSE, skipUpload |-> FALSE, failOnError |-> FALSE,
   registry |-> FALSE, jobToken |-> FALSE]
Gitea == [GitLab EXCEPT !.forge = "gitea"]

Plain ==
  [skip |-> FALSE, file |-> FALSE, use |-> "git", previous |-> TRUE, sort |-> "",
   include |-> <<>>, exclude |-> <<>>, groups |-> <<>>]

(* How a release is made, whatever its notes say.                          *)
Releases ==
  {[GitLab EXCEPT !.mode = m, !.replaceAssets = r, !.registry = g] :
     m \in {"append", "replace"}, r \in BOOLEAN, g \in BOOLEAN}
  \cup {[Gitea EXCEPT !.mode = m, !.draft = d] : m \in {"prepend", "keep-existing"}, d \in BOOLEAN}
  \cup {[GitLab EXCEPT !.failOnError = TRUE, !.jobToken = TRUE, !.replaceAssets = TRUE]}

OneCommit == <<[sha |-> "c1", message |-> 1, authors |-> <<>>]>>
ReleaseProjects ==
  {[release |-> r, notes |-> Plain, log |-> OneCommit] : r \in Releases}
  \cup {[release |-> GitLab, notes |-> [Plain EXCEPT !.skip = s, !.file = ~s], log |-> OneCommit] : s \in BOOLEAN}

(* The log, its filters and its groups, in a release without assets.       *)
Ann == [username |-> "ann", email |-> "ann@a", name |-> "Ann"]
AnnElsewhere == [Ann EXCEPT !.email = "ann@b"]
Bob == [username |-> "", email |-> "bob@b", name |-> "Bob"]
Commit(sha, message, authors) == [sha |-> sha, message |-> message, authors |-> authors]
Logs ==
  {<<Commit("c1", 3, <<Ann, Bob, AnnElsewhere>>), Commit("c2", 1, <<Bob, Bob>>), Commit("c3", 2, <<Ann>>)>>,
   <<Commit("c1", 2, <<Ann, Ann>>), Commit("c2", 2, <<Bob>>)>>,
   <<>>}
Group(title, regexp, order) == [title |-> title, regexp |-> regexp, order |-> order]
Groupings ==
  {<<>>,
   <<Group("features", {1, 2}, 2), Group("fixes", {2, 3}, 1)>>,
   <<Group("fixes", {3}, 1), Group("others", {}, 0), Group("late", {1}, 0)>>,
   <<Group("fixes", {2}, 1), Group("broken", Bad, 2)>>}
Filters ==
  {[Plain EXCEPT !.include = i, !.exclude = e] :
     i \in {<<>>, <<{1, 2}, {2, 3}>>}, e \in {<<>>, <<{1}, {3}>>}}
  \cup {[Plain EXCEPT !.exclude = <<{1}, Bad>>]}

Tagged == [GitLab EXCEPT !.skipUpload = TRUE, !.mode = "append"]
NotesProjects ==
  {[release |-> Tagged, notes |-> [f EXCEPT !.groups = g, !.sort = s], log |-> l] :
     f \in Filters, g \in Groupings, s \in {"", "asc", "desc"}, l \in Logs}
  \cup {[release |-> r, notes |-> [Plain EXCEPT !.use = u, !.previous = p, !.sort = s], log |-> OneCommit] :
          r \in {Tagged, [Tagged EXCEPT !.jobToken = TRUE], [Gitea EXCEPT !.skipUpload = TRUE]},
          u \in {"gitlab", "svn"}, p \in BOOLEAN, s \in {"asc", "up"}}

AllProjects == ReleaseProjects \cup NotesProjects
=============================================================================
