----------------------------- MODULE Changelog -----------------------------
(***************************************************************************)
(* The release notes of internal/pipe/changelog: the log of git or of the  *)
(* forge, filtered, sorted and grouped.                                    *)
(*                                                                         *)
(* A commit is its sha, a message and the people it credits; messages are  *)
(* numbers, in the order strings.Compare gives them. A regular expression  *)
(* is the set of messages it matches, Bad where it does not compile.       *)
(***************************************************************************)
EXTENDS Naturals, Sequences, SequencesExt

Bad == {0}

(* One credit for each: by user name, else by address, else by name.       *)
KeyOf(p) ==
  IF p.username # "" THEN p.username ELSE IF p.email # "" THEN p.email ELSE p.name
cleanupAuthors(people) ==
  LET Adds(credited, p) ==
        IF KeyOf(p) \in {KeyOf(q) : q \in ToSet(credited)} \cup {""}
          THEN credited ELSE Append(credited, p) IN
  FoldLeft(Adds, <<>>, people)

formatEntry(c) == [sha |-> c.sha, authors |-> cleanupAuthors(c.authors)]
formatEntries(log) == [i \in 1..Len(log) |-> formatEntry(log[i])]

(* A loop that appends what passes to its result.                          *)
Keep(log, passing) ==
  FoldLeft(LAMBDA kept, c : IF c \in passing THEN Append(kept, c) ELSE kept, <<>>, log)

(* Include wins over exclude; an entry that several patterns match is      *)
(* listed once.                                                            *)
keepAny(patterns, log) ==
  Keep(log, {c \in ToSet(log) : \E i \in 1..Len(patterns) : c.message \in patterns[i]})
remove(pattern, log) == Keep(log, {c \in ToSet(log) : c.message \notin pattern})

BadFilter(cfg) == Bad \in ToSet(IF cfg.include # <<>> THEN cfg.include ELSE cfg.exclude)
filterEntries(cfg, log) ==
  IF cfg.include # <<>> THEN keepAny(cfg.include, log)
  ELSE FoldLeft(LAMBDA left, pattern : remove(pattern, left), log, cfg.exclude)

(* slices.SortFunc may put equal messages in any order.                    *)
InOrder(direction, i, j) ==
  \/ direction = "asc" /\ i.message <= j.message
  \/ direction = "desc" /\ i.message >= j.message
sortEntries(direction, log) ==
  IF direction = "" THEN {log}
  ELSE {s \in SetToSeqs(ToSet(log)) :
          \A i, j \in 1..Len(s) : i < j => InOrder(direction, s[i], s[j])}

(* A group takes what it matches of the entries no group before it took;   *)
(* without a pattern it takes all of them.                                 *)
Takes(group, c) == group.regexp = {} \/ c.message \in group.regexp
Left_All(group, left) == left
Left(group, left) == Keep(left, {c \in ToSet(left) : ~Takes(group, c)})
Grouped(groups, log) ==
  LET Next(acc, g) ==
        [left |-> Left(g, acc.left),
         made |-> Append(acc.made,
                    [title |-> g.title, order |-> g.order,
                     entries |-> formatEntries(Keep(acc.left, {c \in ToSet(acc.left) : Takes(g, c)}))])] IN
  FoldLeft(Next, [left |-> log, made |-> <<>>], groups).made

(* No pattern is compiled once no entry is left.                           *)
BadGroup(groups, log) ==
  \E i \in 1..Len(groups) :
    /\ groups[i].regexp = Bad
    /\ i = 1 \/ \E c \in ToSet(log) : \A k \in 1..i-1 : ~Takes(groups[k], c)

groupSort(groups) ==
  {s \in SetToSeqs(ToSet(groups)) :
     \A i, j \in 1..Len(s) : i < j => s[i].order <= s[j].order}

(* The sections of the text: groups with an entry in them.                 *)
formatChangelog(groups, log) ==
  IF groups = <<>> THEN {<<[title |-> "", order |-> 0, entries |-> formatEntries(log)]>>}
  ELSE {Keep(s, {g \in ToSet(s) : g.entries # <<>>}) : s \in groupSort(Grouped(groups, log))}

(* Where the log comes from: the forge's comparison needs a previous tag.  *)
getChangeloger(use, previous) ==
  CASE use \in {"", "git"} -> "git"
    [] use \in {"github", "gitlab", "gitea"} -> IF previous THEN "forge" ELSE "git"
    [] OTHER -> "error"

(* The forge's log is not to be had with GitLab's job token.               *)
Fails(cfg, log, jobToken) ==
  \/ cfg.sort \notin {"", "asc", "desc"}
  \/ getChangeloger(cfg.use, cfg.previous) = "error"
  \/ getChangeloger(cfg.use, cfg.previous) = "forge" /\ jobToken
  \/ BadFilter(cfg)
  \/ BadGroup(cfg.groups, filterEntries(cfg, log))

(* Run: a file of notes comes in place of them.                            *)
FromFile == <<[title |-> "release notes", order |-> 0, entries |-> <<>>]>>
Texts(cfg, log) ==
  IF cfg.skip THEN {<<>>}
  ELSE IF cfg.file THEN {FromFile}
  ELSE UNION {formatChangelog(cfg.groups, s) : s \in sortEntries(cfg.sort, filterEntries(cfg, log))}
=============================================================================
