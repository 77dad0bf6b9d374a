---------------------------- MODULE TapDelivery ----------------------------
(***************************************************************************)
(* Manifests for package managers, and their way to the repositories they  *)
(* are kept in: by a git client that works in a checkout under dist        *)
(* (internal/client/git.go), or by the API of the forge, file by file,     *)
(* with a pull request where one is asked for.                             *)
(*                                                                         *)
(* A checkout is a record of the repository, the branch it was asked for,  *)
(* the branch it is on, what the remote had, the working tree and what is  *)
(* committed. A tree is a set of pairs of path and content.                *)
(***************************************************************************)
EXTENDS Delivery

With(tree, new) == {f \in tree : \A n \in new : n[1] # f[1]} \cup new
Content(paths) == {<<p, files[p]>> : p \in paths}
-----------------------------------------------------------------------------
(* doRun of a configuration. Some pipes make no artifact when they are not *)
(* going to publish.                                                       *)
Keeps(kind, t) == ~(kind = "chocolatey" /\ t.skipUpload = "true")
Make(j) ==
  LET kind == Pipe
      t == Configured[j.at]
      made == Manifests(kind, j.at, t)
      paths == {m.path : m \in made} IN
  /\ ~Publishes /\ Pipe \in Kinds
  /\ \/ doRun(kind, t) = "skip" /\ Done(j) /\ UNCHANGED dist
     \/ doRun(kind, t) = "error" /\ Refused(j, "config") /\ UNCHANGED dist
     \/ /\ doRun(kind, t) = "made"
        /\ \E entries \in Entries(kind, Archives(kind, t)) :
             files' = [p \in DOMAIN files \cup paths |-> IF p \in paths THEN entries ELSE files[p]]
        /\ UNCHANGED clones
        /\ \/ /\ Done(j)
              /\ manifests' = manifests \cup (IF Keeps(kind, t) THEN made ELSE {})
           \/ kind = "chocolatey" /\ Unfortunate(j, "pack") /\ UNCHANGED manifests
  /\ UNCHANGED <<fixed, arts, forges, stores, records>>
-----------------------------------------------------------------------------
(* doPublish of a unit: the configuration of its first file decides.       *)
Tap(j) == Configured[First(j.what).at]
To(j) == Target(Pipe, Tap(j))
PathsOf(unit) == {m.path : m \in unit}
Tapping == Publishes /\ Pipe \in Kinds

(* nix prepares the content again, for which it downloads the archives.    *)
StartUnit(j) ==
  LET first == doPublish(Pipe, Tap(j), ctx.prerelease) IN
  /\ Tapping /\ j.phase = "start"
  /\ \/ first = "skip" /\ Done(j)
     \/ first # "skip" /\ Proceeds(j, IF first = "file" THEN PathsOf(j.what) ELSE {}, first)
     \/ first # "skip" /\ Pipe = "nix" /\ Unfortunate(j, "hash")
  /\ UNCHANGED <<fixed, arts, dist, forges, stores, records>>

(* chocolatey: the package is pushed by its own tool.                      *)
PushPackage(j) ==
  LET package == <<"chocolatey", Tap(j).name>> IN
  /\ Tapping /\ j.phase = "nupkg"
  /\ \/ Done(j) /\ sent' = sent \cup {package}
     \/ Unfortunate(j, "push") /\ sent' \in {sent, sent \cup {package}}
  /\ UNCHANGED <<fixed, arts, dist, forges, registry, apps, records>>
-----------------------------------------------------------------------------
(* The git client.                                                         *)
Mine(j) ==
  {c \in clones : c.name = To(j).name /\ c.url = To(j).git /\ c.branch = To(j).branch}
Clone(j) == CHOOSE c \in Mine(j) : TRUE
ReplaceClone(j, c) == clones' = (clones \ Mine(j)) \cup {c}

(* A directory that is there is used as it is.                             *)
OpenClone(j) ==
  LET main == remote[To(j).git]["main"]
      new == [name |-> To(j).name, url |-> To(j).git, branch |-> To(j).branch,
              on |-> "main", base |-> main, tree |-> main, head |-> main] IN
  /\ Tapping /\ j.phase = "clone"
  /\ \/ Mine(j) # {} /\ Proceeds(j, {}, "commit") /\ UNCHANGED clones
     \/ /\ Mine(j) = {} /\ ReplaceClone(j, new)
        /\ Proceeds(j, {}, IF To(j).branch = "" THEN "commit" ELSE "checkout")
     \/ Mine(j) = {} /\ Unfortunate(j, "clone") /\ UNCHANGED clones
  /\ UNCHANGED <<fixed, arts, manifests, files, forges, stores, records>>

(* checkout, or checkout -b: the branch starts where main is.              *)
Checkout(j) ==
  LET b == To(j).branch
      branches == remote[To(j).git]
      tree == IF b \in DOMAIN branches THEN branches[b] ELSE Clone(j).head IN
  /\ Tapping /\ j.phase = "checkout"
  /\ \/ /\ Proceeds(j, {}, "commit")
        /\ ReplaceClone(j, [Clone(j) EXCEPT !.on = b, !.base = tree, !.tree = tree, !.head = tree])
     \/ Unfortunate(j, "checkout") /\ UNCHANGED clones
  /\ UNCHANGED <<fixed, arts, manifests, files, forges, stores, records>>

(* add -A and commit, which fails when there is nothing to commit.         *)
Commit(j) ==
  LET written == With(Clone(j).tree, Content(PathsOf(j.what))) IN
  /\ Tapping /\ j.phase = "commit"
  /\ \/ /\ written # Clone(j).head /\ Proceeds(j, {}, "push")
        /\ ReplaceClone(j, [Clone(j) EXCEPT !.tree = written, !.head = written])
     \/ /\ written = Clone(j).head /\ Refused(j, "state")
        /\ ReplaceClone(j, [Clone(j) EXCEPT !.tree = written])
     \/ /\ Unfortunate(j, "commit")
        /\ ReplaceClone(j, [Clone(j) EXCEPT !.tree = written])
  /\ UNCHANGED <<fixed, arts, manifests, files, forges, stores, records>>

(* push origin HEAD, to a branch that is still what it was when cloned.    *)
Reset(branches, b, tree) ==
  [x \in DOMAIN branches \cup {b} |-> IF x = b THEN tree ELSE branches[x]]
Push(j) ==
  LET c == Clone(j)
      branches == remote[c.url]
      fast == c.on \in DOMAIN branches => branches[c.on] = c.base IN
  /\ Tapping /\ j.phase = "push"
  /\ \/ /\ fast /\ Done(j)
        /\ remote' = [remote EXCEPT ![c.url] = Reset(@, c.on, c.head)]
        /\ ReplaceClone(j, [c EXCEPT !.base = c.head])
     \/ ~fast /\ Refused(j, "state") /\ UNCHANGED <<remote, clones>>
     \/ Unfortunate(j, "push") /\ UNCHANGED <<remote, clones>>
  /\ UNCHANGED <<fixed, arts, manifests, files, pulls, stores, records>>
-----------------------------------------------------------------------------
(* The API: a branch that is not there is made from the default branch;    *)
(* a call that fails may have had its effect.                              *)
Branch(j) == IF To(j).branch = "" THEN "main" ELSE To(j).branch
TreeOf(branches, b) == IF b \in DOMAIN branches THEN branches[b] ELSE branches["main"]
Afterwards_EachFile(j, left) ==
  IF To(j).pullRequest THEN Proceeds(j, left, "pull")
  ELSE IF left # {} THEN Proceeds(j, left, "file") ELSE Done(j)
Afterwards(j, left) ==
  IF left # {} THEN Proceeds(j, left, "file")
  ELSE IF To(j).pullRequest THEN Proceeds(j, {}, "pull")
  ELSE Done(j)
CreateFile(j, p) ==
  LET branches == remote[To(j).name]
      tree == TreeOf(branches, Branch(j))
      Leaving(t) == remote' = [remote EXCEPT ![To(j).name] = Reset(@, Branch(j), t)]
      left == j.left \ {p} IN
  /\ Tapping /\ j.phase = "file" /\ p \in j.left
  /\ \/ /\ Leaving(With(tree, Content({p})))
        /\ Afterwards(j, left)
     \/ /\ Unfortunate(j, "file")
        /\ UNCHANGED remote \/ Leaving(tree) \/ Leaving(With(tree, Content({p})))
  /\ UNCHANGED <<fixed, arts, dist, pulls, stores, records>>

(* A request that is already open, which the forge answers with 422, is no *)
(* failure.                                                                *)
Tolerated_None(status) == FALSE
Tolerated(status) == status = 422
OpenPullRequest(j) ==
  LET pull == [repo |-> To(j).name, head |-> Branch(j), unit |-> PathsOf(j.what)]
      opened == \E x \in pulls : x.repo = pull.repo /\ x.head = pull.head IN
  /\ Tapping /\ j.phase = "pull"
  /\ \/ ~opened /\ Done(j) /\ pulls' = pulls \cup {pull}
     \/ opened /\ (IF Tolerated(422) THEN Done(j) ELSE Refused(j, "fault")) /\ UNCHANGED pulls
     \/ Unfortunate(j, "pull") /\ pulls' \in {pulls, pulls \cup {pull}}
  /\ UNCHANGED <<fixed, arts, dist, remote, stores, records>>

TapStep(j) ==
  \/ Make(j) \/ StartUnit(j) \/ PushPackage(j)
  \/ OpenClone(j) \/ Checkout(j) \/ Commit(j) \/ Push(j)
  \/ (\E p \in j.left : CreateFile(j, p)) \/ OpenPullRequest(j)
=============================================================================
