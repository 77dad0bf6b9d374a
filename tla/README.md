# GoReleaser in TLA+

TLA+ modules that model the control of GoReleaser, TLC configurations that
model-check them on small instances, and theorems about them that TLAPS
checks. Paths below are relative to the repository (`src/`). `PROJECT.json`
maps every definition to the lines it models and lists the runs, the
hazards, the theorems and the findings.

Contents: [the system](#the-system), [the modules](#the-modules),
[the runs](#the-runs), [fairness](#fairness), [the proofs](#the-proofs),
[findings](#findings), [what is not modelled](#what-is-not-modelled),
[plan](#plan).

To repeat a run: `tlc -config MCRetry.cfg MCRetry` (every `.cfg` belongs to the
module its name starts with). To repeat a proof: `tlapm Helpers_proofs.tla`.

## The system

GoReleaser is a command line program. One process goes once through a list of
*pipes*; the pipes share one `context.Context` with the configuration, the
artifact registry `ctx.Artifacts` and `ctx.Skips`. Pipes run one after the
other. Inside a pipe, *tasks* run concurrently in a group of
`ctx.Parallelism` goroutines. Nothing is persisted between two runs except what
is in `dist/` (removed or refused at the start) and on the forges, registries
and taps the run published to: a second run meets what a first one left there.

| component | state | operations | talks to |
|---|---|---|---|
| task groups, `internal/semerrgroup` | a semaphore channel, the first error, the skips, whether the first task is over | New, NewSkipAware, NewBlockingFirst; Go, Wait | every pipe that does something per artifact |
| release command, `cmd/release.go`, `internal/pipe/publish`, `internal/pipe/announce`, `internal/middleware` | the skips, the position in each list, the memos of errors | setup, the pipe loop, the publish loop, the announce loop | all pipes, in order |
| build command, `cmd/build.go` | target and output options | the build pipeline | the pipes up to `metadata` |
| git state and versions, `internal/pipe/git`, `semver`, `env`, `snapshot`, `before`, `dist`, ... | what they found in `ctx` | tags, tokens, checks that end the command early | git, the environment |
| retries, `internal/retryx` | attempts used up, the next wait | Do, DoWithData | every client of a network service |
| GitHub releases, `internal/client/github.go`, `internal/pipe/release` | nothing local; releases and assets at the forge | preflight, create or update, upload, delete, publish | retries, task groups |
| GitLab and Gitea releases, `internal/client/gitlab.go`, `gitea.go` | the same at their forges, links, a package registry | the same, without a step that publishes | retries, task groups |
| changelog, `internal/pipe/changelog` | `ctx.ReleaseNotes` | log, filter, sort, group, format | git or the forge |
| checksums and signatures, `internal/pipe/checksums`, `internal/pipe/sign` | checksum files on disk, `checksums.lock`, the registry | refresh, sign | artifact registry, sign commands |
| artifact registry, `internal/artifact` | a list under a lock, an `Extra` map per artifact without one | Add, Remove, Filter, Visit, Refresh, Checksum, groupings | every pipe |
| build pipe, `internal/pipe/build` | two levels of groups, the registry | prepare, hooks, build, register | builders |
| builders, `internal/builders/*` | files their tools leave in the workspace | Prepare, Build, AllowConcurrentBuilds | external tools |
| universal binaries, upx and notarization | binaries in the registry and on disk, replaced in place | make, compress, sign | artifact registry |
| archives, packages (nfpm, srpm, makeself, snapcraft, flatpak, sbom) | files in `dist`, one per name | one task per archive or package | artifact registry |
| taps and package repositories (brew, cask, nix, winget, krew, scoop, aur, aursources, chocolatey) | commits, branches and pull requests elsewhere | render, commit, open a pull request | forge clients, git |
| commits to other repositories, `internal/client/git.go` | a clone in `dist`, shared under a lock | clone, checkout, commit, push | git |
| docker images (docker, manifests, dockerv2, ko, digests, signatures) | images and digests | build, push, join, attest | docker, registries |
| uploads, `internal/http`, `internal/pipe/blob`, `iru`, `mcp`, `milestone`, `custompublishers` | nothing local | one request, or a few, per artifact and target | retries, task groups |
| announcers, fourteen pipes | nothing | one or two requests each | retries |
| configuration, `pkg/config` | the project's settings, completed by each pipe's `Default` | | every pipe |
| templates and loading, output and shell | nothing that outlives the call | formatting, decoding, logging | |

What is hard to test in it: tasks of one group, and of nested groups, in an
order nobody chose; a failure among several tasks and publishers, some of
which are set aside; requests whose reply is lost and that are sent again; a
run that is killed and started again for the same tag; files that one
task rewrites while another reads them. `PROJECT.json` lists
the worst of these under `hazards`, at its line, with the properties that cover
it.

What makes each part correct, in short:

* a group starts tasks in order, no more than its limit at once, runs the first
  one alone when asked to, and `Wait` speaks for all of them;
* nothing is announced unless everything is published, a snapshot publishes
  nothing, an error that was set aside is still in the exit status;
* a call is repeated no more often than configured, transient errors are not
  given up on, refusals are not repeated, a wait asked for by the server is
  kept;
* a release becomes public only when it is whole, success means it holds this
  run's files, and starting again gets out of any trouble;
* checksum files are whole when the pipe succeeds, and what was signed is what
  is uploaded;
* no more than `ctx.Parallelism` targets are built at once, each gets its own
  binary, and success means all of them were built;
* from the binaries to the packages nothing is lost, doubled, overwritten or mixed
  with what is for another machine;
* what leaves the machine was validated and asked for, is whole, agrees with the
  release and is of this run;
* the notes of a release tell of each commit they should tell of, once, and what
  was there before is not lost.

## The modules

Every module has the names of the code it models. A module is written for TLC
and TLAPS alike: parameters are `CONSTANTS` with a named `ASSUME`, each step of
the code between two points where another goroutine, process or server
can interfere is one action. A template is the value it evaluates to, and a name the template
it comes from with the fields that template uses.

Some operators come with a second one whose name continues with an underscore
(`HasRoom` and `HasRoom_OneMore`). The second is a slip the code could contain
(an off-by-one, a dropped condition). **No specification uses these**; each is
put in place of the first one to see a property fail, which shows that the
property depends on that line of the code.

### TaskGroupSpec and TaskGroup

`TaskGroupSpec` is what `internal/semerrgroup` promises: tasks 1..N start in
order, at most `Limit` execute at a time, the first alone if wanted,
and one verdict after the last of them. `TaskGroup` is how it does it:
`tokens` is the semaphore channel of errgroup (external), `groupErr` the error
its `errOnce` kept, `skipErr` the skips of `skipAwareGroup`, `firstDone`
the flag of `blockingFirstGroup`. `Go` is the loop of a pipe that submits the
tasks; `GoFirst` and `FirstReturns` are the first call of a blocking-first
group, which runs in the caller and hands an error to the inner group as a
task of its own; `Return` and `Retire` are a task's function returning and the
bookkeeping after it; `Wait` is `Wait`. Which wrappers a group has is a
variable that never changes, so that one run sees every shape the pipes build
(`MCTaskGroup!UsedShapes`). `Abstract == INSTANCE TaskGroupSpec WITH ...`
maps a task whose function returned to an ended one, and `ImplementsGroup` is
the refinement.

The modules below whose code uses a group (`SignChecksums`, `BuildPipe`,
`GitHubRelease`) do not repeat this machinery: they use what `TaskGroupSpec`
promises, a count of the tasks under way that is compared with the limit.

### PipelineOrder and ReleaseCommand

`PipelineOrder` is data: the pipelines of `internal/pipeline`, the publishers of
`internal/pipe/publish` and which of them have `ContinueOnError`, the
announcers. `ReleaseCommand` is `releaseProject`: `Setup` computes the skips
from the flags, then a position `at` walks through the pipes; at the publish
pipe a position `pubAt` walks through the publishers, at the announce pipe
`annAt` through the announcers. A pipe, publisher or announcer either works or
fails; what it does inside is left to the other modules. `pubFailed` and
`annFailed` are the error memos. A skip is not an error (`errhandler.Handle`)
and so is not told apart from success.

### RetryPolicy and Retry

`RetryPolicy` is `IsRetriable`, `IsNetworkError` and the delay of
`internal/retryx`. An error is a record of what its classification
looks at: network or not, marked retriable or unrecoverable, status, and the
wait the server asked for. `Retry` is the loop of retry-go (external)
around the function, for each of the three predicates the code passes,
with a context that may be cancelled at any time. retry-go cuts a wait to
`max_delay`, also the one a server asked for (`Capped`): that is why
`ServerWaitKept` says "up to max_delay".

### GitHubRelease

The release pipe and its client against the forge. `releases` and
`assets` are what GitHub keeps for one tag. `pc` is where `doPublish` is:
preflight, dropping an old draft, finding a release, creating or updating it,
uploading, publishing. `up[u]` is where `Upload` of artifact `u` is: posting,
listing the assets after a 422, deleting, posting again, with the attempts of
the outer and the inner retry loop. A request that writes may be carried
out although its reply is lost (`Fault`), and is then sent again. `Kill`
ends the run anywhere, `StartAgain` is the user running the command again for
the same tag.

Of the forge only what the code relies on is modelled, and marked external: it
refuses a second asset of a name (422), a second deletion (404), and a second
published release for a tag. Scheduling of uploads is free: any artifact that
has not begun may begin while fewer than `Limit` are under way.

### SignChecksums

`internal/pipe/sign` over the files of `internal/pipe/checksums`. Each sign
configuration is a goroutine: for each checksum file it takes
`checksums.lock`, truncates the file, writes it, releases the lock and runs the
sign command. `copies[i]` is how often file `i` contains its lines: 0 after the
truncation, 1 when it is as it should be; that is all the properties tell apart.
Each of the steps may fail: a file that cannot be written stays as short as it is, and
the lock is released all the same.
With `checksum.split` there is a file per artifact and no lock. When every
configuration is done, `Run` refreshes all files once more, and that may fail, too:
`result` is then `"not refreshed"`, and `next` the file it failed at. `FilesWhole` says that
the pipe succeeds only if all files are whole, and of a pipe that fails which files may be
cut short: those whose refresh failed.

### Builders and BuildPipe

`Builders` has one record per builder: whether it may run concurrently,
whether it has a `Prepare`, and where its tool leaves the binary.
`BuildPipe` is `Run` of `internal/pipe/build`: the loop over the builds
with its early returns, the outer group, the nested group of one for a
builder that may not run concurrently, and the steps of a target's task (pre
hook, tool, copy and register, post hook), each of which may fail.
`workspace` says whose binary is at each place a tool writes to, so that a task
that copies another's binary is seen. `partial` is the target of `--split`.

### Artifacts

`internal/artifact` without its lock, which makes each Add and Remove
one step: the types, the filters and what an empty one lets through, and the
groupings. The variants of an architecture (`goamd64`, `goarm64`, `goarm`, ...)
are one function over `VariantFields`. `Specific` is the detail on which much
depends: the keys of `GroupByPlatform` carry the variants of every field as soon
as any field has two.

### Packagers and Packaging

`Packagers` is, for each packaging pipe, what it selects from the list
(`archived`, `findArtifacts`, `snapped`, `catalogued`, ...), the tasks it makes of
that, the artifact a task adds and the defaults the pipe fills in. `Packaging`
runs them: `stage` walks through the pipes in pipeline order, `Start` turns
configurations into tasks as the pipe's `Run` does (nfpm, snapcraft and flatpak one
configuration at a time, the others all at once), tasks run in any order, and
`Finish` is the end of a pipe. A task that looks at the list and changes it later
has a step for each (`makeUniversalBinary`, `addUniversalBinary`, `replaceSlices`).
`files` is what is in `dist`, `prime` snapcraft's directories; `packed`, `signed`
and `notarized` what was done to binaries in place. A binary and what is made of it
are linked by `of`, the paths a package was made of.

### Configuration

The types of `pkg/config` with the settings that change what the program
does. `Packaging` and `Delivery` assume of every configuration they are given that it
belongs to them.

### Setup

Flags, environment and git history to what `ctx` has after the setup
pipes: which skips are implied, which token, which tag and which previous one, and
every check that ends the command early. A history is a sequence of the tags at
each commit.

### Taps, Images, Uploads, Announcers

For each publisher, as operators: what it selects, what it refuses, what its
manifest lists and where that goes, with its defaults. `Taps` has the nine kinds of
package repositories side by side, since they differ in just these decisions;
`doRun` and `doPublish` say of each whether it makes a manifest, skips or
fails, and whether it goes by git, by API or by its own tool. Two archives that clash are an
error where they are looked for, but for chocolatey, which skips the package and goes on
with the next. A
`dockerv2` image without a Dockerfile is skipped, one for which a file of an unsupported
platform is selected is an error (`v2Errs`). An announcer
is a record of what it needs, the requests it makes and what it retries.

### Delivery, TapDelivery, ImageDelivery, UploadDelivery and Publishing

`Delivery` is what they have in common: the stages (the pipes that prepare manifests
and images, every publisher in order, the announcers), how configurations become
jobs, which stages go on after a failure and which stop, what a failed
publisher does to the others, the setup pipes, a program that is stopped (`Crash`)
and run again on the same machine (`Again`). Each of the other three has the steps of its
jobs: `OpenClone`, `Checkout`, `Commit`, `Push`, `CreateFile` and `OpenPullRequest`;
`BuildImage`, `PushImage`, `PushManifest`, `BuildPush`, `KoBuild`, `CopyImage`,
`WriteDigests`, `SignImages` and `PushSnap`; `Deliver`, `UploadFile`, `CreateApp`,
`Release`, `PublishServer`, `CloseMilestone` and `Request`. A request that fails
may have been carried out, and a file that is written (the digests, the list of artifacts)
or read again (the hash of a nix archive) may fail as well. `Release` is the release as
seen from the taps: on GitHub its assets show all at once, when the draft is published, on
the others one by one; an asset that is there already is refused by GitHub and
GitLab unless `replace_existing_artifacts` is set (`AlreadyExists`). `release.draft` is
left to `GitHubRelease`. `Publishing` puts them together and states the
properties. `PipelineOrder` gives the order, the same `ReleaseCommand` uses.

The state outside the program is kept across runs: `remote` (repositories,
branches and their files), `pulls`, `registry` (names and digests of images),
`sent`, `apps`, `released`, `announced`. `files` and `clones` are `dist`, which
`--clean` empties.

### Changelog and ForgeRelease

`Changelog` is the changelog pipe as operators: where the log comes from, filters,
order, groups and credits. Regular expressions are the sets of messages they
match. `ForgeRelease` is that pipe and then the release pipe against GitLab or Gitea:
a log or a file of notes that cannot be read, `CreateRelease` and `UpdateRelease` with the notes that were there, `UploadFile`
(an attachment of Gitea, a file of GitLab's project or package registry) and, on
GitLab, `CreateLink`, `FindLink`, `DeleteLink` and `LinkAgain`. `notes` is a sequence
of texts with the run that wrote each. The reference definition the changelog is
checked against is written with sets and quantifiers in `NotesTellEach`, of
the notes as they are at the forge in the end.

## The runs

Each run finishes within two minutes. Deadlock is checked where a run can rest
(`packaging`, `publish`, `forge_release` have an explicit last state); the other
programs end, and that they do not stop before their end is what their liveness
properties say.

| run | what it checks and shows | bounds, and why they are enough |
|---|---|---|
| `task_group` | faithful `Wait`, refinement of `TaskGroupSpec`, `Wait` returns | 4 tasks, limit 2, the three shapes in use: two run, one waits for a token, one comes after it; every combination of ok, skip and fail |
| `release_command` | nothing announced that is not published, snapshots stay local, publishers in order, honest exit | goreleaser's own 49 pipes and 24 publishers, no bound; 4 of 14 announcers, which are all alike; all options |
| `retry` | bounds on calls, no early surrender | one error per class, 0 to 3 attempts, all predicates; `BackOff` 1, `MaxDelay` 5, so that a server's wait is below (2) and above (9) the cut |
| `github_release` | the release is whole, public only when whole, published releases stay, a run without faults succeeds | 2 artifacts, 2 at a time, 2 attempts, 3 faults, 2 runs: enough for a lost reply, its retry, a failed retry and a kill, then a second run that meets what is left; 37 settings of the options; every state of the forge an earlier attempt leaves |
| `forge_release` | success serves this run's files, notes tell each commit once and are kept, a run without faults succeeds | 2 artifacts, 2 at a time, 2 attempts, 2 faults, 2 runs; thirteen ways to release times the states an earlier attempt leaves, and some two hundred changelogs of up to three commits and three groups, in releases without assets so that the two do not multiply |
| `sign_checksums` | files are whole when the pipe succeeds, otherwise only those cut short whose refresh failed; no waiting forever for the lock | 2 configurations and one with `artifacts: none`, 2 at a time, one file: two refreshes overlap |
| `sign_checksums_race` | finding: a signature may be over an empty file | as `sign_checksums` |
| `build_pipe` | own binaries, completeness, nothing runs after success, `Run` answers | a Rust build of two targets that share cargo's directory, a Zig, a skipped and a Go build; limit 2; whole and split |
| `packaging` | no binary lost or doubled, replaced ones stay out, variants apart, one bill of materials each, nothing overwritten | three lists of binaries (one level, two levels of amd64, two ids), every tool there or none, twenty configurations with two of each kind where two can meet and one that skips the archives, one failure at any task |
| `packaging_snap_arch` | finding: the arm64 snap of a project with two levels of amd64 is dropped | the same lists, one snap |
| `publish` | the eleven properties of `Publishing`, below | some ninety scenarios, each with what can meet: two or three taps in one repository, two archives per platform, images joined in a manifest, an earlier run's images, a release with assets of an earlier run at each forge, to be replaced or not; eighteen worlds; two faults in the first run and none in the second |
| `publish_branch` | finding: a tap committed to a branch it does not name | two taps in one repository, one fault |

The properties of `publish`: a tap lists only archives of the release
(`RefersToReleased`); a pull request has every file of its manifest
(`PullRequestIsWhole`); one archive per platform (`OnePerPlatform`); PKGBUILD and
.SRCINFO agree (`AurFilesAgree`); a tap that is not to be uploaded leaves nothing
(`SkippedLeavesNothing`), nor does a command that did not validate, neither at a forge nor
in an image registry nor among the signatures (`OnlyValidatedLeaves`); digests and signatures are of what the registry has
(`AttestsWhatIsThere`); an app is created once (`NoDuplicateApps`); a manifest joins
the images this run pushes as it pushed them, while an image withheld by `skip_push`, or none
of the project's, goes in as whatever the registry has under its name
(`ManifestJoinsThisRun`); files in a build context have places
of their own (`ContextKeepsApart`); and a second run without faults gets through what the first left,
assets where they are to be replaced (`SecondRunGetsThrough`). Each says in its comment what it leaves out, which are
cases in which the code does promise nothing.

Bounds by name: `MaxFaults` (lost requests, lost replies and kills in a
history; failed tasks in `Packaging`; failed steps of the first run in
`Delivery`), `MaxRuns` (starts of the command), `MaxAttempts`
(`retry.attempts`), `Limit` (`ctx.Parallelism`), `N` (tasks). In `Packaging` and
`Delivery` tasks are not limited: fewer at a time are fewer interleavings.
Symmetry is used in `github_release` and `forge_release`: the two artifacts have
each their own name and no property there is a liveness property.

## Fairness

* `TaskGroup`: each action weakly fair. A goroutine that can go on is
  scheduled, and the functions of tasks return because the commands and
  requests they make carry the context, which has a timeout
  (`cmd/release.go`, `--timeout`). Which task runs is not assumed.
* `SignChecksums`, `BuildPipe`: weak fairness for `Run` and for each
  goroutine's steps. Waiting for `checksums.lock` needs no strong
  fairness because each configuration takes it once per file. In `BuildPipe` fairness
  of the tasks ends when `Run` has answered: the process may exit before tasks
  left behind by an early return do anything.
* The other modules state no liveness. `Retry`'s loop ends when its calls are used
  up, which `BoundedCalls` bounds; `ReleaseCommand` is one thread; the releases,
  `Packaging` and `Publishing` have no loop but retries and no wait but for
  their own tasks, whose groups `TaskGroup` shows to return.

## The proofs

The theorems hold for every value of the constants that satisfies the `ASSUME`
of the module. Each module's proofs find an inductive invariant `IInv`, show
`Init => IInv` and `IInv /\ [Next]_vars => IInv'` with a lemma per action, and
derive the properties from it.

* `Helpers_proofs`, about `TaskGroup` and `Retry`, the two helpers every pipe builds on.
  Of the group, for any `N`, `Limit > 0` and shapes: `IInv` adds to the types:
  `TokensMatchPool` itself; `Progress` (the tasks handed in are 1..`submitted`,
  and a task has an outcome exactly when its function returned); `FirstStep`
  (only task 1 runs in the caller, and alone); `Kept` (what the group keeps
  comes from tasks that are done: without it `Wait`'s answer could not be
  traced to a task); `Answered` (the answer is `Verdict` of a state in
  which all are done, and later states keep it). `EnterPool` and `LeavePool`
  are the two lemmas about cardinality on which the count of tokens rests.
  Theorems: `TypeCorrect`, `TokensCountPool`, `FirstTaskAlone`,
  `WaitSpeaksForAll`, and `GroupRefinement`: the specification implements
  `TaskGroupSpec`, step by step.

  Of the retry loop, for any set of errors, any `retry.attempts`, back-off and
  `max_delay > 0`: in `RetryInv`, `AttemptsLeft`, `WaitsForIt` and `FailedForIt` say why
  the loop is where it is. Theorems: `CallsAreBounded`, `TransientIsRetried`,
  `ServerWaitIsKept`, `RefusalsEnd`. (The module extends both, which is why `Retry`
  calls its specification `RetrySpec` and its variables `retryVars`.)
* `ReleaseCommand_proofs`, any pipeline that publishes once and announces last.
  `Memos` (outside its stage a memo is empty, so a stage never ends with an
  error it did not report), `Published` (past the publish pipe every publisher
  was called) and `SkipsKnown` with `AnnounceFollowsPublish` (what is not
  published is not announced) carry the argument. Theorems: `TypeCorrect`,
  `NothingAnnouncedEarly`, `SnapshotStaysLocal`, `PublishersInOrder`,
  `HonestExit`. That goreleaser's own pipeline satisfies the assumption is
  evaluated by TLC in `release_command`.
* `SignChecksums_proofs`, any configurations, files and limit. `EmptyMeanwhile`
  (an empty file has a writer, or one that failed), `Locked` (one configuration between truncation
  and write) and `WritesTruncated` (so what is written is written to an empty
  file). Theorems: `ChecksumFilesWhole`, and `SerialSignaturesVerify`, which
  assumes `Limit = 1`: with more the run `sign_checksums_race` is a
  counterexample.
* `BuildPipe_proofs`, any builds with distinct targets and any limit. `Nesting`
  (a nested group has one task, and only while its token is held) makes the
  nested tasks injective into the tokens, which gives `ParallelismIsKept`.
  `Handed`, `Waited` and `Registered` chain "Run is past the build" to "each
  selected target was built", which gives `SuccessSpeaksForAll`; `AllOver`
  gives `SuccessIsQuiet`; `Progress` gives `BuildersArePrepared`.
  `OwnBinaries` has the proviso `PlacesApart`: two tools write to one
  place only within a build that runs one task at a time. The proviso is true of the
  project of `build_pipe` and false of one with two Rust builds of one crate (see
  [findings](#findings)).
* `GitHubRelease_proofs`, any artifacts, any number of attempts, of faults and
  of runs. `Existing` (a release that is deleted was a draft when it was found,
  one that is worked on is still there) gives `PublicationStays`. `Numbered`
  (the forge numbers assets apart), `Targets` (an upload deletes by number only
  what has its own name) and `Stored` (a successful upload has its asset in the
  release) make the uploads independent: what one has stored no other deletes.
  `IdleEarly` and `Uploads` carry that from the uploads to the step
  that publishes. `Advance` is the lemma all six steps of an upload go through.
  Theorems: `TypeCorrect` and `PublicationStays` for any names;
  `SuccessMeansWhole`, `PublicationIsWhole` and `CalmMeansSuccess` for `NamesApart`,
  artifacts uploaded under different names, since two of one name delete each other's
  assets when `replace_existing_artifacts` is set. `CalmMeansSuccess` needs to know
  what earlier runs, of which nothing is assumed, can have left: one published
  release and one asset of a name (`AtForge`), and of this run only what uploads
  have answered for (`Own`), so that a conflict in a run without faults is with an
  asset of an earlier run; and that what an upload makes room for stays free
  for it (`Clears`).
* `ForgeRelease_proofs`, any projects, artifacts, numbers of attempts, of faults and of runs.
  `UploadInv` says of each upload what is its own: the link it deletes (`Linking`) and,
  once it succeeded, an asset that leads to the file of this run (`Stored`); with
  `OneLink`, GitLab's promise that a release has one link of a name, kept although links are
  deleted and made again. That is `SuccessIsServed`; `OwnStep` is the lemma all six steps of
  an upload go through. `CalmInv` says that without a fault a file of this run belongs to an
  upload that has succeeded, so that a link found in the way is of an earlier run; and that a
  failed upload found one (`CalmRunsToForges`). `NotesInv` relates the notes at the forge to
  those to send: until the release is looked for none are of this run, from then on what is
  sent holds what is there and one text of this run at most, so that sending it twice is
  harmless (`NotesAreKeptOnce`). `TextsInv` adds that every text of a run is one that the
  changelog pipe may make of the log (`Honest`). What it makes is the one place where a proof
  goes through data by induction. `Inductive` is induction on a set of numbers, from the least
  number of a set (`WFMin` of the library, which is first-order, where the induction
  theorems take an operator); `Recursion` gives a step a function that follows it, so that a
  fold can be reasoned about one element at a time (`KeepSteps`, `RemoveSteps`,
  `AuthorSteps`, `GroupSteps`, `FlattenSteps`). On that rests the algebra of the
  changelog: `Selects` says that a sequence is what another has in a set, in its
  order; the filter, a group and what it leaves select (`FilterSelects`, `GroupingSteps`),
  sorting reorders (`SortOrders`), credits keep their keys apart (`CreditsApart`), and the
  sections share out what is asked for (`Covers`), so that their entries, joined, are one for
  each commit (`ToldEach`). `NotesTellOfEach` is that, for every log and configuration.
  `ForgeAssumption` is all that is assumed: the projects have the options of a release
  and of a changelog, and a log has no commit twice.
* `Packaging_proofs`, any lists of binaries, any configurations and tools, any tasks
  that fail. `OtherStep` and `UniversalStep` reduce the fifteen kinds of task to four
  facts (how the task ends, what it adds, what it removes, what it copies), on
  which the invariants are shown to rest. `SoundSlices` (what a task that makes a
  universal binary read still contains all slices in the list, and when it is about to
  remove them its binary is in the list) gives `NothingIsLost`; no invariant but the control is
  needed for `NothingWrittenOver`. `Apart` says where what is packaged comes from:
  `Origins` (it was built, or is the universal binary of one configuration, whose task
  is over or only has its slices to remove), `PathsApart` (one artifact for a path) and `SlicesGone`
  (slices that are replaced are out of the list, or the pipe is still at it or failed). With
  `Contents` (a package holds what is in the list) it gives `SlicesStayOut`; with
  `Together` and `GroupAlike`, which is what `GroupByPlatform` promises,
  `PackagesOfOnePlatform`. `Stock` keeps the account of the archive pipe: every upload
  is from one of its tasks that is over, every task that is over put its archive,
  or each of its binaries, in the list, or one failed and the pipe will not get past; a task
  makes one archive. That is `Accounted`; `TaskOfBinary` (a binary is in one group, and in
  one task of each of its formats) turns it into `ArchivedOnce`.
  `CataloguedAtMostOnce` stands on all of that and on two more invariants. `Separate`: archives
  and packages have a file each (`FilesApart`), the source archive is one, and where
  the archive pipe is skipped nothing is uploaded as it is. `Bills`: a bill of materials is that
  of one artifact its configuration still catalogs, for while bills are written
  nothing else enters the list (`CataloguedStays`). What one configuration catalogs has
  different paths (`OncePerPath`): for plain uploads through the account of the archive
  pipe, down to the configuration and the binary each is of (`PlainUpload`).
  `SlicesStayOut`, `PackagesOfOnePlatform`, `ArchivedOnce` and `CataloguedAtMostOnce` assume
  `BuiltApart`: the
  build pipe leaves artifacts of the types builders make, each in a file of its own that
  is not the file of a universal binary. `OwnBinaries` is the same of the build pipe, and
  only builds with `no_unique_dist_dir` that name their binaries alike break it.
  `PackagesOfOnePlatform` also assumes `NoSnaps`: two snaps of one name share a
  prime directory (see [findings](#findings)), in which variants do meet.
  `CataloguedAtMostOnce` also assumes `UploadedOnce`, that no two archive configurations
  upload one binary as it is. That is not for the proof's convenience: `ByBinaryLikeArtifacts`
  drops a binary that is also uploaded, but keeps both uploads when there are
  two, so that one `sboms` entry catalogs the file twice (`internal/artifact/artifact.go:749`),
  under two names where the archives name it differently.
* `Publishing_proofs`, any scenarios and worlds, any failures, stops and second runs.
  `Sound` follows a file from the manifest to wherever it is. `YardInv`: what is in
  `dist`, in a checkout, on a branch or in a manifest is `SoundEntries`, one archive of
  this build for a platform, with PKGBUILD and .SRCINFO in pairs, and a job goes the
  way its tap asks for. `SoundArts`: pipes only add to the archives what is none.
  `ReleasedBefore`: once anything is committed, or the release is past, the archives are
  at the release. `Settled` (a second run, setting the defaults again, finds the same
  taps) holds from the first setup on. That much is needed because of the checkout taps
  share: what one committed may go out with another's push, in a later run.
  `LeavesInv` is the argument of `ValidatedOnly`, which needs none of it but, for the image
  registry, `NoCopies`: ko works in a snapshot, too, and then has nothing to copy to a
  registry, while all else that pushes images is skipped (`RegistryFrame`).
  Six more invariants stand beside `YardInv`. `CausesInv` keeps why a run fails: in a
  second run no fault is left to blame, and what is refused for what is there already is
  refused by git, by the MCP registry or for an image a manifest misses
  (`HeldUp`), but for assets that are not to be replaced (`KeepsOld`); it follows what each of the jobs of the publishers can come to (`Courses`,
  `Explained`). That the image is still missing when the run is over is where
  `ListsNoManifest` is needed: no manifest bears a name another one lists, so none that is
  pushed alongside can provide it. `AppsInv` keeps one job for an app and no app of this run of
  an artifact that has a job left to create it, tried again or not; `AppsApart` is needed
  because two `iru` configurations that select one artifact do create two apps of it, as they
  are asked to. `JoinInv` follows an image from the list to its push and into a manifest:
  past the docker pipe each image to push is an image pushed in this run, since the run
  ends if one is not, or is withheld by `skip_push` (`Held`), which `ManifestsJoinThisRun` says nothing
  of: a manifest that lists it gets what the registry has (see [findings](#findings)). `AttestInv` says of each image that was pushed that the registry still
  has it: under its name is the key of the one configuration that pushes that name, in this
  run (`Keyed`, `Owns`). `ImagesApart` is needed because a second push of a name replaces
  what the registry has under it, and the digests file is written at the end with the digest
  each push had then. `ContextInv` says that pipes add nothing that is copied into a build
  context, so that what lies there is what was built. `ContextFilesApart` is a condition on
  the project, and one the code does not check: files built for one target are named apart, a
  file for any target has a name like no other, and two levels of a processor are of `amd64`, and
  then given, or of `arm`, which have a place of their own in the context (`arm64` has
  none, and `ContextKeepsApart` leaves it out). `PlacesApart` then shows that `toPlatform`, which
  leaves `v1` and the levels of all other processors out, still tells the targets apart.
  `BranchInv` is about the checkouts that taps share: each is on the branch it was asked
  for, or the one job at work is about to change it (`Waiting`), or it was left by a run before,
  and the next run either empties `dist` or ends before it. So what a commit adds is for the
  branch the checkout is on. `BranchesKept` assumes that no checkout of a branch fails, and
  nothing of other faults; a branch started from `main` has its files, too, so that
  `CommittedWhereConfigured` also assumes `OneBranchEach`, that the taps of one repository are
  for one branch, which the instance of `publish_branch` satisfies. Together with that run it
  says that a checkout that fails is all there is to the finding.
  Theorems: `ValidatedOnly`, `ListsWhatIsReleased`, `ListsOneEach`,
  `PullRequestsWhole`, `AurAgrees`, `SkippedLeaves`, `ManifestsJoinThisRun`,
  `SecondRunsGetThrough` (assuming `ListsNoManifest`), `AppsAreCreatedOnce` (assuming
  `AppsApart`), `ContextsKeepFilesApart` (assuming `ContextFilesApart`), `BranchesKept` (assuming no
  failed checkout), `CommittedWhereConfigured` (that, and `OneBranchEach`) and the action property `AttestationsHold` (assuming `ImagesApart`).

Proved without a run that checks the same, because they follow from a deeper
property that has one or hold in every state of a small instance for a trivial
reason: the types, `TokensCountPool`, `FirstTaskAlone`, `ServerWaitIsKept`,
`RefusalsEnd`, `ParallelismIsKept`, `BuildersArePrepared` and, since it needs
`Limit = 1`, `SerialSignaturesVerify`.

The instances TLC runs satisfy `BuiltApart`, `UploadedOnce`, `NamesApart`, `ListsNoManifest`, `AppsApart`,
`ImagesApart` and `ContextFilesApart`; `packaging` has snaps, so that `VariantsApart` is checked where `NoSnaps` does not hold, too. Every invariant was
checked by TLC on these instances before it was proved.

Model-checked only: the liveness properties (`WaitReturns` and the two `Ends`), out of
the prover's reach. Every other property a run is expected to pass has a theorem.

## Findings

With a run:

* **`sign_checksums_race`.** Two sign configurations for checksums with a
  parallelism of two: one truncates the checksum file while the other's sign
  command reads it. The signature then does not verify the uploaded file.
* **`packaging_snap_arch`.** With two levels of amd64 in one project the key of
  a platform carries the level of every architecture; snapcraft finds `arm64v8.0` in
  no list of valid architectures and leaves the arm64 snap out with a
  warning (`internal/pipe/snapcraft/snapcraft.go:214`).
* **`publish_branch`.** A clone whose checkout failed stays behind
  (`internal/client/git.go:96`). The next tap in that repository finds it, does
  not check anything out and commits to the default branch, not to the one it is
  configured for.

Seen while modelling, without a run of their own:

* `Unrecoverable` says it stops the retry loop. With `IsRetriable` as predicate it
  does not when the wrapped error is transient: a predicate replaces retry-go's
  own check, and `IsRetriable` looks through the wrapper
  (`internal/retryx/retryx.go:131`). In `Upload` a delete that gave up on a 503
  after its own retries starts the upload again; `RetryPolicy` and `GitHubRelease`
  follow the code.
* A comment (`internal/client/github.go:541`) promises a draft while uploading. A
  release that exists keeps its state: when it is public its assets are replaced
  in public, and it stays incomplete if an upload fails.
* A builder that does not support concurrent builds still runs concurrently with
  itself, once per build of the project (`internal/pipe/build/build.go:64`). Two
  Rust builds of one crate share cargo's output directory.
* Binaries are signed before notarization rewrites them
  (`internal/pipeline/pipeline.go:106`).
* `artifacts.json` is written after everything is published and never added to
  the registry (`internal/pipe/metadata/metadata.go:59`), so it is not uploaded,
  contrary to `www/content/customization/publish/scm/_index.md:233`.
* GitLab's package registry replaces a file of the same name whether or not
  `replace_existing_artifacts` is set (`internal/client/gitlab.go:662`); Gitea
  takes a second attachment of a name after a lost reply
  (`internal/client/gitea.go:387`), and an update sends `release.draft`
  (`internal/client/gitea.go:280`), so that it can make a published release a draft.
* The post hook of a docker image built with buildx runs after the image was
  pushed (`internal/pipe/docker/v2/docker.go:257`).
* A second run by git whose files are already there fails: there is nothing to
  commit (`internal/client/git.go:118`). A commit whose push failed stays in the
  clone and goes out with the next caller's push (`git.go:134`).
* A docker manifest may list an image withheld by `skip_push`. Its digest is not known then,
  it is joined by its name, and the manifest has the image an earlier run left under
  it, if there is one (`internal/pipe/docker/manifest.go:208`).
* An MCP server whose publication was taken although the answer was lost
  cannot be published again (`internal/pipe/mcp/mcp.go:163`).
* `Checksum` and the uploads write an artifact's `Extra` map from several
  goroutines without a lock (`internal/artifact/artifact.go:416`,
  `internal/http/http.go:281`): a data race whose outcome is outside the state of
  these models.
* The savings upx reports are computed with a division by the size before, which is
  0 when the file cannot be read (`internal/pipe/upx/upx.go:101`).
* Two snaps of one platform share a prime directory when their name templates
  agree (`internal/pipe/snapcraft/snapcraft.go:256`).

## What is not modelled

* Templates, decoding of the configuration, logging, output, wording and the
  contents of files: the models take what they decide (a name, an option, an error,
  a class of error) as an input. Command lines of external tools and what
  those tools do inside likewise; `cargo`, `docker`, `git`, the forges and
  registries are external definitions with as much behaviour as the code
  relies on.
* The formats of archives and packages: a file is what it was made of.
* A task whose builder produces several binaries (Go with several `main`s, or
  libraries with a header) is one binary; builds with `no_unique_dist_dir` are
  taken to name their binaries apart. Which targets a `goos` times `goarch`
  matrix and its `ignore` list leave is not modelled either.
* Commits to other repositories: keys and signatures of commits; the synchronisation of a fork
  with its base before a commit (`SyncFork`), which does nothing but warn when it
  fails. Nobody but goreleaser writes to the repositories of the model.
* Nobody but goreleaser publishes or deletes the releases of the model.
* The changelog's parsing of git's log, and notes that GitHub writes itself. A body
  of a release at GitLab or Gitea is never empty.
* The forges' rate limits are one class of error in `RetryPolicy`; their
  pagination is one request.
* `build --output`, and the pipes whose only effect is what they print.

`PROJECT.json` says of each component how much of it is modelled.

## Plan

Done, in this order because the others rest on them: `TaskGroupSpec`,
`TaskGroup`; `PipelineOrder`, `ReleaseCommand`; `RetryPolicy`, `Retry`;
`GitHubRelease`, which composes retries and a group with a forge;
`SignChecksums`; `Builders`, `BuildPipe`; `Artifacts`, `Packagers`,
`Packaging`; `Configuration`, `Setup`; `Taps`, `Images`, `Uploads`,
`Announcers`, `Delivery` with the three modules of its jobs, and `Publishing`,
which composes them; `Changelog`, `ForgeRelease`. Proofs of the
state machines up to `BuildPipe`, of `Packaging`, of `Publishing` and of `ForgeRelease`.

Left, in order of what they add:

1. The target matrix of Go builds as an operator against a reference
   definition, and Go builds with several `main`s in `BuildPipe`.
2. The parsing of git's log, with the entries it cannot parse.
