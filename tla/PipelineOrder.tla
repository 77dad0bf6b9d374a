--------------------------- MODULE PipelineOrder ---------------------------
(***************************************************************************)
(* The order in which goreleaser runs its pipes, its publishers and its    *)
(* announcers: the tables of internal/pipeline, internal/pipe/publish and  *)
(* internal/pipe/announce.                                                 *)
(***************************************************************************)
EXTENDS Sequences

BuildPipeline ==
  <<"dist.Clean", "env", "git", "semver", "defaults", "partial", "snapshot",
    "release.Preflight", "before", "dist", "metadata", "metadata.Meta", "gomod",
    "prebuild", "gomod.Check", "gomod.Proxy", "effectiveconfig", "build",
    "universalbinary", "upx", "sign.Binary", "notary.MacOS">>

BuildCmdPipeline == BuildPipeline \o <<"reportsizes", "metadata.Artifacts">>

ReleasePipeline ==
  BuildPipeline \o
  <<"changelog", "archive", "sourcearchive", "nfpm", "srpm", "makeself",
    "snapcraft", "flatpak", "sbom", "checksums", "sign", "aur", "aursources",
    "nix", "winget", "brew", "cask", "krew", "scoop", "chocolatey",
    "reportsizes", "docker", "dockerv2.Snapshot", "ko", "publish",
    "metadata.Artifacts", "announce">>

PublishPipeline_ManifestsFirst ==
  <<"blob", "upload", "artifactory", "iru", "docker.Manifest", "docker",
    "dockerv2.Publish", "ko", "dockerdigest", "sign.Docker", "snapcraft",
    "release", "nix", "winget", "brew", "cask", "aur", "aursources", "krew",
    "scoop", "chocolatey", "mcp", "milestone", "custompublishers">>
PublishPipeline_ReleaseLast ==
  <<"blob", "upload", "artifactory", "iru", "docker", "docker.Manifest",
    "dockerv2.Publish", "ko", "dockerdigest", "sign.Docker", "snapcraft",
    "nix", "winget", "brew", "cask", "aur", "aursources", "krew",
    "scoop", "chocolatey", "release", "mcp", "milestone", "custompublishers">>
PublishPipeline ==
  <<"blob", "upload", "artifactory", "iru", "docker", "docker.Manifest",
    "dockerv2.Publish", "ko", "dockerdigest", "sign.Docker", "snapcraft",
    "release", "nix", "winget", "brew", "cask", "aur", "aursources", "krew",
    "scoop", "chocolatey", "mcp", "milestone", "custompublishers">>

(* The publishers whose ContinueOnError answers true.                      *)
ContinuablePublishers ==
  {"iru", "snapcraft", "nix", "winget", "brew", "cask", "aur", "aursources",
   "krew", "scoop", "chocolatey", "mcp", "milestone"}

AnnouncePipeline ==
  <<"bluesky", "discord", "discourse", "linkedin", "mastodon", "mattermost",
    "opencollective", "reddit", "slack", "smtp", "teams", "telegram",
    "twitter", "webhook">>
=============================================================================
