----------------------------- MODULE Announcers -----------------------------
(***************************************************************************)
(* Where a release is announced: the fourteen pipes that announce.Pipe     *)
(* runs. Each is a record of what its Skip, its checks and its requests    *)
(* are: what it needs from the environment and from the configuration, the *)
(* requests it makes, and the failures after which it makes one again.     *)
(*                                                                         *)
(* A configuration c is a record of its name, whether it is enabled, and   *)
(* the settings it gives. A message is not modelled.                       *)
(***************************************************************************)
EXTENDS Sequences

(* What may come back: no answer, an answer that was lost, 5xx, 4xx.       *)
Failures == {"network", "server", "client"}
IsNetworkError == {"network"}
IsRetriable == {"network", "server"}

Announcer(skip, needs, settings, requests, again) ==
  [skip |-> skip, needs |-> needs, settings |-> settings, requests |-> requests, again |-> again]
OnePost(c, needs, again) == Announcer(~c.enabled, needs, {}, <<"post">>, again)

bluesky(c) ==
  Announcer(~c.enabled, {"BLUESKY_APP_PASSWORD"}, {}, <<"login", "post">>, IsRetriable)
discord(c) == OnePost(c, {"DISCORD_WEBHOOK_ID", "DISCORD_WEBHOOK_TOKEN"}, IsRetriable)
discourse(c) ==
  Announcer(~c.enabled, {"DISCOURSE_API_KEY"}, {"server", "category_id"}, <<"post">>, IsRetriable)
linkedin(c) ==
  Announcer(~c.enabled, {"LINKEDIN_ACCESS_TOKEN"}, {}, <<"profile", "post">>, IsRetriable)
mastodon(c) ==
  OnePost(c, {"MASTODON_CLIENT_ID", "MASTODON_CLIENT_SECRET", "MASTODON_ACCESS_TOKEN"}, IsNetworkError)
mattermost(c) == OnePost(c, {"MATTERMOST_WEBHOOK"}, IsRetriable)
opencollective(c) ==
  Announcer(~c.enabled \/ "slug" \notin c.given, {"OPENCOLLECTIVE_TOKEN"}, {},
            <<"create", "post">>, IsRetriable)
reddit(c) == OnePost(c, {"REDDIT_SECRET", "REDDIT_PASSWORD"}, IsNetworkError)
slack(c) == OnePost(c, {"SLACK_WEBHOOK"}, IsNetworkError)
smtp(c) ==
  Announcer(~c.enabled, {"SMTP_PASSWORD"}, {"username", "host", "port"}, <<"post">>, {})
teams(c) == OnePost(c, {"TEAMS_WEBHOOK"}, IsNetworkError)
telegram(c) == OnePost(c, {"TELEGRAM_TOKEN"}, IsRetriable)
twitter(c) ==
  OnePost(c, {"TWITTER_CONSUMER_KEY", "TWITTER_CONSUMER_SECRET",
             "TWITTER_ACCESS_TOKEN", "TWITTER_ACCESS_TOKEN_SECRET"}, IsNetworkError)
webhook(c) == Announcer(~c.enabled, {}, {"endpoint_url"}, <<"post">>, IsRetriable)

AnnouncerOf(c) ==
  CASE c.name = "bluesky" -> bluesky(c) [] c.name = "discord" -> discord(c)
    [] c.name = "discourse" -> discourse(c) [] c.name = "linkedin" -> linkedin(c)
    [] c.name = "mastodon" -> mastodon(c) [] c.name = "mattermost" -> mattermost(c)
    [] c.name = "opencollective" -> opencollective(c) [] c.name = "reddit" -> reddit(c)
    [] c.name = "slack" -> slack(c) [] c.name = "smtp" -> smtp(c)
    [] c.name = "teams" -> teams(c) [] c.name = "telegram" -> telegram(c)
    [] c.name = "twitter" -> twitter(c) [] c.name = "webhook" -> webhook(c)
announceErrs(c, env) ==
  LET a == AnnouncerOf(c) IN ~(a.needs \subseteq env /\ a.settings \subseteq c.given)
=============================================================================
