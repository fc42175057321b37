----------------------------- MODULE ConfigRules -----------------------------
(***************************************************************************)
(* What a configuration file must satisfy to be accepted, and what applies *)
(* to a repository once it is (src/internal/config: validate.go and        *)
(* repo_config.go).                                                        *)
(*                                                                         *)
(* A configuration is a record.  A *bool is "unset", "on" or "off", and a  *)
(* pointer to a struct that holds one may be "nil" besides; an optional    *)
(* part of a repository's entry is a set of at most one record.  Texts are *)
(* reduced to what their rules ask: `blank` names the required settings    *)
(* that are empty, `malformed` those whose value fails its own format or   *)
(* white list (URL, glob, effort, model, level, cron, ...); a URL is       *)
(* "unset", "ok" or "bad".  Numbers are themselves.                        *)
(***************************************************************************)
EXTENDS Integers, Sequences, FiniteSets, SequencesExt

\* The task types with a timeout of their own.
TimedTypes == {"review_pr", "fix_issue", "gen_tests", "analyze_issue",
               "run_e2e", "triage_e2e", "fix_review", "code_from_doc"}

\* What the file of a new installation says, and an entry that overrides nothing.
Defaults ==
  [blank |-> {}, malformed |-> {},
   port |-> 8080, concurrency |-> 3, timeout |-> 30,
   timeouts |-> [t \in TimedTypes |-> 0],
   monitor |-> [enabled |-> FALSE, activity |-> 0],
   channels |-> [gitea |-> [enabled |-> TRUE, url |-> "unset"]],
   fallback |-> "gitea", routes |-> <<>>,
   review |-> [enabled |-> "unset", severity |-> "unset", malformed |-> {}],
   testGen |-> [enabled |-> "unset", rounds |-> 3, changeDriven |-> "nil", malformed |-> {}],
   e2e |-> [enabled |-> "unset", environments |-> {}, defaultEnv |-> "unset",
            retention |-> 0, regression |-> "nil", malformed |-> {}],
   iterate |-> [enabled |-> FALSE, rounds |-> 3, threshold |-> "error", malformed |-> {}],
   codeFromDoc |-> [enabled |-> "unset", rounds |-> 3],
   dailyReport |-> [enabled |-> FALSE, malformed |-> {}],
   apiTokens |-> <<>>,
   tokens |-> [review |-> "unset", fix |-> "unset", gen_tests |-> "unset"],
   apiKeys |-> {},
   repos |-> <<>>]

Entry(name) ==
  [name |-> name, review |-> {}, notify |-> {}, testGen |-> {}, e2e |-> {},
   iterate |-> {}, codeFromDoc |-> {}]

\* What the fields may hold before anything is validated.
Switch == {"unset", "on", "off"}

RoutePart == [repo : STRING, events : SUBSET STRING, channels : SUBSET STRING]

TestGenPart == [enabled : Switch, rounds : Int, changeDriven : Switch \cup {"nil"},
                malformed : SUBSET STRING]

\* An optional part: at most one.
Optional(o, part) == \A x, y \in o : x = y /\ x \in part

IsEntry(r) ==
  /\ Optional(r.review, [enabled : Switch, severity : STRING, malformed : SUBSET STRING])
  /\ Optional(r.notify, [routes : SUBSET Seq(RoutePart), feishu : STRING])
  /\ \A o \in r.notify : Optional(o.routes, Seq(RoutePart))
  /\ Optional(r.testGen, TestGenPart)
  /\ Optional(r.e2e, [enabled : Switch, defaultEnv : STRING,
                      regression : Switch \cup {"nil"}, malformed : SUBSET STRING])
  /\ Optional(r.iterate, [rounds : Int, threshold : STRING])
  /\ Optional(r.codeFromDoc, [enabled : Switch, rounds : Int])

IsConfig(c) ==
  /\ c.port \in Int /\ c.concurrency \in Int /\ c.timeouts \in [TimedTypes -> Int]
  /\ c.routes \in Seq(RoutePart)
  /\ c.testGen \in TestGenPart
  /\ c.iterate \in [enabled : BOOLEAN, rounds : Int, threshold : STRING,
                    malformed : SUBSET STRING]
  /\ c.codeFromDoc \in [enabled : Switch, rounds : Int]
  /\ c.repos \in Seq({c.repos[i] : i \in DOMAIN c.repos})
  /\ \A i \in DOMAIN c.repos : IsEntry(c.repos[i])

-----------------------------------------------------------------------------
(* What applies to a repository.                                           *)

\* The override of the first entry of that name that has this part at all.
Override(c, name, part) ==
  LET own == {i \in DOMAIN c.repos : c.repos[i].name = name /\ c.repos[i][part] # {}}
  IN IF own = {} THEN {} ELSE c.repos[Min(own)][part]

\* A field of the override applies when it is set.
Merge(global, field, overrides, unset) ==
  IF \E o \in overrides : o[field] \notin unset
  THEN (CHOOSE o \in overrides : TRUE)[field] ELSE global[field]

ResolveTestGen(c, name) ==
  LET own == Override(c, name, "testGen") IN
  [c.testGen EXCEPT
     !.enabled = Merge(c.testGen, "enabled", own, {"unset"}),
     !.rounds = IF \E o \in own : o.rounds > 0 THEN (CHOOSE o \in own : TRUE).rounds ELSE @,
     !.changeDriven = Merge(c.testGen, "changeDriven", own, {"nil"})]

ResolveReview(c, name) ==
  LET own == Override(c, name, "review") IN
  [enabled |-> Merge(c.review, "enabled", own, {"unset"}),
   severity |-> Merge(c.review, "severity", own, {"unset"})]

ResolveE2E(c, name) ==
  LET own == Override(c, name, "e2e") IN
  [enabled |-> Merge(c.e2e, "enabled", own, {"unset"}),
   defaultEnv |-> Merge(c.e2e, "defaultEnv", own, {"unset"}),
   regression |-> Merge(c.e2e, "regression", own, {"nil"})]

ResolveIterate(c, name) ==
  LET own == Override(c, name, "iterate") IN
  [c.iterate EXCEPT
     !.rounds = IF \E o \in own : o.rounds > 0 THEN (CHOOSE o \in own : TRUE).rounds ELSE @,
     !.threshold = Merge(c.iterate, "threshold", own, {"unset"})]

ResolveCodeFromDoc(c, name) ==
  LET own == Override(c, name, "codeFromDoc") IN
  [enabled |-> Merge(c.codeFromDoc, "enabled", own, {"unset"}),
   rounds |-> IF \E o \in own : o.rounds > 0 THEN (CHOOSE o \in own : TRUE).rounds
              ELSE c.codeFromDoc.rounds]

\* The routes of the first entry with a notify part; an empty list clears them.
ResolveNotifyRoutes(c, name) ==
  LET own == Override(c, name, "notify")
  IN IF \E o \in own : o.routes # {} THEN CHOOSE rs \in (CHOOSE o \in own : TRUE).routes : TRUE
     ELSE c.routes

\* The Feishu address of the first entry that has one, whatever entry that is.
ResolveFeishuOverride(c, name) ==
  LET own == {i \in DOMAIN c.repos :
                c.repos[i].name = name /\ \E o \in c.repos[i].notify : o.feishu # "nil"}
  IN IF own = {} THEN "nil" ELSE (CHOOSE o \in c.repos[Min(own)].notify : TRUE).feishu

-----------------------------------------------------------------------------
(* Validate, rule by rule.                                                 *)
Parts(c, part) == UNION {r[part] : r \in Range(c.repos)}

\* A round count of zero leaves the default in force.
RoundsInRange(n) == n = 0 \/ n \in 1..10

Ports == 1..65535

RequiredSettings(c) ==
  /\ c.port \in Ports
  /\ c.blank \cap {"redis.addr", "gitea.url", "gitea.token", "claude.api_key",
                   "webhook.secret"} = {}
  /\ c.malformed \cap {"gitea.url", "claude.effort", "claude.model",
                       "claude.api_keys"} = {}

\* Timeouts are in hours here: unset, or up to a day.
WorkerRules(c) ==
  /\ c.concurrency >= 1 /\ c.timeout > 0
  /\ \A t \in TimedTypes : c.timeouts[t] \in 0..24
  /\ c.malformed \cap {"worker.image_full", "worker.image_e2e"} = {}

MonitorAndLogRules(c) ==
  /\ c.monitor.enabled => c.monitor.activity > 0
  /\ c.malformed \cap {"log.level", "log.format"} = {}

Supported == {"gitea", "feishu"}

\* A channel a route names must be configured; only the default one must also
\* be enabled.
Routable(c, routes) ==
  \A r \in Range(routes) : r.channels \subseteq (DOMAIN c.channels \cap Supported)

ChannelRules(c) ==
  /\ c.fallback \in (DOMAIN c.channels \cap Supported)
  /\ c.channels[c.fallback].enabled
  /\ Routable(c, c.routes)

RepoNameRules(c) == \A r \in Range(c.repos) : r.name \notin {"", "no-slash"}

RepoRouteRules(c) ==
  \A o \in Parts(c, "notify") : \A rs \in o.routes : Routable(c, rs)

FeishuEnabled(c) == "feishu" \in DOMAIN c.channels /\ c.channels["feishu"].enabled

UsesFeishu(routes) == \E r \in Range(routes) : "feishu" \in r.channels

\* A repository may have a Feishu address of its own when the channel is on.
RepoFeishuRules(c) ==
  \A o \in Parts(c, "notify") :
    o.feishu # "nil" => o.feishu = "ok" /\ FeishuEnabled(c)

\* The global address is only needed by what would use it.
FeishuAddressRules(c) ==
  FeishuEnabled(c) =>
    /\ c.channels["feishu"].url # "bad"
    /\ c.channels["feishu"].url = "unset" =>
         /\ ~(c.fallback = "feishu" \/ UsesFeishu(c.routes))
         /\ \A o \in Parts(c, "notify") : \A rs \in o.routes :
              o.feishu = "nil" => ~UsesFeishu(rs)

\* Dimensions, severity, effort, model and ignore patterns, globally and of each
\* repository that overrides them.
ReviewRules(c) ==
  \A r \in {c.review} \cup Parts(c, "review") :
    r.malformed = {} /\ r.severity \in {"unset", "critical", "error", "warning", "info"}

TestGenRules(c) ==
  \A t \in {c.testGen} \cup Parts(c, "testGen") :
    /\ RoundsInRange(t.rounds) /\ t.malformed = {}
    /\ ~(t.changeDriven = "on" /\ t.enabled = "off")

\* An override is checked again together with what it is merged with.
ResolvedTestGenRules(c) ==
  \A r \in Range(c.repos) : r.testGen # {} =>
    LET t == ResolveTestGen(c, r.name) IN ~(t.changeDriven = "on" /\ t.enabled = "off")

DailyReportRules(c) ==
  c.dailyReport.enabled =>
    c.dailyReport.malformed \cap {"cron", "timezone", "feishu_webhook"} = {}

APITokenRules(c) ==
  /\ \A t \in Range(c.apiTokens) : t.wellFormed /\ t.identity # ""
  /\ \A i, j \in DOMAIN c.apiTokens :
       c.apiTokens[i].identity = c.apiTokens[j].identity => i = j

E2ERules(c) ==
  /\ c.e2e.enabled = "on" => c.e2e.environments # {}
  /\ c.e2e.defaultEnv \in c.e2e.environments \cup {"unset"}
  /\ c.e2e.retention = 0 \/ c.e2e.retention \in 1..90
  /\ c.e2e.malformed = {}         \* addresses, databases, ignored paths
  /\ c.e2e.regression = "on" => c.e2e.enabled # "off" /\ c.e2e.defaultEnv # "unset"

\* Mutant: only the override itself is looked at, not what it is merged with.
RawE2ERules(c) ==
  \A r \in Range(c.repos) : \A o \in r.e2e :
    /\ o.defaultEnv \in c.e2e.environments \cup {"unset"}
    /\ o.malformed = {}
    /\ o.regression = "on" => o.enabled # "off"

RepoE2ERules(c) ==
  \A r \in Range(c.repos) : \A o \in r.e2e :
    LET e == ResolveE2E(c, r.name) IN
    /\ o.defaultEnv \in c.e2e.environments \cup {"unset"}
    /\ o.malformed = {}
    /\ e.regression = "on" => e.enabled # "off" /\ e.defaultEnv # "unset"

IterateRules(c) ==
  /\ RoundsInRange(c.iterate.rounds)
  /\ c.iterate.threshold \in {"critical", "error", "warning", "unset"}
  /\ "notification_mode" \notin c.iterate.malformed
  /\ c.iterate.enabled =>
       /\ c.iterate.rounds >= 1 /\ c.iterate.threshold # "unset"
       /\ c.iterate.malformed = {}    \* label, report_path, bot_login are set
  /\ \A o \in Parts(c, "iterate") :
       /\ RoundsInRange(o.rounds)
       /\ o.threshold \in {"critical", "error", "warning", "unset"}

CodeFromDocRules(c) ==
  \A o \in {c.codeFromDoc} \cup Parts(c, "codeFromDoc") : RoundsInRange(o.rounds)

Valid(c) ==
  /\ RequiredSettings(c) /\ WorkerRules(c) /\ MonitorAndLogRules(c)
  /\ ChannelRules(c) /\ RepoNameRules(c) /\ RepoRouteRules(c)
  /\ RepoFeishuRules(c) /\ FeishuAddressRules(c)
  /\ ReviewRules(c) /\ TestGenRules(c) /\ ResolvedTestGenRules(c)
  /\ DailyReportRules(c) /\ APITokenRules(c)
  /\ E2ERules(c) /\ RepoE2ERules(c)
  /\ IterateRules(c) /\ CodeFromDocRules(c)
=============================================================================
