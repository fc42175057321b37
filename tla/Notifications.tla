--------------------------- MODULE Notifications ---------------------------
(***************************************************************************)
(* The notifications of the task processor: which message a task's state   *)
(* is worth (src/internal/queue/processor_notify.go), the router that the  *)
(* configuration makes for a repository, cached per repository or shared   *)
(* (src/internal/cmd/serve_notify.go), and the channels it sends to        *)
(* (src/internal/notify/router.go, gitea_notifier.go).                     *)
(*                                                                         *)
(* A task is [type, repo, numbered, doc, created, status]: numbered says   *)
(* that its payload names a pull request or issue, doc that it names a     *)
(* document, created that its result has a pull request.  "broken" is a    *)
(* success whose own tests failed.  A Feishu address is "global" or the    *)
(* repository whose own it is.                                             *)
(***************************************************************************)
EXTENDS ConfigRules

CONSTANT Repos      \* the repositories that send notifications

ASSUME ReposAssumption == {"*", "none"} \cap Repos = {}

VARIABLES
  routers,  \* the repository each cached router was built for, or "none"
  sent      \* the repository of the last message and what became of it

Message(event, numbered) == {[event |-> event, numbered |-> numbered]}

-----------------------------------------------------------------------------
(* What a task's state is worth saying: at most one message.               *)
StartMessage(t) ==
  CASE t.type = "review_pr" -> IF t.numbered THEN Message("pr.review.started", TRUE) ELSE {}
    [] t.type = "analyze_issue" -> IF t.numbered THEN Message("issue.analyze.started", TRUE) ELSE {}
    [] t.type = "fix_issue" -> IF t.numbered THEN Message("issue.fix.started", TRUE) ELSE {}
    [] t.type = "gen_tests" -> Message("gen_tests.started", FALSE)
    [] t.type = "run_e2e" -> Message("e2e.started", FALSE)
    [] t.type = "triage_e2e" -> Message("e2e.triage.started", t.numbered)
    [] t.type = "code_from_doc" -> IF t.doc THEN Message("code_from_doc.started", FALSE) ELSE {}
    [] OTHER -> {}

\* Reviews, analyses and fixes: a failed or retrying one is a system error.
ReviewMessage(t) ==
  IF ~t.numbered THEN {}
  ELSE Message(IF t.status = "succeeded" THEN "pr.review.done" ELSE "system.error", TRUE)

AnalysisMessage(t) ==
  IF ~t.numbered THEN {}
  ELSE Message(IF t.status = "succeeded" THEN "issue.analyze.done" ELSE "system.error", TRUE)

FixMessage(t) ==
  IF ~t.numbered THEN {}
  ELSE Message(IF t.status = "succeeded" THEN "fix.issue.done" ELSE "system.error", TRUE)

GenTestsMessage(t) ==
  Message(CASE t.status = "succeeded" -> "gen_tests.done"
            [] t.status = "retrying"  -> "system.error"
            [] OTHER                  -> "gen_tests.failed", FALSE)

E2EMessage(t) == Message(IF t.status = "succeeded" THEN "e2e.done" ELSE "e2e.failed", FALSE)

TriageMessage(t) ==
  Message(IF t.status = "succeeded" THEN "e2e.triage.done" ELSE "e2e.triage.failed", t.numbered)

CodeMessage(t) ==
  IF ~t.doc THEN {}
  ELSE Message(IF t.status = "succeeded" THEN "code_from_doc.done" ELSE "code_from_doc.failed",
               t.created)

\* fix_review has messages of its own in the iteration loop; cancelled tasks none.
DoneMessage(t) ==
  IF t.status \notin {"succeeded", "broken", "failed", "retrying"} THEN {}
  ELSE CASE t.type = "review_pr"     -> ReviewMessage(t)
         [] t.type = "analyze_issue" -> AnalysisMessage(t)
         [] t.type = "fix_issue"     -> FixMessage(t)
         [] t.type = "gen_tests"     -> GenTestsMessage(t)
         [] t.type = "run_e2e"       -> E2EMessage(t)
         [] t.type = "triage_e2e"    -> TriageMessage(t)
         [] t.type = "code_from_doc" -> CodeMessage(t)
         [] OTHER -> {}

MessageOf(t) == IF t.status = "running" THEN StartMessage(t) ELSE DoneMessage(t)

-----------------------------------------------------------------------------
(* The router of a repository.                                             *)
On(c, channel) == channel \in DOMAIN c.channels /\ c.channels[channel].enabled

HasOwnFeishu(c) == \E o \in Parts(c, "notify") : o.feishu # "nil"

GlobalFeishu(c) == On(c, "feishu") /\ c.channels["feishu"].url # "unset"

\* buildNotifier: no channel at all, no notifier.
HasNotifier(c) ==
  On(c, "gitea") \/ GlobalFeishu(c) \/ (On(c, "feishu") /\ HasOwnFeishu(c))

\* Mutant: only routes of its own make a repository an exception.
OwnRoutesOnly(c, repo) ==
  \E r \in Range(c.repos) : r.name = repo /\ \E o \in r.notify : o.routes # {}

\* A repository that overrides routes or address has a router of its own, any
\* other uses the shared one.
HasRepoNotifyOverride(c, repo) ==
  \E r \in Range(c.repos) : r.name = repo /\
    \E o \in r.notify : o.routes # {} \/ o.feishu # "nil"

Channels(c, repo) ==
  (IF On(c, "gitea") THEN {"gitea"} ELSE {})
    \cup (IF ResolveFeishuOverride(c, repo) # "nil" \/ GlobalFeishu(c) THEN {"feishu"} ELSE {})

\* NewRouter refuses a default channel or a rule whose channel is not there.
Builds(c, repo) ==
  /\ ResolveFeishuOverride(c, repo) \in {"nil", "ok"}
  /\ c.fallback \in Channels(c, repo)
  /\ \A r \in Range(ResolveNotifyRoutes(c, repo)) : r.channels \subseteq Channels(c, repo)

NewRouter(c, repo) ==
  [rules |-> ResolveNotifyRoutes(c, repo), fallback |-> c.fallback,
   feishu |-> IF ResolveFeishuOverride(c, repo) # "nil" THEN repo ELSE "global"]

\* The channels of every rule that matches, or the default one.
ResolveChannels(router, repo, event) ==
  LET matching == {r \in Range(router.rules) :
                     /\ r.repo \in {"*", repo}
                     /\ r.events = {} \/ r.events \cap {"*", event} # {}}
      chosen == UNION {r.channels : r \in matching}
  IN IF chosen = {} THEN {router.fallback} ELSE chosen

\* What a Gitea comment cannot be written for and is skipped without an error.
QuietEvents == {"gen_tests.started", "gen_tests.done", "gen_tests.failed"}

\* A comment needs the number of an issue or pull request.
Comment(m) ==
  CASE m.numbered -> "delivered"
    [] ~m.numbered /\ m.event \in QuietEvents -> "skipped"
    [] OTHER -> "error"

Outcome(router, repo, m) ==
  [ch \in ResolveChannels(router, repo, m.event) |->
     IF ch = "gitea" THEN Comment(m) ELSE "delivered"]

-----------------------------------------------------------------------------
NothingSent == [repo |-> "none", feishu |-> "none", outcome |-> <<>>]

NotifyInit ==
  /\ routers = [key \in Repos \cup {"*"} |-> "none"]
  /\ sent = NothingSent

\* configDrivenNotifier.Send with the configuration c of the start: getRouter
\* takes the cached router or builds and caches one, then the message is sent;
\* a router that cannot be built is an error of this message.
Send(c, repo, m) ==
  LET key == IF HasRepoNotifyOverride(c, repo) THEN repo ELSE "*"
      owner == IF routers[key] = "none" THEN repo ELSE routers[key]
      router == NewRouter(c, owner)
  IN IF routers[key] = "none" /\ ~Builds(c, repo)
     THEN /\ sent' = [NothingSent EXCEPT !.repo = repo]
          /\ UNCHANGED routers
     ELSE /\ routers' = [routers EXCEPT ![key] = owner]
          /\ sent' = [repo |-> repo, feishu |-> router.feishu,
                      outcome |-> Outcome(router, repo, m)]

Notify(c, t) ==
  /\ HasNotifier(c)
  /\ \E m \in MessageOf(t) : Send(c, t.repo, m)

\* A start of the server begins with an empty cache.
EmptyRouters == routers' = [key \in Repos \cup {"*"} |-> "none"] /\ sent' = NothingSent
=============================================================================
