------------------------------ MODULE MCServer ------------------------------
(* Configuration files, tasks and situations to check Server with.         *)
EXTENDS Server

MCProcs == {"server", "task"}
MCRepos == {"org/a", "org/b"}

Feishu(enabled, url) == [gitea |-> [enabled |-> TRUE, url |-> "unset"],
                         feishu |-> [enabled |-> enabled, url |-> url]]
Route(repo, events, channels) == [repo |-> repo, events |-> events, channels |-> channels]
EntryA(part, override) == [Entry("org/a") EXCEPT ![part] = {override}]
TestGen(enabled, changeDriven) ==
  [enabled |-> enabled, rounds |-> 0, changeDriven |-> changeDriven, malformed |-> {}]
E2E(enabled, defaultEnv, regression) ==
  [enabled |-> enabled, defaultEnv |-> defaultEnv, regression |-> regression, malformed |-> {}]
WithE2E(defaultEnv, regression) ==
  [Defaults EXCEPT !.e2e = [@ EXCEPT !.enabled = "on", !.environments = {"staging"},
     !.defaultEnv = defaultEnv, !.regression = regression]]

\* The settings alone: which are refused, and where.
Plain ==
  << Defaults,
     [Defaults EXCEPT !.malformed = {"yaml"}],
     [Defaults EXCEPT !.blank = {"webhook.secret"}],
     [Defaults EXCEPT !.blank = {"worker.image"}],
     [Defaults EXCEPT !.blank = {"database.path"}],
     [Defaults EXCEPT !.concurrency = 0],
     [Defaults EXCEPT !.tokens = [review |-> "reviewer", fix |-> "fixer", gen_tests |-> "tester"],
        !.apiKeys = {"code_from_doc"}, !.timeouts["run_e2e"] = 2],
     [Defaults EXCEPT !.dailyReport.enabled = TRUE],
     [Defaults EXCEPT !.dailyReport = [enabled |-> TRUE, malformed |-> {"cron"}]],
     [Defaults EXCEPT !.apiTokens = <<[identity |-> "ci", wellFormed |-> TRUE],
                                      [identity |-> "ci", wellFormed |-> TRUE]>>] >>

\* Options that hold together alone but may not once merged.
Merged ==
  << [Defaults EXCEPT !.testGen.changeDriven = "on", !.repos = <<EntryA("testGen", TestGen("off", "nil"))>>],
     [Defaults EXCEPT !.testGen.enabled = "off", !.repos = <<EntryA("testGen", TestGen("unset", "on"))>>],
     [Defaults EXCEPT !.testGen.enabled = "off", !.repos = <<EntryA("testGen", TestGen("on", "on"))>>],
     [Defaults EXCEPT !.repos = <<EntryA("testGen", TestGen("off", "nil")),
                                  EntryA("testGen", TestGen("unset", "on"))>>],
     [WithE2E("staging", "on") EXCEPT !.repos = <<EntryA("e2e", E2E("unset", "unset", "nil"))>>],
     [WithE2E("staging", "on") EXCEPT !.repos = <<EntryA("e2e", E2E("off", "unset", "nil"))>>],
     [WithE2E("unset", "nil") EXCEPT !.repos = <<EntryA("e2e", E2E("unset", "unset", "on"))>>],
     [Defaults EXCEPT !.iterate.enabled = TRUE,
        !.repos = <<EntryA("iterate", [rounds |-> 5, threshold |-> "warning"])>>],
     [Defaults EXCEPT !.repos = <<EntryA("review", [enabled |-> "on", severity |-> "grave", malformed |-> {}])>>],
     [Defaults EXCEPT !.repos = <<EntryA("codeFromDoc", [enabled |-> "on", rounds |-> 11])>>] >>

\* Routes, channels and addresses.
Routed ==
  << [Defaults EXCEPT !.channels = Feishu(TRUE, "unset"),
        !.repos = <<EntryA("notify", [routes |-> {<<Route("*", {"*"}, {"gitea", "feishu"})>>}, feishu |-> "ok"])>>],
     [Defaults EXCEPT !.channels = Feishu(TRUE, "ok"), !.fallback = "feishu",
        !.repos = <<EntryA("notify", [routes |-> {}, feishu |-> "ok"])>>],
     [Defaults EXCEPT !.channels = Feishu(TRUE, "ok"),
        !.routes = <<Route("org/b", {"system.error", "e2e.failed"}, {"feishu"}),
                     Route("*", {"gen_tests.done"}, {"gitea", "feishu"})>>,
        !.repos = <<EntryA("notify", [routes |-> {<<>>}, feishu |-> "nil"])>>],
     [Defaults EXCEPT !.channels = Feishu(FALSE, "ok"), !.routes = <<Route("*", {}, {"feishu"})>>],
     [Defaults EXCEPT !.channels = Feishu(TRUE, "unset"),
        !.repos = <<EntryA("notify", [routes |-> {<<Route("*", {}, {"feishu"})>>}, feishu |-> "nil"])>>],
     [Defaults EXCEPT !.channels = [Feishu(TRUE, "ok") EXCEPT !["gitea"].enabled = FALSE]] >>

MCFiles == Plain \o Merged \o Routed
MCEnvOnly == 1

MCTasks ==
  {t \in [type : TimedTypes, repo : MCRepos, numbered : BOOLEAN, doc : BOOLEAN, created : BOOLEAN,
          status : {"running", "succeeded", "broken", "failed", "retrying", "cancelled"}] :
     /\ t.status = "broken" \/ t.doc \/ t.created => t.type = "code_from_doc"
     /\ t.numbered => t.type \in {"review_pr", "analyze_issue", "fix_issue", "triage_e2e"}
     /\ t.status = "cancelled" => t.type = "review_pr"}

Plan == [version |-> Latest, file |-> 1, contents |-> {}, starts |-> 1, commands |-> 0,
         faults |-> 0, work |-> 0, messages |-> 0, edits |-> 0, watch |-> FALSE]

MCPlans ==
  {[Plan EXCEPT !.version = v, !.commands = 1, !.faults = 1] : v \in {0, 12, 19, 22, 25}}
  \cup {[Plan EXCEPT !.file = f] : f \in 0..20}
  \cup {[Plan EXCEPT !.file = f, !.work = 1, !.messages = 2] : f \in 21..26}
  \cup {[Plan EXCEPT !.file = 8, !.starts = 2, !.work = 3, !.faults = 2]}
  \cup {[Plan EXCEPT !.watch = TRUE, !.contents = {0, 1, 2, 3, 13}, !.edits = 3]}
=============================================================================
