------------------------------ MODULE Accounts ------------------------------
(***************************************************************************)
(* What the server hands to the parts that run a task, from one            *)
(* configuration: the Gitea account of the containers and of the clients   *)
(* on the host (src/internal/cmd/serve_deps.go, src/internal/worker/       *)
(* container.go), the Claude key, and the two timeouts of a task, asynq's  *)
(* and the container's (src/internal/cmd/worker_queue_config.go).          *)
(***************************************************************************)
EXTENDS ConfigRules

\* A role without an account of its own uses the base account.
Account(c, role) == IF c.tokens[role] = "unset" THEN "base" ELSE c.tokens[role]

\* buildGiteaClientSet: equal tokens share a client.
GiteaClients(c) ==
  [review |-> Account(c, "review"), fix |-> Account(c, "fix"),
   gen_tests |-> Account(c, "gen_tests")]

PoolConfig(c) ==
  [token |-> Account(c, "review"), tokenFix |-> Account(c, "fix"),
   tokenGenTests |-> Account(c, "gen_tests"), keys |-> c.apiKeys, timeouts |-> c.timeouts]

\* Mutant: only fix_issue is thought of as pushing with the fixing account.
FixIssueOnly(pool, type) ==
  CASE type = "fix_issue" -> pool.tokenFix
    [] type = "gen_tests" -> pool.tokenGenTests
    [] OTHER              -> pool.token

SelectGiteaToken(pool, type) ==
  CASE type \in {"fix_issue", "fix_review", "code_from_doc"} -> pool.tokenFix
    [] type = "gen_tests" -> pool.tokenGenTests
    [] OTHER              -> pool.token

\* The client that opens the pull request for what the container has pushed.
OpenedBy(c, type) ==
  CASE type \in {"fix_issue", "code_from_doc"} -> GiteaClients(c).fix
    [] type = "gen_tests" -> GiteaClients(c).gen_tests

SelectClaudeAPIKey(pool, type) == IF type \in pool.keys THEN type ELSE "default"

\* The key the code-from-document service asks the configuration for.
ResolveAPIKey(c, type) == IF type \in c.apiKeys THEN type ELSE "default"

\* In minutes; the queue and the pool each have a table of their own.
QueueDefault ==
  [review_pr |-> 10, fix_issue |-> 30, gen_tests |-> 20, analyze_issue |-> 15,
   run_e2e |-> 60, triage_e2e |-> 10, fix_review |-> 20, code_from_doc |-> 60]

TaskTimeout(timeouts, type) ==
  IF timeouts[type] > 0 THEN 60 * timeouts[type] ELSE QueueDefault[type]

Lookup(timeouts, type) ==
  IF timeouts[type] > 0 THEN 60 * timeouts[type]
  ELSE CASE type \in {"run_e2e", "code_from_doc"} -> 60
         [] type = "fix_issue" -> 30
         [] type \in {"gen_tests", "fix_review"} -> 20
         [] type = "analyze_issue" -> 15
         [] OTHER -> 10
=============================================================================
