------------------------------- MODULE Server -------------------------------
(***************************************************************************)
(* The two commands that share a database file and a configuration file:   *)
(* the life of the `serve` process, from the configuration it loads to the *)
(* last thing it closes (src/internal/cmd/serve.go, serve_deps.go), and    *)
(* that of a `task` command (src/internal/cmd/task.go).  Both migrate the  *)
(* store they open.                                                        *)
(*                                                                         *)
(* `open` is what the server has opened and not closed; `busy` is what its *)
(* goroutines are using at the moment: HTTP requests, task handlers and    *)
(* the passes of the recovery loop and of the container collector.         *)
(* `overrun` names the time limits that expired.  The environment can do   *)
(* no more than its plan says.                                             *)
(***************************************************************************)
EXTENDS Migrations, Configuration, Notifications, Accounts

CONSTANTS
  Tasks,    \* the tasks whose state is notified
  Plans     \* where the system starts from, and how much happens around it

VARIABLES
  srv,      \* the serve process
  busy,     \* what each of its goroutines uses
  cli,      \* the task command
  plan      \* what the environment may still do

ASSUME ProcsAssumption == Procs = {"server", "task"}

ASSUME TasksAssumption == \A t \in Tasks : t.repo \in Repos

Situations ==
  [version : 0..Latest, file : Contents, contents : SUBSET Contents,
   starts : Nat, commands : Nat, faults : Nat, work : Nat, messages : Nat,
   edits : Nat, watch : BOOLEAN]

ASSUME PlansAssumption == Plans \subseteq Situations

vars == <<db, writer, mig, file, mgr, routers, sent, srv, busy, cli, plan>>

storeVars == <<db, writer, mig>>
configVars == <<file, mgr>>
notifyVars == <<routers, sent>>

Users == {"request", "handler", "recovery", "collector"}

Idle == [u \in Users |-> {}]

NoServer == [at |-> "down", why |-> "none", config |-> 0, open |-> {}, stop |-> FALSE,
             closer |-> "none", overrun |-> {}]

NoCommand == [at |-> "down", config |-> 0]

Config == Files[srv.config]

Init ==
  /\ \E p \in Plans : plan = p /\ file = p.file /\ db = Installed(p.version)
  /\ mgr = NoManager
  /\ MigInit
  /\ NotifyInit
  /\ srv = NoServer /\ busy = Idle /\ cli = NoCommand

Spend(what) == plan[what] > 0 /\ plan' = [plan EXCEPT ![what] = @ - 1]

-----------------------------------------------------------------------------
(* Starting the server.                                                    *)

\* ensureConfigManagerForCommand loads the configuration; runServe takes a
\* snapshot of it.  One that is refused ends the command.
StartServer(explicit) ==
  /\ srv.at = "down" /\ Spend("starts")
  /\ IF Load(explicit) = {}
     THEN srv' = [NoServer EXCEPT !.why = "config"] /\ UNCHANGED mgr
     ELSE \E i \in Load(explicit) :
            /\ srv' = [NoServer EXCEPT !.at = "loaded", !.config = i]
            /\ mgr' = [NoManager EXCEPT !.explicit = explicit, !.current = i]
  /\ EmptyRouters
  /\ UNCHANGED <<storeVars, file, busy, cli>>

\* What runServeWithConfig and BuildServiceDeps check themselves.
Checks(c) ==
  /\ c.concurrency > 0 /\ c.port \in Ports
  /\ c.blank \cap {"webhook.secret", "claude.api_key", "gitea.url", "gitea.token"} = {}

\* The process ends with everything it held.
Exit(why) ==
  /\ srv' = [NoServer EXCEPT !.why = why]
  /\ busy' = Idle /\ mgr' = NoManager

\* NewSQLiteStore wants a path and creates or opens the file.
OpenServerStore ==
  /\ srv.at = "loaded"
  /\ IF Checks(Config) /\ "database.path" \notin Config.blank
     THEN OpenStore("server") /\ srv' = [srv EXCEPT !.at = "store"] /\ UNCHANGED <<busy, mgr>>
     ELSE Exit("settings") /\ UNCHANGED storeVars
  /\ UNCHANGED <<file, notifyVars, cli, plan>>

\* A migration that failed: NewSQLiteStore closes the database itself.
ServerStoreFails ==
  /\ srv.at = "store" /\ mig["server"].at \in {"failed", "refused"}
  /\ CloseStore("server") /\ Exit("store")
  /\ UNCHANGED <<file, notifyVars, cli, plan>>

Reach(at, opened) == srv' = [srv EXCEPT !.at = at, !.open = @ \cup opened]

\* A step of the start fails: the deferred cleanup closes what was opened.
StartFails(at) ==
  /\ Spend("faults")
  /\ srv' = [srv EXCEPT !.at = "cleanup", !.why = "start",
               !.overrun = @ \cup (IF "asynq" \in srv.open THEN {"start"} ELSE {})]

\* The clients of Gitea, the notifier, the queue client and a Ping to Redis.
ConnectRedis ==
  /\ srv.at = "store" /\ mig["server"].at = "open"
  /\ \/ Reach("redis", {"store", "queue"}) /\ UNCHANGED plan
     \/ srv' = [srv EXCEPT !.at = "cleanup", !.why = "start", !.open = {"store", "queue"}]
          /\ Spend("faults")
  /\ UNCHANGED <<storeVars, configVars, notifyVars, busy, cli>>

\* The Docker client, a look at the worker image, and the pool, which wants the
\* name of an image.
CreatePool ==
  /\ srv.at = "redis"
  /\ \/ Reach("pool", {"docker", "pool"}) /\ "worker.image" \notin Config.blank /\ UNCHANGED plan
     \/ /\ "worker.image" \in Config.blank /\ UNCHANGED plan
        /\ srv' = [srv EXCEPT !.at = "cleanup", !.why = "settings", !.open = @ \cup {"docker"}]
     \/ StartFails("pool")
  /\ UNCHANGED <<storeVars, configVars, notifyVars, busy, cli>>

\* The services and the processor are put together, and asynq begins to hand
\* tasks to it.
StartAsynq ==
  /\ srv.at = "pool"
  /\ \/ Reach("asynq", {"asynq"}) /\ UNCHANGED plan
     \/ StartFails("asynq")
  /\ UNCHANGED <<storeVars, configVars, notifyVars, busy, cli>>

\* The daily report's scheduler, when it is enabled; what its goroutine fails
\* with is only logged.
StartScheduler ==
  /\ srv.at = "asynq"
  /\ \/ Reach("scheduler", IF Config.dailyReport.enabled THEN {"scheduler"} ELSE {})
          /\ UNCHANGED plan
     \/ Config.dailyReport.enabled /\ StartFails("scheduler")
  /\ UNCHANGED <<storeVars, configVars, notifyVars, busy, cli>>

\* The recovery loop and the collector run before the address is listened to; if
\* that fails they are cancelled, and asynq is left to itself.
Listen ==
  /\ srv.at = "scheduler"
  /\ \/ Reach("serving", {"recovery", "collector", "http"}) /\ UNCHANGED plan
     \/ StartFails("listen")
  /\ UNCHANGED <<storeVars, configVars, notifyVars, busy, cli>>

-----------------------------------------------------------------------------
(* What the server's goroutines do while it is up.                         *)
EngineOf == [request |-> "http", handler |-> "asynq",
             recovery |-> "recovery", collector |-> "collector"]

Alone == UNCHANGED <<storeVars, configVars, notifyVars, srv, cli>>

\* A request, a handler or a pass begins.
BeginWork(u) ==
  /\ busy[u] = {} /\ EngineOf[u] \in srv.open /\ Spend("work")
  /\ busy' = [busy EXCEPT ![u] =
       CASE u \in {"request", "recovery"} -> {"store", "queue"}
         [] u = "handler" -> {"store"}
         [] u = "collector" -> {"docker"}]
  /\ Alone

\* A handler's task goes to a container unless the pool is closed, and its
\* outcome is written afterwards.
RunInPool ==
  /\ busy["handler"] = {"store"} /\ "pool" \in srv.open
  /\ busy' = [busy EXCEPT !["handler"] = {"docker"}]
  /\ UNCHANGED plan /\ Alone

WriteOutcome ==
  /\ busy["handler"] = {"docker"}
  /\ busy' = [busy EXCEPT !["handler"] = {"store"}]
  /\ UNCHANGED plan /\ Alone

EndWork(u) ==
  /\ busy[u] \notin {{}, {"docker"}} \/ (u = "collector" /\ busy[u] # {})
  /\ busy' = [busy EXCEPT ![u] = {}]
  /\ UNCHANGED plan /\ Alone

\* The processor reports on the task a handler is at work on.
NotifyTask ==
  /\ busy["handler"] = {"store"} /\ Spend("messages")
  /\ \E t \in Tasks : Notify(Config, t)
  /\ UNCHANGED <<storeVars, configVars, srv, busy, cli>>

-----------------------------------------------------------------------------
(* Stopping the server.                                                    *)

\* SIGTERM; the start does not look at it before it serves.
Signal ==
  /\ srv.at # "down" /\ ~srv.stop
  /\ srv' = [srv EXCEPT !.stop = TRUE]
  /\ UNCHANGED <<storeVars, configVars, notifyVars, busy, cli, plan>>

Quietly == UNCHANGED <<storeVars, configVars, notifyVars, busy, cli, plan>>

\* The scheduler first, then gracefulShutdown starts the closer.
BeginShutdown ==
  /\ srv.at = "serving" /\ srv.stop
  /\ srv' = [srv EXCEPT !.at = "closing", !.closer = "http", !.open = @ \ {"scheduler"}]
  /\ Quietly

\* A layer takes no more work ...
CloseLayer(layer) ==
  /\ srv.closer = layer /\ layer \in srv.open
  /\ srv' = [srv EXCEPT !.open = @ \ {layer}]
  /\ Quietly

\* Mutant: a layer waits for its work without a limit.
LeaveWhenIdle(layer, user, next) ==
  /\ srv.closer = layer /\ layer \notin srv.open /\ busy[user] = {}
  /\ srv' = [srv EXCEPT !.closer = next]
  /\ Quietly

\* ... and is left when the work is done or its time is up: 5 s for requests,
\* asynq's own 8 s for handlers, which it gives back to the queue.
LeaveLayer(layer, user, next) ==
  /\ srv.closer = layer /\ layer \notin srv.open
  /\ srv' = [srv EXCEPT !.closer = next,
               !.overrun = @ \cup (IF busy[user] # {} THEN {layer} ELSE {})]
  /\ Quietly

\* The recovery loop and the collector are told to stop, not waited for.
CancelLoops ==
  /\ srv.closer = "loops"
  /\ srv' = [srv EXCEPT !.closer = "done", !.open = @ \ {"recovery", "collector"}]
  /\ mgr' = Stopped(mgr)
  /\ UNCHANGED <<storeVars, file, notifyVars, busy, cli, plan>>

ShutdownDone ==
  /\ srv.at = "closing" /\ srv.closer = "done"
  /\ srv' = [srv EXCEPT !.at = "cleanup", !.why = "stopped"]
  /\ Quietly

\* 60 s are over: the loops are cancelled and the closer is left to itself.
ShutdownLimit ==
  /\ srv.at = "closing" /\ srv.closer # "done" /\ Spend("faults")
  /\ srv' = [srv EXCEPT !.at = "cleanup", !.why = "limit", !.overrun = @ \cup {"limit"},
                        !.open = @ \ {"recovery", "collector"}]
  /\ UNCHANGED <<storeVars, configVars, notifyVars, busy, cli>>

\* The deferred cleanup, in the reverse order of the start.  The pool takes no
\* more runs ...
ClosePool ==
  /\ srv.at = "cleanup"
  /\ srv' = [srv EXCEPT !.at = "draining", !.open = @ \ {"pool"}]
  /\ Quietly

\* Mutant: the Docker client is closed without waiting for the pool's runs.
CloseDockerAtOnce ==
  /\ srv.at = "draining"
  /\ srv' = [srv EXCEPT !.at = "docker_closed", !.open = @ \ {"docker"}]
  /\ Quietly

\* ... and waits 30 s for those there are.
CloseDocker ==
  /\ srv.at = "draining"
  /\ srv' = [srv EXCEPT !.at = "docker_closed", !.open = @ \ {"docker"},
               !.overrun = @ \cup (IF busy["handler"] = {"docker"} THEN {"pool"} ELSE {})]
  /\ Quietly

CloseQueue ==
  /\ srv.at = "docker_closed"
  /\ srv' = [srv EXCEPT !.at = "queue_closed", !.open = @ \ {"queue"}]
  /\ Quietly

CloseServerStore ==
  /\ srv.at = "queue_closed"
  /\ srv' = [srv EXCEPT !.at = "store_closed", !.open = @ \ {"store"}]
  /\ CloseStore("server")
  /\ UNCHANGED <<configVars, notifyVars, busy, cli, plan>>

ExitServer ==
  /\ srv.at = "store_closed"
  /\ Exit(srv.why)
  /\ UNCHANGED <<storeVars, file, notifyVars, cli, plan>>

\* At any time.
CrashServer ==
  /\ srv.at # "down" /\ Spend("faults")
  /\ CloseStore("server") /\ Exit("crash")
  /\ UNCHANGED <<file, notifyVars, cli>>

-----------------------------------------------------------------------------
(* The task command.                                                       *)
StartCommand(explicit) ==
  /\ cli.at = "down" /\ Spend("commands")
  /\ \E i \in Load(explicit) : cli' = [at |-> "loaded", config |-> i]
  /\ UNCHANGED <<storeVars, configVars, notifyVars, srv, busy>>

OpenCommandStore ==
  /\ cli.at = "loaded"
  /\ OpenStore("task")
  /\ cli' = [cli EXCEPT !.at = "store"]
  /\ UNCHANGED <<configVars, notifyVars, srv, busy, plan>>

\* The subcommand runs once the store is open, and the command ends; it also ends
\* when the store could not be opened.
EndCommand ==
  /\ cli.at = "store" /\ mig["task"].at \in {"open", "failed", "refused"}
  /\ CloseStore("task") /\ cli' = NoCommand
  /\ UNCHANGED <<configVars, notifyVars, srv, busy, plan>>

CrashCommand ==
  /\ cli.at # "down" /\ Spend("faults")
  /\ CloseStore("task") /\ cli' = NoCommand
  /\ UNCHANGED <<configVars, notifyVars, srv, busy>>

-----------------------------------------------------------------------------
StoreStep(p) ==
  /\ MigrationStep(p)
  /\ UNCHANGED <<configVars, notifyVars, srv, busy, cli, plan>>

StoreFault(p) ==
  /\ MigrationFails(p) /\ Spend("faults")
  /\ UNCHANGED <<configVars, notifyVars, srv, busy, cli>>

Watch ==
  /\ srv.at = "serving" /\ plan.watch /\ WatchConfig
  /\ UNCHANGED <<storeVars, notifyVars, srv, busy, cli, plan>>

Reload == WatcherStep /\ UNCHANGED <<storeVars, notifyVars, srv, busy, cli, plan>>

EditFile ==
  /\ Spend("edits") /\ \E i \in plan.contents : Edit(i)
  /\ UNCHANGED <<storeVars, notifyVars, srv, busy, cli>>

\* What the server does by itself.
ServerStep ==
  \/ OpenServerStore \/ StoreStep("server") \/ ServerStoreFails
  \/ ConnectRedis \/ CreatePool \/ StartAsynq \/ StartScheduler \/ Listen
  \/ BeginShutdown
  \/ CloseLayer("http") \/ LeaveLayer("http", "request", "asynq")
  \/ CloseLayer("asynq") \/ LeaveLayer("asynq", "handler", "loops")
  \/ CancelLoops \/ ShutdownDone
  \/ ClosePool \/ CloseDocker \/ CloseQueue \/ CloseServerStore \/ ExitServer

CommandStep == OpenCommandStore \/ StoreStep("task") \/ EndCommand

Next ==
  \/ \E explicit \in BOOLEAN : StartServer(explicit) \/ StartCommand(explicit)
  \/ ServerStep \/ CommandStep \/ Reload
  \/ \E u \in Users : BeginWork(u) \/ EndWork(u)
  \/ RunInPool \/ WriteOutcome \/ NotifyTask
  \/ Signal \/ ShutdownLimit \/ CrashServer \/ CrashCommand
  \/ \E p \in Procs : StoreFault(p)
  \/ Watch \/ EditFile

\* The server, the command and the watcher go on by themselves; nothing is
\* assumed of requests, tasks, passes, signals, edits and faults.
Spec ==
  /\ Init /\ [][Next]_vars
  /\ WF_vars(ServerStep) /\ WF_vars(CommandStep) /\ WF_vars(Reload)

-----------------------------------------------------------------------------
Servers ==
  [at : {"down", "loaded", "store", "redis", "pool", "asynq", "scheduler", "serving",
         "closing", "cleanup", "draining", "docker_closed", "queue_closed",
         "store_closed"},
   why : {"none", "config", "settings", "store", "start", "stopped", "limit", "crash"},
   config : Contents, stop : BOOLEAN,
   open : SUBSET {"store", "queue", "docker", "pool", "asynq", "scheduler",
                  "recovery", "collector", "http"},
   closer : {"none", "http", "asynq", "loops", "done"},
   overrun : SUBSET {"start", "http", "asynq", "limit", "pool"}]

\* The server, its goroutines, the command, the store and the manager are of
\* their types.
TypeOK ==
  /\ srv \in Servers
  /\ busy \in [Users -> {{}, {"store"}, {"docker"}, {"store", "queue"}}]
  /\ cli \in [at : {"down", "loaded", "store"}, config : Contents]
  /\ routers \in [Repos \cup {"*"} -> Repos \cup {"none"}]
  /\ StoreTypes /\ ManagerTypes
  /\ plan \in Situations

\* What a shutdown closes is not in use, or a time limit is to blame: the store
\* and the queue outlive requests and handlers, and Docker outlives every
\* container the pool runs, unless the pool's own 30 s were not enough
\* (serve.go:478-479, serve_deps.go:193-197).  The passes of the two loops are
\* cancelled and not waited for (serve.go:524-527).
ClosedWhenUnused ==
  srv.at # "down" =>
    /\ ~(busy["request"] \subseteq srv.open) => {"http", "limit"} \cap srv.overrun # {}
    /\ busy["handler"] = {"store"} /\ "store" \notin srv.open
         => {"asynq", "limit", "start"} \cap srv.overrun # {}
    /\ busy["handler"] = {"docker"} /\ "docker" \notin srv.open => "pool" \in srv.overrun
    /\ \A u \in {"recovery", "collector"} :
         ~(busy[u] \subseteq srv.open) => EngineOf[u] \notin srv.open

Consistent(c, repo) ==
  LET t == ResolveTestGen(c, repo)
      e == ResolveE2E(c, repo)
      it == ResolveIterate(c, repo) IN
  /\ t.changeDriven = "on" => t.enabled # "off"
  /\ e.regression = "on" => e.enabled # "off" /\ e.defaultEnv \in c.e2e.environments
  /\ c.iterate.enabled => it.rounds \in 1..10 /\ it.threshold \in {"critical", "error", "warning"}
  /\ ResolveReview(c, repo).severity \in {"unset", "critical", "error", "warning", "info"}
  /\ ResolveCodeFromDoc(c, repo).rounds \in 0..10

ConsistentFor == [i \in DOMAIN Files |-> \A repo \in Repos : Consistent(Files[i], repo)]

\* What was in force at the start or is in force now was accepted, and holds
\* together for every repository once the overrides are merged in: no option is
\* on whose feature is off, and none refers to what is not there
\* (validate.go:396-475, 577-645; repo_config.go).  It also has the numbers, the
\* address and the secrets serve asks for itself (serve.go:143-160); a blank path of
\* the database or image is not among them, and may still fail the start.
ConfigInForce ==
  /\ \A i \in {srv.config, mgr.current} \ {0} : Accepted[i] /\ ConsistentFor[i]
  /\ srv.at = "loaded" => Checks(Config)

\* A task's containers push with the account that opens its pull request, use
\* the key the configuration resolves for it, and are given as long as asynq
\* gives the handler (container.go:29-34, types.go:54, options.go:22).  fix_review,
\* which opens none, is not compared: it pushes to the branch it is asked to repair.
TasksRunAsConfigured ==
  srv.config # 0 =>
    LET pool == PoolConfig(Config) IN
    /\ \A type \in {"fix_issue", "gen_tests", "code_from_doc"} :
         SelectGiteaToken(pool, type) = OpenedBy(Config, type)
    /\ \A type \in TimedTypes :
         /\ SelectClaudeAPIKey(pool, type) = ResolveAPIKey(Config, type)
         /\ Lookup(pool.timeouts, type) = TaskTimeout(Config.timeouts, type)

Reachable(c, repo) ==
  \A r \in Range(ResolveNotifyRoutes(c, repo)) : \A ch \in r.channels : On(c, ch)

\* With an accepted configuration whose routes name enabled channels, a router
\* is built for every repository, and its Feishu messages go to the address
\* that repository resolves to, whichever repository the cached router was
\* built for (serve_notify.go:57-64, validate.go:180-293).
MessagesArrive ==
  sent.repo # "none" /\ srv.config # 0 =>
    /\ Reachable(Config, sent.repo) => sent.outcome # <<>>
    /\ "feishu" \in DOMAIN sent.outcome =>
         sent.feishu = IF ResolveFeishuOverride(Config, sent.repo) # "nil"
                       THEN sent.repo ELSE "global"

\* A signal ends the server, whatever its requests and tasks do: every wait of
\* the shutdown has a limit (serve.go:477-541, serve_deps.go:270-274).
SignalStops == srv.stop ~> srv.at = "down"

\* An acceptable file written while the watcher runs becomes current, unless it
\* is replaced again, also when it was missing for a moment or written while
\* the one before it was being read (watcher.go:87-160, 199-220).
ReloadCatchesUp == Behind ~> ~Behind
-----------------------------------------------------------------------------
(* The inductive invariants that imply the safety properties.              *)

\* What the start has opened stays open until its turn to be closed comes.
OpenInOrder ==
  /\ srv.at \in {"down", "loaded", "store"} => srv.open = {} /\ busy = Idle
  /\ srv.at \notin {"down", "loaded", "store", "queue_closed", "store_closed"}
       => "queue" \in srv.open
  /\ srv.at \notin {"down", "loaded", "store", "store_closed"} => "store" \in srv.open
  /\ srv.at \in {"pool", "asynq", "scheduler", "serving", "closing"} => "docker" \in srv.open
  /\ "pool" \in srv.open \/ "collector" \in srv.open => "docker" \in srv.open
  /\ "recovery" \in srv.open \/ "collector" \in srv.open => srv.at \in {"serving", "closing"}
  /\ srv.at \in {"draining", "docker_closed", "queue_closed", "store_closed"}
       => "pool" \notin srv.open

\* What the closer has left is closed, and an engine that is not is closed in
\* time or a time limit has expired.
CloserInOrder ==
  /\ srv.at \in {"down", "loaded", "store", "redis", "pool", "asynq", "scheduler", "serving"}
       => srv.closer = "none"
  /\ srv.at = "closing" => srv.closer # "none"
  /\ srv.closer \in {"asynq", "loops", "done"} => "http" \notin srv.open
  /\ srv.closer \in {"loops", "done"} => "asynq" \notin srv.open
  /\ srv.closer = "done" => {"recovery", "collector"} \cap srv.open = {}
  /\ "http" \in srv.open \/ srv.closer \in {"http", "asynq"} =>
       srv.at \in {"serving", "closing"} \/ "limit" \in srv.overrun
  /\ "asynq" \in srv.open =>
       srv.at \in {"asynq", "scheduler", "serving", "closing"}
         \/ {"start", "limit"} \cap srv.overrun # {}

\* Work is under way only while its engine is open, is waited for, or is left
\* behind by a time limit.
WorkIsCovered ==
  /\ busy["request"] \in {{}, {"store", "queue"}}
  /\ busy["handler"] \in {{}, {"store"}, {"docker"}}
  /\ busy["recovery"] \in {{}, {"store", "queue"}}
  /\ busy["collector"] \in {{}, {"docker"}}
  /\ busy["request"] # {} => "http" \in srv.open \/ srv.closer = "http"
                               \/ {"http", "limit"} \cap srv.overrun # {}
  /\ busy["handler"] # {} => "asynq" \in srv.open \/ srv.closer \in {"http", "asynq"}
                               \/ {"asynq", "limit", "start"} \cap srv.overrun # {}
  /\ busy["handler"] = {"docker"} /\ "docker" \notin srv.open => "pool" \in srv.overrun

UseInv == OpenInOrder /\ CloserInOrder /\ WorkIsCovered

\* What is in force was accepted.
InForce ==
  /\ srv.config = 0 <=> srv.at = "down"
  /\ \A i \in {srv.config, mgr.current} \ {0} : Accepted[i]

\* A router of its own is a repository's own; the shared one was built for a
\* repository that overrides nothing.
RoutersKept ==
  srv.config # 0 =>
    /\ \A repo \in Repos : routers[repo] \in {"none", repo}
    /\ routers["*"] = "none" \/ ~HasRepoNotifyOverride(Config, routers["*"])

ServerInv ==
  /\ TypeOK /\ UpgradeInv /\ UseInv /\ InForce /\ RoutersKept /\ MessagesArrive
=============================================================================
