--------------------------- MODULE Server_proofs ---------------------------
(***************************************************************************)
(* Server: the inductive invariant ServerInv and the safety properties of  *)
(* the server, its store, its configuration and its notifications.         *)
(*                                                                         *)
(* The parts of ServerInv are proved one after the other, each from the    *)
(* few ways a step may change the variables it speaks of (StoreChange,     *)
(* ConfigChange, RoutersChange): UpgradeInv migration by migration, UseInv *)
(* action by action, InForce and RoutersKept from what is loaded and what  *)
(* is sent.  What Validate's rules imply is proved of every configuration. *)
(***************************************************************************)
EXTENDS Server, WellFoundedInduction, FiniteSetTheorems, SequenceTheorems, TLAPS

-----------------------------------------------------------------------------
(* What Validate accepts holds together.                                   *)

\* A set of numbers that is not empty has a least one.
LEMMA MinIsLeast ==
  ASSUME NEW S \in SUBSET Nat, S # {}
  PROVE  Min(S) \in S /\ \A n \in S : Min(S) <= n
<1> DEFINE R == OpToRel(<, Nat)
<1>1. IsWellFoundedOn(R, Nat)
  BY NatLessThanWellFounded
<1>2. \E x \in S : \A y \in S : ~(<<y, x>> \in R)
  <2> HIDE DEF R
  <2> QED BY <1>1, WFMin
<1>3. \A x, y \in Nat : y < x => <<y, x>> \in R
  BY DEF OpToRel
<1> HIDE DEF R
<1>4. \E m \in S : \A n \in S : m <= n
  <2>1. PICK m \in S : \A y \in S : ~(<<y, m>> \in R)
    BY <1>2
  <2>2. \A n \in S : n \in Nat /\ m \in Nat /\ ~(n < m)
    BY <1>3, <2>1
  <2> QED BY <2>2
<1> QED BY <1>4 DEF Min

\* What overrides a part comes from an entry of the repository that has one.
LEMMA OverrideIsOwn ==
  ASSUME NEW c, IsConfig(c), NEW name, NEW part
  PROVE  \/ Override(c, name, part) = {}
         \/ \E i \in DOMAIN c.repos :
              /\ c.repos[i].name = name /\ c.repos[i][part] # {}
              /\ Override(c, name, part) = c.repos[i][part]
<1> DEFINE own == {i \in DOMAIN c.repos : c.repos[i].name = name /\ c.repos[i][part] # {}}
<1>1. own \in SUBSET Nat
  BY DEF IsConfig
<1>2. own = {} \/ Min(own) \in own
  BY <1>1, MinIsLeast
<1>3. Override(c, name, part) = IF own = {} THEN {} ELSE c.repos[Min(own)][part]
  BY DEF Override
<1> HIDE DEF own
<1>4. \A i \in own : i \in DOMAIN c.repos /\ c.repos[i].name = name /\ c.repos[i][part] # {}
  BY DEF own
<1> QED BY <1>2, <1>3, <1>4

\* Tests on every change are on only where test generation is not off: the
\* rules look at every entry merged with the file (ResolvedTestGenRules).
LEMMA TestGenHoldsTogether ==
  ASSUME NEW c, IsConfig(c), TestGenRules(c), ResolvedTestGenRules(c), NEW repo
  PROVE  ResolveTestGen(c, repo).changeDriven = "on" => ResolveTestGen(c, repo).enabled # "off"
<1>1. CASE Override(c, repo, "testGen") = {}
  BY <1>1 DEF ResolveTestGen, Merge, TestGenRules, IsConfig, TestGenPart
<1>2. CASE Override(c, repo, "testGen") # {}
  BY <1>2, OverrideIsOwn DEF ResolvedTestGenRules, Range
<1> QED BY <1>1, <1>2

\* An override has at most one part.
LEMMA OverrideIsOne ==
  ASSUME NEW c, IsConfig(c), NEW name,
         NEW part \in {"review", "testGen", "e2e", "iterate", "codeFromDoc"}
  PROVE  \A x, y \in Override(c, name, part) : x = y
<1>1. CASE Override(c, name, part) = {}
  BY <1>1
<1>2. ASSUME NEW i \in DOMAIN c.repos, Override(c, name, part) = c.repos[i][part]
      PROVE  \A x, y \in Override(c, name, part) : x = y
  BY <1>2 DEF IsConfig, IsEntry, Optional
<1> QED BY <1>1, <1>2, OverrideIsOwn

\* Regression runs are on only where end-to-end runs are not off, and have an
\* environment that exists.
LEMMA E2EHoldsTogether ==
  ASSUME NEW c, IsConfig(c), E2ERules(c), RepoE2ERules(c), NEW repo
  PROVE  LET e == ResolveE2E(c, repo) IN
         e.regression = "on" => e.enabled # "off" /\ e.defaultEnv \in c.e2e.environments
<1> DEFINE own == Override(c, repo, "e2e")
           e == ResolveE2E(c, repo)
<1>1. CASE own = {}
  BY <1>1 DEF ResolveE2E, Merge, E2ERules
<1>2. CASE own # {}
  <2>1. PICK i \in DOMAIN c.repos : c.repos[i].name = repo /\ own = c.repos[i].e2e
    BY <1>2, OverrideIsOwn
  <2>2. PICK o \in own : TRUE
    BY <1>2
  <2>3. o = CHOOSE x \in own : TRUE
    BY <2>2, OverrideIsOne
  <2>4. /\ o.defaultEnv \in c.e2e.environments \cup {"unset"}
        /\ e.regression = "on" => e.enabled # "off" /\ e.defaultEnv # "unset"
    BY <2>1, <2>2 DEF RepoE2ERules, Range
  <2>5. e.defaultEnv \in {c.e2e.defaultEnv, o.defaultEnv}
    BY <2>3 DEF ResolveE2E, Merge
  <2> QED BY <2>4, <2>5 DEF E2ERules
<1> QED BY <1>1, <1>2

\* The iteration loop has between one and ten rounds and a severity to stop at.
LEMMA IterateHoldsTogether ==
  ASSUME NEW c, IsConfig(c), IterateRules(c), c.iterate.enabled, NEW repo
  PROVE  /\ ResolveIterate(c, repo).rounds \in 1..10
         /\ ResolveIterate(c, repo).threshold \in {"critical", "error", "warning"}
<1> DEFINE own == Override(c, repo, "iterate")
<1>1. /\ c.iterate.rounds \in 1..10 /\ c.iterate.threshold \in {"critical", "error", "warning"}
      /\ c.iterate \in [enabled : BOOLEAN, rounds : Int, threshold : STRING,
                        malformed : SUBSET STRING]
  BY DEF IterateRules, RoundsInRange, IsConfig
<1>2. CASE own = {}
  BY <1>1, <1>2 DEF ResolveIterate, Merge
<1>3. CASE own # {}
  <2>1. PICK i \in DOMAIN c.repos : own = c.repos[i].iterate
    BY <1>3, OverrideIsOwn
  <2>2. PICK o \in own : TRUE
    BY <1>3
  <2>3. o = (CHOOSE x \in own : TRUE) /\ own = {o}
    BY <2>2, OverrideIsOne
  <2>4. /\ o.rounds = 0 \/ o.rounds \in 1..10
        /\ o.threshold \in {"critical", "error", "warning", "unset"}
    BY <2>1, <2>2 DEF IterateRules, RoundsInRange, Parts, Range
  <2> HIDE DEF own
  <2>5. /\ ResolveIterate(c, repo).rounds = IF o.rounds > 0 THEN o.rounds ELSE c.iterate.rounds
        /\ ResolveIterate(c, repo).threshold =
             IF o.threshold # "unset" THEN o.threshold ELSE c.iterate.threshold
    BY <1>1, <2>3 DEF ResolveIterate, Merge, own
  <2> QED BY <1>1, <2>4, <2>5
<1> QED BY <1>2, <1>3

\* The severity from which a review requests changes is one there is.
LEMMA ReviewHoldsTogether ==
  ASSUME NEW c, IsConfig(c), ReviewRules(c), NEW repo
  PROVE  ResolveReview(c, repo).severity \in {"unset", "critical", "error", "warning", "info"}
<1> DEFINE own == Override(c, repo, "review")
<1>1. c.review.severity \in {"unset", "critical", "error", "warning", "info"}
  BY DEF ReviewRules
<1>2. \A o \in own : o.severity \in {"unset", "critical", "error", "warning", "info"}
  BY OverrideIsOwn DEF ReviewRules, Parts, Range
<1>3. own = {} \/ (CHOOSE x \in own : TRUE) \in own
  OBVIOUS
<1> QED BY <1>1, <1>2, <1>3 DEF ResolveReview, Merge

\* Code from a document has at most ten review rounds.
LEMMA CodeFromDocHoldsTogether ==
  ASSUME NEW c, IsConfig(c), CodeFromDocRules(c), NEW repo
  PROVE  ResolveCodeFromDoc(c, repo).rounds \in 0..10
<1> DEFINE own == Override(c, repo, "codeFromDoc")
<1>1. c.codeFromDoc.rounds \in 0..10
  BY DEF CodeFromDocRules, RoundsInRange
<1>2. \A o \in own : o.rounds \in 0..10
  BY OverrideIsOwn DEF CodeFromDocRules, RoundsInRange, Parts, Range
<1>3. own = {} \/ (CHOOSE x \in own : TRUE) \in own
  OBVIOUS
<1> QED BY <1>1, <1>2, <1>3 DEF ResolveCodeFromDoc

\* Validate's rules imply that the options of every repository hold together.
LEMMA ValidIsConsistent ==
  ASSUME NEW c, IsConfig(c), Valid(c), NEW repo
  PROVE  Consistent(c, repo)
<1>1. /\ TestGenRules(c) /\ ResolvedTestGenRules(c) /\ E2ERules(c) /\ RepoE2ERules(c)
      /\ IterateRules(c) /\ ReviewRules(c) /\ CodeFromDocRules(c)
  BY DEF Valid
<1> QED
  BY <1>1, TestGenHoldsTogether, E2EHoldsTogether, IterateHoldsTogether,
     ReviewHoldsTogether, CodeFromDocHoldsTogether DEF Consistent

\* ... and what serve checks itself.
LEMMA ValidIsChecked ==
  ASSUME NEW c, IsConfig(c), Valid(c)
  PROVE  Checks(c)
<1>1. RequiredSettings(c) /\ WorkerRules(c)
  BY DEF Valid
<1>2. c.blank \cap {"webhook.secret", "claude.api_key", "gitea.url", "gitea.token"} = {}
  BY <1>1 DEF RequiredSettings
<1>3. c.port \in Ports
  BY <1>1 DEF RequiredSettings
<1>4. c.concurrency > 0
  BY <1>1 DEF WorkerRules, IsConfig
<1> QED BY <1>2, <1>3, <1>4 DEF Checks

\* The two tables of time limits agree, and so do the two ways to find a key and
\* an account.
LEMMA TasksAreConfigured ==
  ASSUME NEW c, NEW type \in TimedTypes
  PROVE  /\ type \in {"fix_issue", "gen_tests", "code_from_doc"} =>
              SelectGiteaToken(PoolConfig(c), type) = OpenedBy(c, type)
         /\ SelectClaudeAPIKey(PoolConfig(c), type) = ResolveAPIKey(c, type)
         /\ Lookup(PoolConfig(c).timeouts, type) = TaskTimeout(c.timeouts, type)
<1>1. type \in {"fix_issue", "gen_tests", "code_from_doc"} =>
        SelectGiteaToken(PoolConfig(c), type) = OpenedBy(c, type)
  BY DEF SelectGiteaToken, PoolConfig, OpenedBy, GiteaClients
<1>2. SelectClaudeAPIKey(PoolConfig(c), type) = ResolveAPIKey(c, type)
  BY DEF SelectClaudeAPIKey, PoolConfig, ResolveAPIKey
<1>3. Lookup(PoolConfig(c).timeouts, type) = TaskTimeout(c.timeouts, type)
  BY DEF Lookup, PoolConfig, TaskTimeout, QueueDefault, TimedTypes
<1> QED BY <1>1, <1>2, <1>3

-----------------------------------------------------------------------------
(* The router of a repository.                                             *)

\* A Feishu address of its own is one of an entry of the repository.
LEMMA FeishuIsOwn ==
  ASSUME NEW c, IsConfig(c), NEW name
  PROVE  /\ ResolveFeishuOverride(c, name) # "nil" =>
              \E i \in DOMAIN c.repos : \E o \in c.repos[i].notify :
                c.repos[i].name = name /\ o.feishu # "nil" /\ ResolveFeishuOverride(c, name) = o.feishu
         /\ ResolveFeishuOverride(c, name) = "nil" =>
              \A i \in DOMAIN c.repos : c.repos[i].name = name =>
                \A o \in c.repos[i].notify : o.feishu = "nil"
<1> DEFINE own == {i \in DOMAIN c.repos :
                     c.repos[i].name = name /\ \E o \in c.repos[i].notify : o.feishu # "nil"}
           one(i) == CHOOSE o \in c.repos[i].notify : TRUE
<1>1. own \in SUBSET Nat
  BY DEF IsConfig
<1>2. own = {} \/ Min(own) \in own
  BY <1>1, MinIsLeast
<1>3. ResolveFeishuOverride(c, name) = IF own = {} THEN "nil" ELSE one(Min(own)).feishu
  BY DEF ResolveFeishuOverride
<1>4. ASSUME NEW i \in own
      PROVE  /\ i \in DOMAIN c.repos /\ c.repos[i].name = name
             /\ one(i) \in c.repos[i].notify /\ one(i).feishu # "nil"
  <2>1. PICK o \in c.repos[i].notify : o.feishu # "nil"
    OBVIOUS
  <2>2. \A x, y \in c.repos[i].notify : x = y
    BY DEF IsConfig, IsEntry, Optional
  <2> QED BY <2>1, <2>2
<1>5. \A i \in DOMAIN c.repos :
        c.repos[i].name = name /\ (\E o \in c.repos[i].notify : o.feishu # "nil") => i \in own
  OBVIOUS
<1> HIDE DEF own, one
<1>6. CASE own = {}
  BY <1>3, <1>5, <1>6
<1>7. CASE own # {}
  <2> DEFINE m == Min(own)
  <2>1. m \in DOMAIN c.repos /\ c.repos[m].name = name
        /\ one(m) \in c.repos[m].notify /\ one(m).feishu # "nil"
    BY <1>2, <1>4, <1>7
  <2>2. ResolveFeishuOverride(c, name) = one(m).feishu
    BY <1>3, <1>7
  <2> HIDE DEF m
  <2> QED BY <2>1, <2>2
<1> QED BY <1>6, <1>7

\* A repository's routes are the global ones or those of an entry of its own.
LEMMA RoutesAreOwn ==
  ASSUME NEW c, IsConfig(c), NEW name
  PROVE  \/ ResolveNotifyRoutes(c, name) = c.routes
         \/ \E i \in DOMAIN c.repos : \E o \in c.repos[i].notify :
              c.repos[i].name = name /\ ResolveNotifyRoutes(c, name) \in o.routes
<1> DEFINE own == Override(c, name, "notify")
           one == CHOOSE o \in own : TRUE
<1>1. CASE ~\E o \in own : o.routes # {}
  BY <1>1 DEF ResolveNotifyRoutes
<1>2. CASE \E o \in own : o.routes # {}
  <2>1. PICK i \in DOMAIN c.repos : c.repos[i].name = name /\ own = c.repos[i].notify
    BY <1>2, OverrideIsOwn
  <2>2. PICK o \in own : o.routes # {}
    BY <1>2
  <2>3. \A x, y \in own : x = y
    BY <2>1 DEF IsConfig, IsEntry, Optional
  <2>4. one = o
    BY <2>2, <2>3
  <2>5. ResolveNotifyRoutes(c, name) = CHOOSE rs \in one.routes : TRUE
    BY <1>2 DEF ResolveNotifyRoutes
  <2> HIDE DEF own, one
  <2>6. ResolveNotifyRoutes(c, name) \in o.routes
    BY <2>2, <2>4, <2>5
  <2> QED BY <2>1, <2>2, <2>6
<1> QED BY <1>1, <1>2

\* With an accepted configuration a router can be built for every repository
\* whose routes name enabled channels.
LEMMA ValidBuilds ==
  ASSUME NEW c, IsConfig(c), Valid(c), NEW repo, Reachable(c, repo)
  PROVE  Builds(c, repo)
<1> DEFINE routes == ResolveNotifyRoutes(c, repo)
           address == ResolveFeishuOverride(c, repo)
<1>1. ChannelRules(c) /\ RepoRouteRules(c) /\ RepoFeishuRules(c) /\ FeishuAddressRules(c)
  BY DEF Valid
<1>2. address \in {"nil", "ok"}
  BY <1>1, FeishuIsOwn DEF RepoFeishuRules, Parts, Range
<1>3. \A ch \in {"gitea", "feishu"} :
        On(c, ch) /\ (ch = "feishu" => address # "nil" \/ c.channels["feishu"].url # "unset")
          => ch \in Channels(c, repo)
  BY DEF Channels, GlobalFeishu
<1>4. c.fallback \in Channels(c, repo)
  <2>1. c.fallback \in {"gitea", "feishu"} /\ On(c, c.fallback)
    BY <1>1 DEF ChannelRules, On, Supported
  <2>2. c.fallback = "feishu" => c.channels["feishu"].url # "unset"
    BY <1>1, <2>1 DEF FeishuAddressRules, FeishuEnabled, On
  <2> QED BY <1>3, <2>1, <2>2
<1>5. ASSUME NEW r \in Range(routes), NEW ch \in r.channels PROVE ch \in Channels(c, repo)
  <2>1. On(c, ch)
    BY DEF Reachable
  <2>2. CASE routes = c.routes
    <3>1. ch \in {"gitea", "feishu"}
      BY <1>1, <2>2 DEF ChannelRules, Routable, Supported
    <3>2. ch = "feishu" => c.channels["feishu"].url # "unset"
      BY <1>1, <2>1, <2>2 DEF FeishuAddressRules, FeishuEnabled, On, UsesFeishu
    <3> QED BY <1>3, <2>1, <3>1, <3>2
  <2>3. ASSUME NEW i \in DOMAIN c.repos, NEW o \in c.repos[i].notify,
               c.repos[i].name = repo, routes \in o.routes
        PROVE  ch \in Channels(c, repo)
    <3>1. o \in Parts(c, "notify")
      BY DEF Parts, Range
    <3>2. ch \in {"gitea", "feishu"}
      BY <1>1, <2>3, <3>1 DEF RepoRouteRules, Routable, Supported
    <3>3. ch = "feishu" => address # "nil" \/ c.channels["feishu"].url # "unset"
      <4>1. CASE o.feishu = "nil"
        BY <1>1, <2>1, <2>3, <3>1, <4>1 DEF FeishuAddressRules, FeishuEnabled, On, UsesFeishu
      <4>2. CASE o.feishu # "nil"
        BY <2>3, <4>2, FeishuIsOwn
      <4> QED BY <4>1, <4>2
    <3> QED BY <1>3, <2>1, <3>2, <3>3
  <2> QED BY <2>2, <2>3, RoutesAreOwn
<1> QED BY <1>2, <1>4, <1>5 DEF Builds

\* A repository without an override of its own has no address of its own.
LEMMA SharedHasNoAddress ==
  ASSUME NEW c, IsConfig(c), NEW repo, ~HasRepoNotifyOverride(c, repo)
  PROVE  ResolveFeishuOverride(c, repo) = "nil"
BY FeishuIsOwn DEF HasRepoNotifyOverride, Range

\* A message that has a router goes to at least one channel.
LEMMA OutcomeOfOne ==
  ASSUME NEW router, NEW repo, NEW m
  PROVE  Outcome(router, repo, m) # <<>>
<1>1. ResolveChannels(router, repo, m.event) # {}
  BY DEF ResolveChannels
<1>2. DOMAIN Outcome(router, repo, m) = ResolveChannels(router, repo, m.event)
  BY DEF Outcome
<1>3. DOMAIN <<>> = {}
  OBVIOUS
<1> QED BY <1>1, <1>2, <1>3

-----------------------------------------------------------------------------
(* The migrations keep what is stored.                                     *)

\* A migration that leaves the table of tasks as it is.
LEMMA KeptFurther ==
  ASSUME NEW d, NEW v \in 1..25, v - 1 \notin {0, 12, 16, 25}, v # 15, Kept(d, v - 1),
         NEW e, DOMAIN e = DBFields, ~e.refused, e.columns = d.columns, e.types = d.types,
         e.rows = d.rows, ChildrenAt(e.children, v)
  PROVE  Kept(e, v)
<1>1. ColumnsAt(v) = ColumnsAt(v - 1)
  <2>1. CASE v \in 2..12
    BY <2>1 DEF ColumnsAt
  <2>2. CASE v \in 14..16
    BY <2>2 DEF ColumnsAt
  <2>3. CASE v \in 18..25
    BY <2>3 DEF ColumnsAt
  <2>4. v \in 2..12 \/ v \in 14..16 \/ v \in 18..25
    OBVIOUS
  <2> QED BY <2>1, <2>2, <2>3, <2>4
<1>2. ASSUME NEW row, NEW t, RowKept(row, t, v - 1) PROVE RowKept(row, t, v)
  BY <1>1, <1>2 DEF RowKept
<1> QED BY <1>1, <1>2 DEF Kept, Latest

\* Result tables stay as they are from one version to the next, except at v20,
\* which must make one nullable.
LEMMA ChildrenFurther ==
  ASSUME NEW d, NEW v \in 1..26, v \notin {20}, Kept(d, v - 1)
  PROVE  ChildrenAt(d.children, v)
BY DEF Kept, ChildrenAt

\* What creating a result table changes.
LEMMA CreateChildEffect ==
  ASSUME NEW d, DOMAIN d = DBFields, NEW table, NEW nullable
  PROVE  LET e == CreateChild(d, table, nullable) IN
         /\ DOMAIN e = DBFields /\ e.columns = d.columns /\ e.types = d.types /\ e.rows = d.rows
         /\ e.refused = d.refused
         /\ DOMAIN e.children = DOMAIN d.children \cup {table}
         /\ \A t \in DOMAIN d.children : e.children[t] = d.children[t]
         /\ table \notin DOMAIN d.children =>
              e.children[table] = [nullable |-> nullable, linked |-> TRUE]
BY DEF CreateChild, DBFields, Extend

\* v1.
LEMMA FirstTasksKept ==
  ASSUME NEW d, Kept(d, 0)
  PROVE  Kept(FirstTasks(1, d), 1)
<1> DEFINE e == FirstTasks(1, d)
<1>1. /\ DOMAIN e = DBFields /\ e.refused = d.refused /\ e.rows = d.rows /\ e.children = d.children
      /\ e.columns = <<"head", "outcome", "times">>
      /\ e.types = {"review_pr", "fix_issue", "gen_tests"}
  BY DEF FirstTasks, Kept, DBFields
<1>2. ColumnsAt(1) = <<"head", "outcome", "times">>
  BY DEF ColumnsAt
<1>3. e.types \subseteq TaskTypes
  BY <1>1 DEF TaskTypes
<1> HIDE DEF e
<1>4. ChildrenAt(e.children, 1)
  BY <1>1, ChildrenFurther
<1>5. Kept(e, 1)
  BY <1>1, <1>2, <1>3, <1>4 DEF Kept, Latest
<1> QED BY <1>5 DEF e

\* v7, v19, v22.
LEMMA CreateChildKept ==
  ASSUME NEW d, NEW v \in 2..25, v - 1 \notin {12, 16}, v \notin {15, 20}, Kept(d, v - 1),
         NEW table, table = "test_gen_results" <=> v = 19, NEW nullable, v # 19 => nullable
  PROVE  Kept(CreateChild(d, table, nullable), v)
<1> DEFINE e == CreateChild(d, table, nullable)
<1>1. DOMAIN d = DBFields
  BY DEF Kept
<1>2. /\ DOMAIN e = DBFields /\ e.columns = d.columns /\ e.types = d.types /\ e.rows = d.rows
      /\ e.refused = d.refused
      /\ DOMAIN e.children = DOMAIN d.children \cup {table}
      /\ \A t \in DOMAIN d.children : e.children[t] = d.children[t]
      /\ table \notin DOMAIN d.children =>
           e.children[table] = [nullable |-> nullable, linked |-> TRUE]
  BY <1>1, CreateChildEffect
<1> HIDE DEF e
<1>3. ChildrenAt(d.children, v)
  BY ChildrenFurther
<1>4. ChildrenAt(e.children, v)
  <2>1. ASSUME NEW t \in DOMAIN e.children
        PROVE  /\ e.children[t].linked
               /\ e.children[t].nullable \/ (t = "test_gen_results" /\ v = 19)
               /\ DOMAIN e.children[t] = {"nullable", "linked"}
               /\ t = "test_gen_results" => v >= 19
    <3>1. CASE t \in DOMAIN d.children
      BY <1>2, <1>3, <3>1 DEF ChildrenAt
    <3>2. CASE t \notin DOMAIN d.children
      <4>1. t = table /\ e.children[t] = [nullable |-> nullable, linked |-> TRUE]
        BY <1>2, <2>1, <3>2
      <4> QED BY <4>1
    <3> QED BY <3>1, <3>2
  <2> QED BY <2>1 DEF ChildrenAt
<1>5. ~e.refused
  BY <1>2 DEF Kept
<1>6. v \in 1..25 /\ v - 1 \notin {0, 12, 16, 25} /\ v # 15
  OBVIOUS
<1>7. Kept(e, v)
  BY <1>2, <1>4, <1>5, <1>6, KeptFurther
<1> QED BY <1>7 DEF e

\* The columns of tasks, without their order.
LEMMA ColumnNames ==
  /\ \A v \in 1..12 : Range(ColumnsAt(v)) = {"head", "outcome", "times"}
  /\ \A v \in 13..16 : Range(ColumnsAt(v)) = {"head", "outcome", "times", "pr_number"}
  /\ \A v \in 17..26 :
       Range(ColumnsAt(v)) = {"head", "outcome", "times", "pr_number", "triggered_by"}
<1>1. /\ Range(<<"head", "outcome", "times">>) = {"head", "outcome", "times"}
      /\ Range(<<"head", "outcome", "times", "pr_number">>)
           = {"head", "outcome", "times", "pr_number"}
      /\ Range(<<"head", "outcome", "times", "pr_number", "triggered_by">>)
           = {"head", "outcome", "times", "pr_number", "triggered_by"}
      /\ Range(<<"head", "pr_number", "outcome", "triggered_by", "times">>)
           = {"head", "outcome", "times", "pr_number", "triggered_by"}
  BY DEF Range
<1> QED BY <1>1 DEF ColumnsAt

\* v13, v17.
LEMMA AddColumnKept ==
  ASSUME NEW d, NEW v \in {13, 17}, Kept(d, v - 1), NEW col, NEW value,
         col = IF v = 13 THEN "pr_number" ELSE "triggered_by",
         value = IF v = 13 THEN "null" ELSE "triggered_by"
  PROVE  Kept(AddColumn(d, col, value), v)
<1> DEFINE e == AddColumn(d, col, value)
<1>1. col \notin Range(d.columns)
  <2>1. d.columns = ColumnsAt(v - 1) /\ v - 1 \in {12, 16}
    BY DEF Kept
  <2> QED BY <2>1, ColumnNames
<1>2. DOMAIN d = DBFields /\ ~d.refused
  BY DEF Kept
<1>3. /\ DOMAIN e = DBFields /\ ~e.refused /\ e.types = d.types /\ e.children = d.children
      /\ e.columns = Append(d.columns, col)
      /\ DOMAIN e.rows = DOMAIN d.rows
      /\ \A t \in DOMAIN d.rows : e.rows[t] = Extend(d.rows[t], col, value)
  BY <1>1, <1>2 DEF AddColumn, DBFields
<1> HIDE DEF e
<1>4. e.columns = ColumnsAt(v)
  <2>1. d.columns = ColumnsAt(v - 1)
    BY DEF Kept
  <2>2. CASE v = 13
    <3>1. ColumnsAt(v) = Append(ColumnsAt(v - 1), "pr_number")
      BY <2>2 DEF ColumnsAt
    <3> QED BY <1>3, <2>1, <2>2, <3>1
  <2>3. CASE v = 17
    <3>1. ColumnsAt(v) = Append(ColumnsAt(v - 1), "triggered_by")
      BY <2>3 DEF ColumnsAt
    <3> QED BY <1>3, <2>1, <2>3, <3>1
  <2> QED BY <2>2, <2>3
<1>5. ASSUME NEW t \in DOMAIN d.rows PROVE RowKept(e.rows[t], t, v)
  <2>1. RowKept(d.rows[t], t, v - 1)
    BY DEF Kept
  <2>2. Range(ColumnsAt(v)) = Range(ColumnsAt(v - 1)) \cup {col}
    <3>1. CASE v = 13
      BY <3>1, ColumnNames
    <3>2. CASE v = 17
      BY <3>2, ColumnNames
    <3> QED BY <3>1, <3>2
  <2>3. e.rows[t] = [k \in DOMAIN d.rows[t] \cup {col} |->
                       IF k \in DOMAIN d.rows[t] THEN d.rows[t][k] ELSE value]
    BY <1>3 DEF Extend
  <2> QED BY <2>1, <2>2, <2>3 DEF RowKept
<1>6. ChildrenAt(e.children, v)
  BY <1>3, ChildrenFurther
<1>7. Kept(e, v)
  BY <1>3, <1>4, <1>5, <1>6 DEF Kept, Latest
<1> QED BY <1>7 DEF e

\* v15.
LEMMA BackfillKept ==
  ASSUME NEW d, Kept(d, 14)
  PROVE  Kept(Backfill(d), 15)
<1> DEFINE e == Backfill(d)
<1>1. DOMAIN d = DBFields
  BY DEF Kept
<1>2. /\ DOMAIN e = DBFields /\ e.refused = d.refused /\ e.types = d.types
      /\ e.children = d.children /\ e.columns = d.columns /\ DOMAIN e.rows = DOMAIN d.rows
      /\ \A t \in DOMAIN d.rows :
           e.rows[t] = IF t = "review_pr"
                       THEN [d.rows[t] EXCEPT !["pr_number"] = "pr_number"] ELSE d.rows[t]
  BY <1>1 DEF Backfill, DBFields
<1> HIDE DEF e
<1>3. ColumnsAt(15) = ColumnsAt(14)
  BY DEF ColumnsAt
<1>4. ASSUME NEW t \in DOMAIN d.rows PROVE RowKept(e.rows[t], t, 15)
  <2>1. RowKept(d.rows[t], t, 14)
    BY DEF Kept
  <2>2. e.rows[t] = IF t = "review_pr"
                       THEN [d.rows[t] EXCEPT !["pr_number"] = "pr_number"] ELSE d.rows[t]
    BY <1>2
  <2> QED BY <1>3, <2>1, <2>2 DEF RowKept
<1>5. ChildrenAt(e.children, 15)
  BY <1>2, ChildrenFurther
<1>6. Kept(e, 15)
  BY <1>2, <1>3, <1>4, <1>5 DEF Kept, Latest
<1> QED BY <1>6 DEF e

\* v20.
LEMMA NullableKept ==
  ASSUME NEW d, Kept(d, 19)
  PROVE  Kept([d EXCEPT !.children["test_gen_results"].nullable = TRUE], 20)
<1> DEFINE e == [d EXCEPT !.children["test_gen_results"].nullable = TRUE]
<1>1. DOMAIN d = DBFields
  BY DEF Kept
<1>2. /\ DOMAIN e = DBFields /\ e.refused = d.refused /\ e.types = d.types
      /\ e.columns = d.columns /\ e.rows = d.rows
      /\ e.children = [d.children EXCEPT !["test_gen_results"] =
                         [d.children["test_gen_results"] EXCEPT !.nullable = TRUE]]
  BY <1>1 DEF DBFields
<1> HIDE DEF e
<1>3. ChildrenAt(d.children, 19)
  BY DEF Kept
<1>4. ChildrenAt(e.children, 20)
  BY <1>2, <1>3 DEF ChildrenAt
<1>5. ~e.refused
  BY <1>2 DEF Kept
<1>6. Kept(e, 20)
  BY <1>2, <1>4, <1>5, KeptFurther
<1> QED BY <1>6 DEF e

\* A copy by position into the same columns is a copy.
LEMMA PositionsAgree ==
  ASSUME NEW d, NEW v \in 13..25, d.columns = ColumnsAt(v), NEW t \in DOMAIN d.rows
  PROVE  /\ DOMAIN CopyByPosition(ColumnsAt(v), d) = DOMAIN d.rows
         /\ DOMAIN CopyByPosition(ColumnsAt(v), d)[t] = Range(ColumnsAt(v))
         /\ \A col \in Range(ColumnsAt(v)) :
              CopyByPosition(ColumnsAt(v), d)[t][col] = d.rows[t][col]
<1> DEFINE columns == ColumnsAt(v)
           place(col) == CHOOSE i \in DOMAIN columns : columns[i] = col
<1>1. \A col \in Range(columns) : columns[place(col)] = col
  BY DEF Range
<1>2. CopyByPosition(columns, d) =
        [u \in DOMAIN d.rows |-> [col \in Range(columns) |-> d.rows[u][columns[place(col)]]]]
  BY DEF CopyByPosition
<1> HIDE DEF columns, place
<1>3. \A col \in Range(columns) : CopyByPosition(columns, d)[t][col] = d.rows[t][col]
  BY <1>1, <1>2
<1>4. /\ DOMAIN CopyByPosition(columns, d) = DOMAIN d.rows
      /\ DOMAIN CopyByPosition(columns, d)[t] = Range(columns)
  BY <1>2
<1> QED BY <1>3, <1>4 DEF columns

\* v16, v18, v21, v23, v24.
LEMMA RebuildKept ==
  ASSUME NEW d, NEW v \in {16, 18, 21, 23, 24}, Kept(d, v - 1),
         NEW new \in TaskTypes, NEW columns, columns = ColumnsAt(v), NEW on, ~on
  PROVE  Kept(RebuildTasks(d, d.types \cup {new}, columns, "*", on), v)
<1> DEFINE e == RebuildTasks(d, d.types \cup {new}, columns, "*", on)
<1>1. DOMAIN d = DBFields /\ ~d.refused /\ d.columns = ColumnsAt(v - 1)
      /\ DOMAIN d.rows \subseteq d.types /\ d.types \subseteq TaskTypes
  BY DEF Kept
<1>2. ColumnsAt(v) = ColumnsAt(v - 1)
  BY DEF ColumnsAt
<1>3. DOMAIN d.rows \subseteq d.types \cup {new}
  BY <1>1
<1>4. Len(columns) = Len(d.columns)
  BY <1>1, <1>2
<1>5. /\ DOMAIN e = DBFields /\ e.refused = d.refused /\ e.children = d.children
      /\ e.types = d.types \cup {new} /\ e.columns = columns
      /\ e.rows = CopyByPosition(columns, d)
  BY <1>1, <1>3, <1>4 DEF RebuildTasks, DropTasks, DBFields
<1> HIDE DEF e
<1>6. DOMAIN e.rows = DOMAIN d.rows
  BY <1>5 DEF CopyByPosition
<1>7. ASSUME NEW t \in DOMAIN d.rows PROVE RowKept(e.rows[t], t, v)
  <2>1. RowKept(d.rows[t], t, v - 1)
    BY DEF Kept
  <2>2. /\ DOMAIN e.rows[t] = Range(ColumnsAt(v))
        /\ \A col \in Range(ColumnsAt(v)) : e.rows[t][col] = d.rows[t][col]
    <3>1. v \in 13..25 /\ d.columns = ColumnsAt(v)
      BY <1>1, <1>2
    <3> QED BY <1>5, <3>1, PositionsAgree
  <2> QED BY <1>2, <2>1, <2>2 DEF RowKept
<1>8. ChildrenAt(e.children, v)
  BY <1>5, ChildrenFurther
<1>9. Kept(e, v)
  BY <1>1, <1>5, <1>6, <1>7, <1>8 DEF Kept, Latest
<1> QED BY <1>9 DEF e

\* v26.
LEMMA CodeFromDocKept ==
  ASSUME NEW d, Kept(d, 25), NEW on, ~on
  PROVE  Kept(CodeFromDoc(d, on), 26)
<1> DEFINE columns == <<"head", "pr_number", "outcome", "triggered_by", "times">>
           e == RebuildTasks(d, TaskTypes, columns, "names", on)
           f == CreateChild(e, "code_from_doc_results", TRUE)
<1>1. /\ columns = ColumnsAt(26)
      /\ ColumnsAt(25) = <<"head", "outcome", "times", "pr_number", "triggered_by">>
  BY DEF ColumnsAt
<1>2. DOMAIN d = DBFields /\ ~d.refused /\ d.columns = ColumnsAt(25)
      /\ DOMAIN d.rows \subseteq d.types /\ d.types \subseteq TaskTypes
  BY DEF Kept
<1>3. Len(columns) = Len(d.columns)
  BY <1>1, <1>2
<1>4. Range(ColumnsAt(26)) = Range(ColumnsAt(25))
  BY ColumnNames
<1> HIDE DEF columns
<1>5. /\ DOMAIN e = DBFields /\ e.refused = d.refused /\ e.children = d.children
      /\ e.types = TaskTypes /\ e.columns = columns /\ e.rows = CopyByName(columns, d)
  BY <1>2, <1>3 DEF RebuildTasks, DropTasks, DBFields
<1>6. /\ DOMAIN f = DBFields /\ f.columns = e.columns /\ f.types = e.types /\ f.rows = e.rows
      /\ f.refused = e.refused
      /\ DOMAIN f.children = DOMAIN e.children \cup {"code_from_doc_results"}
      /\ \A t \in DOMAIN e.children : f.children[t] = e.children[t]
      /\ "code_from_doc_results" \notin DOMAIN e.children =>
           f.children["code_from_doc_results"] = [nullable |-> TRUE, linked |-> TRUE]
  <2> HIDE DEF e
  <2> QED BY <1>5 DEF CreateChild, Extend, DBFields
<1>7. CodeFromDoc(d, on) = f
  BY DEF CodeFromDoc, columns
<1> HIDE DEF e, f
<1>8. ASSUME NEW t \in DOMAIN d.rows PROVE RowKept(f.rows[t], t, 26)
  <2>1. RowKept(d.rows[t], t, 25)
    BY DEF Kept
  <2>2. f.rows[t] = [col \in Range(columns) |-> d.rows[t][col]]
    BY <1>5, <1>6 DEF CopyByName
  <2> QED BY <1>1, <1>4, <2>1, <2>2 DEF RowKept
<1>9. DOMAIN f.rows = DOMAIN d.rows
  BY <1>5, <1>6 DEF CopyByName
<1>10. ChildrenAt(f.children, 26)
  <2>1. ChildrenAt(e.children, 26)
    BY <1>5, ChildrenFurther
  <2>2. ASSUME NEW t \in DOMAIN f.children
        PROVE  /\ f.children[t].linked
               /\ f.children[t].nullable
               /\ DOMAIN f.children[t] = {"nullable", "linked"}
    <3>1. CASE t \in DOMAIN e.children
      BY <1>6, <2>1, <3>1 DEF ChildrenAt
    <3>2. CASE t \notin DOMAIN e.children
      <4>1. f.children[t] = [nullable |-> TRUE, linked |-> TRUE]
        BY <1>6, <2>2, <3>2
      <4> QED BY <4>1
    <3> QED BY <3>1, <3>2
  <2> QED BY <2>2 DEF ChildrenAt
<1>11. Kept(f, 26)
  BY <1>1, <1>2, <1>5, <1>6, <1>8, <1>9, <1>10 DEF Kept, Latest
<1> QED BY <1>7, <1>11

\* No migration is refused by what the ones before it left, and each keeps it.
LEMMA MigrateKept ==
  ASSUME NEW d, NEW v \in 1..26, Kept(d, v - 1)
  PROVE  Kept(Migrate(v, d, ForeignKeys(v)), v)
<1> DEFINE columns == <<"head", "outcome", "times", "pr_number">>
           more == <<"head", "outcome", "times", "pr_number", "triggered_by">>
<1>0. v \in {16, 18, 21, 23, 24, 26} => ~ForeignKeys(v)
  BY DEF ForeignKeys
<1>1. CASE v = 1
  <2>1. Migrate(v, d, ForeignKeys(v)) = FirstTasks(1, d)
    BY <1>1 DEF Migrate
  <2> QED BY <1>1, <2>1, FirstTasksKept
<1>2. CASE v \in {2, 3, 4, 5, 6, 8, 9, 10, 11, 12, 14, 25}
  <2>1. Migrate(v, d, ForeignKeys(v)) = d
    <3>1. CASE v \in 2..6
      BY <3>1 DEF Migrate, FirstTasks
    <3>2. CASE v \in 8..12
      <4>1. Migrate(v, d, ForeignKeys(v)) = ReviewResults(v, d)
        BY <3>2 DEF Migrate
      <4>2. v # 7
        BY <3>2
      <4> QED BY <4>1, <4>2, Zenon DEF ReviewResults
    <3>3. CASE v = 14
      BY <3>3 DEF Migrate, PRNumber
    <3>4. CASE v = 25
      BY <3>4 DEF Migrate, IterationTables
    <3> QED BY <1>2, <3>1, <3>2, <3>3, <3>4
  <2>2. /\ DOMAIN d = DBFields /\ ~d.refused
        /\ v \in 1..25 /\ v - 1 \notin {0, 12, 16, 25} /\ v # 15
    BY <1>2 DEF Kept
  <2>3. ChildrenAt(d.children, v)
    BY <1>2, ChildrenFurther
  <2>4. Kept(d, v)
    BY <2>2, <2>3, KeptFurther
  <2> QED BY <2>1, <2>4
<1>3. CASE v = 7
  <2>1. Migrate(v, d, ForeignKeys(v)) = CreateChild(d, "review_results", TRUE)
    BY <1>3 DEF Migrate, ReviewResults
  <2>2. v \in 2..25 /\ v - 1 \notin {12, 16} /\ v \notin {15, 20}
    BY <1>3
  <2>3. "review_results" = "test_gen_results" <=> v = 19
    BY <1>3
  <2>4. Kept(CreateChild(d, "review_results", TRUE), v)
    BY <2>2, <2>3, CreateChildKept, Zenon
  <2> QED BY <2>1, <2>4
<1>4. CASE v \in {13, 17}
  <2>1. Migrate(v, d, ForeignKeys(v)) =
          AddColumn(d, IF v = 13 THEN "pr_number" ELSE "triggered_by",
                       IF v = 13 THEN "null" ELSE "triggered_by")
    BY <1>4 DEF Migrate, PRNumber, DailyReportAndAnalysis
  <2> QED BY <1>4, <2>1, AddColumnKept
<1>5. CASE v = 15
  <2>1. Migrate(v, d, ForeignKeys(v)) = Backfill(d)
    BY <1>5 DEF Migrate, PRNumber
  <2> QED BY <1>5, <2>1, BackfillKept
<1>6. CASE v = 16
  <2>1. Migrate(v, d, ForeignKeys(v)) =
          RebuildTasks(d, d.types \cup {"gen_daily_report"}, columns, "*", ForeignKeys(v))
    BY <1>6 DEF Migrate, DailyReportAndAnalysis
  <2>2. columns = ColumnsAt(v) /\ "gen_daily_report" \in TaskTypes
    BY <1>6 DEF ColumnsAt, TaskTypes
  <2> QED BY <1>0, <1>6, <2>1, <2>2, RebuildKept
<1>7. CASE v \in {18, 21, 23, 24}
  <2> DEFINE new == IF v = 18 THEN "analyze_issue" ELSE IF v = 21 THEN "run_e2e"
                    ELSE IF v = 23 THEN "triage_e2e" ELSE "fix_review"
  <2>1. Migrate(v, d, ForeignKeys(v)) = RebuildTasks(d, d.types \cup {new}, more, "*", ForeignKeys(v))
    <3>1. CASE v = 18
      BY <3>1 DEF Migrate, DailyReportAndAnalysis
    <3>2. CASE v = 21
      BY <3>2 DEF Migrate, EndToEnd
    <3>3. CASE v = 23
      BY <3>3 DEF Migrate, EndToEnd
    <3>4. CASE v = 24
      BY <3>4 DEF Migrate, IterationTables
    <3> QED BY <1>7, <3>1, <3>2, <3>3, <3>4
  <2>2. more = ColumnsAt(v) /\ new \in TaskTypes
    BY <1>7 DEF ColumnsAt, TaskTypes
  <2> QED BY <1>0, <1>7, <2>1, <2>2, RebuildKept
<1>8. CASE v = 19
  <2>1. Migrate(v, d, ForeignKeys(v)) = CreateChild(d, "test_gen_results", FALSE)
    BY <1>8 DEF Migrate, TestGenResults
  <2>2. v \in 2..25 /\ v - 1 \notin {12, 16} /\ v \notin {15, 20}
    BY <1>8
  <2> QED BY <1>8, <2>1, <2>2, CreateChildKept
<1>9. CASE v = 20
  <2>1. Migrate(v, d, ForeignKeys(v)) = [d EXCEPT !.children["test_gen_results"].nullable = TRUE]
    BY <1>9 DEF Migrate, TestGenResults
  <2> QED BY <1>9, <2>1, NullableKept
<1>10. CASE v = 22
  <2>1. Migrate(v, d, ForeignKeys(v)) = CreateChild(d, "e2e_results", TRUE)
    BY <1>10 DEF Migrate, EndToEnd
  <2>2. v \in 2..25 /\ v - 1 \notin {12, 16} /\ v \notin {15, 20}
    BY <1>10
  <2>3. "e2e_results" = "test_gen_results" <=> v = 19
    BY <1>10
  <2>4. Kept(CreateChild(d, "e2e_results", TRUE), v)
    BY <2>2, <2>3, CreateChildKept, Zenon
  <2> QED BY <2>1, <2>4
<1>11. CASE v = 26
  <2>1. Migrate(v, d, ForeignKeys(v)) = CodeFromDoc(d, ForeignKeys(v))
    BY <1>11 DEF Migrate
  <2> QED BY <1>0, <1>11, <2>1, CodeFromDocKept
<1> QED BY <1>1, <1>2, <1>3, <1>4, <1>5, <1>6, <1>7, <1>8, <1>9, <1>10, <1>11

\* The schema of every version is what the migrations up to it make.
SchemaStep(v, d) == [Migrate(v, d, ForeignKeys(v)) EXCEPT !.version = v]

\* The recursive definition, one version at a time.
LEMMA SchemaUnfolds ==
  ASSUME NEW v \in 0..Latest
  PROVE  Schema[v] = IF v = 0 THEN NoDB ELSE SchemaStep(v, Schema[v - 1])
<1> DEFINE Fits(g, n) == g = [u \in 0..n |-> IF u = 0 THEN NoDB ELSE SchemaStep(u, g[u - 1])]
           Bad == {n \in Nat : ~\E g : Fits(g, n)}
<1>1. \E g : Fits(g, 0)
  <2> DEFINE g == [u \in 0..0 |-> NoDB]
  <2>1. g = [u \in 0..0 |-> IF u = 0 THEN NoDB ELSE SchemaStep(u, g[u - 1])]
    OBVIOUS
  <2> QED BY <2>1
<1>2. ASSUME NEW n \in Nat, NEW g, Fits(g, n) PROVE \E h : Fits(h, n + 1)
  <2> DEFINE h == [u \in 0..(n + 1) |-> IF u = n + 1 THEN SchemaStep(n + 1, g[n]) ELSE g[u]]
  <2>1. ASSUME NEW u \in 0..(n + 1)
        PROVE  h[u] = IF u = 0 THEN NoDB ELSE SchemaStep(u, h[u - 1])
    <3>1. CASE u = n + 1
      <4>1. n \in 0..(n + 1) /\ n # n + 1 /\ u - 1 = n /\ u # 0
        BY <3>1
      <4> QED BY <3>1, <4>1
    <3>2. CASE u # n + 1
      <4>1. u \in 0..n /\ (u # 0 => u - 1 \in 0..(n + 1) /\ u - 1 # n + 1)
        BY <3>2
      <4>2. g[u] = IF u = 0 THEN NoDB ELSE SchemaStep(u, g[u - 1])
        BY <1>2, <4>1
      <4> QED BY <3>2, <4>1, <4>2
    <3> QED BY <3>1, <3>2
  <2>2. h = [u \in 0..(n + 1) |-> h[u]]
    OBVIOUS
  <2>3. Fits(h, n + 1)
    <3> HIDE DEF h
    <3> QED BY <2>1, <2>2
  <2> QED BY <2>3
<1>3. \E g : Fits(g, Latest)
  <2> HIDE DEF Fits
  <2>1. CASE Bad = {}
    BY <2>1 DEF Latest
  <2>2. CASE Bad # {}
    <3> DEFINE m == Min(Bad)
    <3>1. m \in Bad /\ \A n \in Bad : m <= n
      <4>1. Bad \in SUBSET Nat
        OBVIOUS
      <4> HIDE DEF Bad
      <4> QED BY <2>2, <4>1, MinIsLeast
    <3> HIDE DEF m
    <3>2. m \in Nat /\ m # 0 /\ ~\E g : Fits(g, m)
      BY <1>1, <3>1
    <3>3. m - 1 \in Nat /\ m - 1 \notin Bad /\ (m - 1) + 1 = m
      BY <3>1, <3>2
    <3>4. \E g : Fits(g, m)
      BY <1>2, <3>3
    <3> QED BY <3>2, <3>4
  <2> QED BY <2>1, <2>2
<1>4. Fits(Schema, Latest)
  BY <1>3 DEF Schema, SchemaStep
<1>5. ASSUME NEW g, Fits(g, Latest)
      PROVE  g[v] = IF v = 0 THEN NoDB ELSE SchemaStep(v, g[v - 1])
  BY <1>5
<1> HIDE DEF Fits
<1> QED BY <1>4, <1>5

\* ... of which every one is kept.
LEMMA SchemaKept ==
  ASSUME NEW v \in 0..Latest
  PROVE  Kept(Schema[v], v) /\ Schema[v].version = v
<1> DEFINE Good(n) == Kept(Schema[n], n) /\ Schema[n].version = n
           Bad == {n \in 0..Latest : ~Good(n)}
<1>1. Good(0)
  <2>1. Schema[0] = NoDB
    BY SchemaUnfolds DEF Latest
  <2>2. Kept(NoDB, 0) /\ NoDB.version = 0
    BY DEF Kept, NoDB, DBFields, ColumnsAt, Latest, TaskTypes, ChildrenAt
  <2> QED BY <2>1, <2>2
<1>2. ASSUME NEW n \in 1..26, Good(n - 1) PROVE Good(n)
  <2> DEFINE e == Migrate(n, Schema[n - 1], ForeignKeys(n))
  <2>1. Schema[n] = [e EXCEPT !.version = n]
    <3>1. n \in 0..Latest /\ n # 0
      BY DEF Latest
    <3> QED BY <3>1, SchemaUnfolds DEF SchemaStep
  <2>2. Kept(e, n)
    BY <1>2, MigrateKept
  <2> HIDE DEF e
  <2> QED BY <2>1, <2>2 DEF Kept, DBFields
<1> HIDE DEF Good
<1>3. CASE Bad = {}
  BY <1>3 DEF Good
<1>4. CASE Bad # {}
  <2> DEFINE m == Min(Bad)
  <2>1. m \in Bad /\ \A n \in Bad : m <= n
    <3>1. Bad \in SUBSET Nat
      BY DEF Latest
    <3> HIDE DEF Bad
    <3> QED BY <1>4, <3>1, MinIsLeast
  <2> HIDE DEF m
  <2>2. m \in 0..26 /\ m # 0 /\ ~Good(m)
    BY <1>1, <2>1 DEF Latest
  <2>3. m \in 1..26 /\ m - 1 \in 0..Latest /\ ~(m <= m - 1)
    BY <2>2 DEF Latest
  <2>4. Good(m - 1)
    BY <2>1, <2>3
  <2> QED BY <1>2, <2>2, <2>3, <2>4
<1> QED BY <1>3, <1>4

\* ... also with rows and results in it.
LEMMA InstalledKept ==
  ASSUME NEW v \in 0..Latest
  PROVE  Kept(Installed(v), v) /\ Installed(v).version = v
<1> DEFINE d == Schema[v]
           e == Installed(v)
<1>1. Kept(d, v) /\ d.version = v
  BY SchemaKept
<1>2. /\ DOMAIN e = DBFields /\ e.version = d.version /\ e.refused = d.refused
      /\ e.columns = d.columns /\ e.types = d.types /\ e.children = d.children
      /\ e.rows = [t \in d.types |-> FullRow(d, t)]
  BY <1>1 DEF Installed, Kept, DBFields
<1> HIDE DEF d, e
<1>3. ASSUME NEW t \in d.types PROVE RowKept(e.rows[t], t, v)
  <2>1. e.rows[t] = [col \in Range(d.columns) |->
                       IF col = "pr_number" /\ t # "review_pr" THEN "null" ELSE col]
    BY <1>2 DEF FullRow
  <2> QED BY <1>1, <2>1 DEF RowKept, Kept
<1>4. v = 0 => d.types = {}
  BY <1>1 DEF Kept
<1>5. Kept(e, v)
  BY <1>1, <1>2, <1>3, <1>4 DEF Kept
<1> QED BY <1>1, <1>2, <1>5 DEF e

\* Every step of a process that opens the store keeps the upgrade safe.
LEMMA UpgradeSteps ==
  ASSUME UpgradeInv, "none" \notin Procs, NEW p \in Procs,
         OpenStore(p) \/ MigrationStep(p) \/ MigrationFails(p) \/ CloseStore(p)
  PROVE  UpgradeInv'
<1>1. CASE OpenStore(p) \/ BeginMigration(p)
  BY <1>1 DEF UpgradeInv, StoreTypes, OpenStore, BeginMigration, MTo, Latest
<1>2. CASE ExecuteMigration(p)
  <2> DEFINE v == mig[p].seen + 1
             e == Migrate(v, db, ForeignKeys(v))
  <2>1. mig[p].at = "reading" /\ v \in 1..26 /\ db' = db
    BY <1>2 DEF ExecuteMigration, UpgradeInv, StoreTypes, Latest
  <2>2. CASE db.version # mig[p].seen
    BY <1>2, <2>2 DEF ExecuteMigration, UpgradeInv, StoreTypes, MTo
  <2>3. CASE db.version = mig[p].seen
    <3>1. ~e.refused
      <4>1. Kept(db, v - 1)
        BY <2>1, <2>3 DEF UpgradeInv, StoreTypes
      <4>2. Kept(e, v)
        BY <2>1, <4>1, MigrateKept
      <4> HIDE DEF e, v
      <4> QED BY <4>2 DEF Kept
    <3>2. MTo(p, "writing") /\ writer' = p /\ writer = "none"
      BY <1>2, <2>3, <3>1 DEF ExecuteMigration
    <3> QED BY <2>1, <2>3, <3>2 DEF UpgradeInv, StoreTypes, MTo
  <2> QED BY <2>2, <2>3
<1>3. CASE CommitMigration(p)
  <2> DEFINE v == mig[p].seen + 1
             e == Migrate(v, db, ForeignKeys(v))
  <2>1. /\ mig[p].at = "writing" /\ v \in 1..26 /\ db.version = v - 1 /\ writer = p
        /\ db' = [e EXCEPT !.version = v] /\ MTo(p, "migrating") /\ writer' = "none"
    BY <1>3 DEF CommitMigration, UpgradeInv, StoreTypes, Latest
  <2>2. Kept(db, v - 1)
    BY <2>1 DEF UpgradeInv, StoreTypes
  <2>3. Kept(e, v)
    BY <2>1, <2>2, MigrateKept
  <2> HIDE DEF e, v
  <2>4. Kept(db', v) /\ db'.version = v /\ v \in 0..Latest
    BY <2>1, <2>3 DEF Kept, DBFields, Latest
  <2>5. \A q \in Procs \ {p} : mig[q].at # "writing" /\ mig[q].at # "open"
    <3>1. db.version # Latest
      BY <2>1 DEF Latest
    <3> QED BY <2>1, <3>1 DEF UpgradeInv, StoreTypes
  <2> QED BY <2>1, <2>4, <2>5 DEF UpgradeInv, StoreTypes, MTo
<1>4. CASE MigrationFails(p)
  BY <1>4 DEF MigrationFails, UpgradeInv, StoreTypes, MTo, Release
<1>5. CASE CloseStore(p)
  BY <1>5 DEF CloseStore, Closed, UpgradeInv, StoreTypes, Release, Latest
<1> QED BY <1>1, <1>2, <1>3, <1>4, <1>5 DEF MigrationStep

\* UpgradeInv implies the property.
LEMMA UpgradeSafe ==
  ASSUME UpgradeInv
  PROVE  UpgradesAreSafe
<1>1. \A t \in DOMAIN db.rows : RowKept(db.rows[t], t, db.version)
  BY DEF UpgradeInv, StoreTypes, Kept
<1>2. ChildrenAt(db.children, db.version)
  BY DEF UpgradeInv, StoreTypes, Kept
<1>3. \A p \in Procs : mig[p].at = "open" => db.version = 26 /\ db.types = TaskTypes
  BY DEF UpgradeInv, StoreTypes, Kept, Latest
<1>4. \A p \in Procs : mig[p].at # "refused"
  BY DEF UpgradeInv, StoreTypes
<1> QED BY <1>1, <1>2, <1>3, <1>4 DEF UpgradesAreSafe, RowKept, ChildrenAt

\* Every installed version satisfies UpgradeInv.
LEMMA UpgradeInit ==
  ASSUME NEW v \in 0..Latest, db = Installed(v), MigInit
  PROVE  UpgradeInv
<1>1. Kept(db, v) /\ db.version = v
  BY InstalledKept
<1> QED BY <1>1 DEF UpgradeInv, StoreTypes, MigInit, Closed, Latest

-----------------------------------------------------------------------------
(* What is closed is not in use.                                           *)

UsesUnchanged == srv' = srv /\ busy' = busy

\* What changes neither the server nor what its goroutines use.
LEMMA OtherSteps ==
  ASSUME StoreStep("server") \/ CommandStep \/ Reload \/ NotifyTask
           \/ (\E explicit \in BOOLEAN : StartCommand(explicit))
           \/ CrashCommand \/ (\E p \in Procs : StoreFault(p)) \/ Watch \/ EditFile
           \/ UNCHANGED vars
  PROVE  UsesUnchanged
BY DEF UsesUnchanged, StoreStep, CommandStep, OpenCommandStore, EndCommand, Reload, NotifyTask,
       StartCommand, CrashCommand, StoreFault, Watch, EditFile, vars

\* What a step of the start changes ...
LEMMA ReachEffect ==
  ASSUME TypeOK, NEW at, NEW opened, Reach(at, opened)
  PROVE  /\ srv'.at = at /\ srv'.config = srv.config /\ srv'.open = srv.open \cup opened
         /\ srv'.closer = srv.closer /\ srv'.overrun = srv.overrun
BY DEF TypeOK, Reach

\* ... and what its failure does.
LEMMA StartFailsEffect ==
  ASSUME TypeOK, NEW at, StartFails(at)
  PROVE  /\ srv'.at = "cleanup" /\ srv'.config = srv.config
         /\ srv'.open = srv.open /\ srv'.closer = srv.closer
         /\ srv'.overrun = srv.overrun \cup (IF "asynq" \in srv.open THEN {"start"} ELSE {})
BY DEF TypeOK, StartFails

\* What is in use stays covered, action by action.
LEMMA UseSteps ==
  ASSUME TypeOK, UseInv, [Next]_vars
  PROVE  UseInv'
<1> USE DEF UseInv
<1>1. srv \in [at : {"down", "loaded", "store", "redis", "pool", "asynq", "scheduler", "serving",
                   "closing", "cleanup", "draining", "docker_closed", "queue_closed",
                   "store_closed"},
             why : {"none", "config", "settings", "store", "start", "stopped", "limit", "crash"},
             config : Contents, stop : BOOLEAN,
             open : SUBSET {"store", "queue", "docker", "pool", "asynq", "scheduler",
                            "recovery", "collector", "http"},
             closer : {"none", "http", "asynq", "loops", "done"},
             overrun : SUBSET {"start", "http", "asynq", "limit", "pool"}]
     /\ busy \in [Users -> {{}, {"store"}, {"docker"}, {"store", "queue"}}]
  BY DEF TypeOK, Servers
<1>2. CASE \E explicit \in BOOLEAN : StartServer(explicit)
  <2>1. busy' = busy /\ srv.at = "down" /\ srv'.at \in {"down", "loaded"} /\ srv'.open = {}
        /\ srv'.closer = "none" /\ srv'.overrun = {}
    BY <1>2 DEF StartServer, NoServer
  <2>2. busy = Idle
    BY <1>1, <2>1 DEF OpenInOrder
  <2> QED BY <2>1, <2>2 DEF OpenInOrder, CloserInOrder, WorkIsCovered, Idle, Users
<1>3. CASE OpenServerStore
  BY <1>1, <1>3 DEF OpenInOrder, CloserInOrder, WorkIsCovered, Idle, Users, OpenServerStore,
     Exit, NoServer
<1>4. CASE ServerStoreFails
  BY <1>1, <1>4 DEF OpenInOrder, CloserInOrder, WorkIsCovered, Idle, Users, ServerStoreFails,
     Exit, NoServer
<1>5. CASE ConnectRedis
  <2>1. busy' = busy /\ srv.at = "store" /\ srv'.at \in {"redis", "cleanup"}
        /\ srv'.open = srv.open \cup {"store", "queue"} /\ srv'.closer = srv.closer
        /\ srv'.overrun = srv.overrun
    <3>1. srv.at = "store" /\ srv.open = {} /\ busy' = busy
      BY <1>5 DEF ConnectRedis, OpenInOrder
    <3>2. CASE Reach("redis", {"store", "queue"})
      BY <3>1, <3>2, ReachEffect
    <3>3. CASE srv' = [srv EXCEPT !.at = "cleanup", !.why = "start", !.open = {"store", "queue"}]
      BY <1>1, <3>1, <3>3
    <3> QED BY <1>5, <3>2, <3>3 DEF ConnectRedis
  <2>2. busy = Idle /\ srv.open = {} /\ srv.closer = "none"
    BY <1>1, <2>1 DEF OpenInOrder, CloserInOrder
  <2> QED BY <2>1, <2>2 DEF OpenInOrder, CloserInOrder, WorkIsCovered, Idle, Users
<1>6. CASE CreatePool
  <2>1. busy' = busy /\ srv.at = "redis" /\ srv.closer = "none"
    BY <1>6 DEF CreatePool, CloserInOrder
  <2>2. CASE Reach("pool", {"docker", "pool"})
    BY <1>1, <2>1, <2>2, ReachEffect DEF OpenInOrder, CloserInOrder, WorkIsCovered
  <2>3. CASE StartFails("pool")
    BY <1>1, <2>1, <2>3, StartFailsEffect DEF OpenInOrder, CloserInOrder, WorkIsCovered
  <2>4. CASE srv' = [srv EXCEPT !.at = "cleanup", !.why = "settings", !.open = @ \cup {"docker"}]
    BY <1>1, <2>1, <2>4 DEF OpenInOrder, CloserInOrder, WorkIsCovered
  <2> QED BY <1>6, <2>2, <2>3, <2>4 DEF CreatePool
<1>7. CASE StartAsynq
  <2>1. busy' = busy /\ srv.at = "pool" /\ srv.closer = "none"
    BY <1>7 DEF StartAsynq, CloserInOrder
  <2>2. CASE Reach("asynq", {"asynq"})
    BY <1>1, <2>1, <2>2, ReachEffect DEF OpenInOrder, CloserInOrder, WorkIsCovered
  <2>3. CASE StartFails("asynq")
    BY <1>1, <2>1, <2>3, StartFailsEffect DEF OpenInOrder, CloserInOrder, WorkIsCovered
  <2> QED BY <1>7, <2>2, <2>3 DEF StartAsynq
<1>8. CASE StartScheduler
  <2>1. busy' = busy /\ srv.at = "asynq" /\ srv.closer = "none"
    BY <1>8 DEF StartScheduler, CloserInOrder
  <2>2. CASE Reach("scheduler", IF Config.dailyReport.enabled THEN {"scheduler"} ELSE {})
    BY <1>1, <2>1, <2>2, ReachEffect DEF OpenInOrder, CloserInOrder, WorkIsCovered
  <2>3. CASE StartFails("scheduler")
    BY <1>1, <2>1, <2>3, StartFailsEffect DEF OpenInOrder, CloserInOrder, WorkIsCovered
  <2> QED BY <1>8, <2>2, <2>3 DEF StartScheduler
<1>9. CASE Listen
  <2>1. busy' = busy /\ srv.at = "scheduler" /\ srv.closer = "none"
    BY <1>9 DEF Listen, CloserInOrder
  <2>2. CASE Reach("serving", {"recovery", "collector", "http"})
    BY <1>1, <2>1, <2>2, ReachEffect DEF OpenInOrder, CloserInOrder, WorkIsCovered
  <2>3. CASE StartFails("listen")
    BY <1>1, <2>1, <2>3, StartFailsEffect DEF OpenInOrder, CloserInOrder, WorkIsCovered
  <2> QED BY <1>9, <2>2, <2>3 DEF Listen
<1>10. CASE BeginShutdown
  BY <1>1, <1>10 DEF OpenInOrder, CloserInOrder, WorkIsCovered, Idle, Users, BeginShutdown, Quietly
<1>11. CASE CloseLayer("http") \/ CloseLayer("asynq")
  BY <1>1, <1>11 DEF OpenInOrder, CloserInOrder, WorkIsCovered, Idle, Users, CloseLayer, Quietly
<1>12. CASE LeaveLayer("http", "request", "asynq")
  BY <1>1, <1>12 DEF OpenInOrder, CloserInOrder, WorkIsCovered, Idle, Users, LeaveLayer, Quietly
<1>13. CASE LeaveLayer("asynq", "handler", "loops")
  BY <1>1, <1>13 DEF OpenInOrder, CloserInOrder, WorkIsCovered, Idle, Users, LeaveLayer, Quietly
<1>14. CASE CancelLoops
  BY <1>1, <1>14 DEF OpenInOrder, CloserInOrder, WorkIsCovered, Idle, Users, CancelLoops
<1>15. CASE ShutdownDone
  BY <1>1, <1>15 DEF OpenInOrder, CloserInOrder, WorkIsCovered, Idle, Users, ShutdownDone, Quietly
<1>16. CASE ShutdownLimit
  BY <1>1, <1>16 DEF OpenInOrder, CloserInOrder, WorkIsCovered, Idle, Users, ShutdownLimit
<1>17. CASE ClosePool
  BY <1>1, <1>17 DEF OpenInOrder, CloserInOrder, WorkIsCovered, Idle, Users, ClosePool, Quietly
<1>18. CASE CloseDocker
  BY <1>1, <1>18 DEF OpenInOrder, CloserInOrder, WorkIsCovered, Idle, Users, CloseDocker, Quietly
<1>19. CASE CloseQueue
  BY <1>1, <1>19 DEF OpenInOrder, CloserInOrder, WorkIsCovered, Idle, Users, CloseQueue, Quietly
<1>20. CASE CloseServerStore
  BY <1>1, <1>20 DEF OpenInOrder, CloserInOrder, WorkIsCovered, Idle, Users, CloseServerStore
<1>21. CASE ExitServer
  BY <1>1, <1>21 DEF OpenInOrder, CloserInOrder, WorkIsCovered, Idle, Users, ExitServer, Exit,
     NoServer
<1>22. CASE CrashServer
  BY <1>1, <1>22 DEF OpenInOrder, CloserInOrder, WorkIsCovered, Idle, Users, CrashServer,
     Exit, NoServer
<1>23. CASE Signal
  BY <1>1, <1>23 DEF OpenInOrder, CloserInOrder, WorkIsCovered, Idle, Users, Signal
<1>24. CASE \E u \in Users : BeginWork(u)
  BY <1>1, <1>24 DEF OpenInOrder, CloserInOrder, WorkIsCovered, Idle, Users, BeginWork, Alone,
     EngineOf
<1>25. CASE RunInPool
  BY <1>1, <1>25 DEF OpenInOrder, CloserInOrder, WorkIsCovered, Idle, Users, RunInPool, Alone
<1>26. CASE WriteOutcome
  BY <1>1, <1>26 DEF OpenInOrder, CloserInOrder, WorkIsCovered, Idle, Users, WriteOutcome, Alone
<1>27. CASE \E u \in Users : EndWork(u)
  BY <1>1, <1>27 DEF OpenInOrder, CloserInOrder, WorkIsCovered, Idle, Users, EndWork, Alone
<1>28. CASE UsesUnchanged
  BY <1>28 DEF UsesUnchanged, OpenInOrder, CloserInOrder, WorkIsCovered, Idle, Users
<1> QED
  BY OtherSteps, <1>2, <1>3, <1>4, <1>5, <1>6, <1>7, <1>8, <1>9, <1>10, <1>11, <1>12, <1>13,
     <1>14, <1>15, <1>16, <1>17, <1>18, <1>19, <1>20, <1>21, <1>22, <1>23, <1>24, <1>25,
        <1>26, <1>27, <1>28 DEF Next, ServerStep

-----------------------------------------------------------------------------
(* What a step may change at all.                                          *)

\* How a step may change the store.
StoreChange ==
  \/ UNCHANGED storeVars
  \/ \E p \in Procs : OpenStore(p) \/ MigrationStep(p) \/ MigrationFails(p) \/ CloseStore(p)

\* No action does anything else to the store.
LEMMA StoreSteps ==
  ASSUME [Next]_vars
  PROVE  StoreChange
<1> USE ProcsAssumption DEF StoreChange
<1>1. CASE ServerStep
  BY <1>1 DEF ServerStep, OpenServerStore, StoreStep, ServerStoreFails, ConnectRedis,
       CreatePool, StartAsynq, StartScheduler, Listen, BeginShutdown, CloseLayer, LeaveLayer,
       CancelLoops, ShutdownDone, ClosePool, CloseDocker, CloseQueue, CloseServerStore,
       ExitServer, Quietly
<1>2. CASE CommandStep
  BY <1>2 DEF CommandStep, OpenCommandStore, StoreStep, EndCommand
<1> QED BY <1>1, <1>2 DEF Next, StartServer, StartCommand, Reload, BeginWork, EndWork, RunInPool,
      WriteOutcome, NotifyTask, Alone, Signal, ShutdownLimit, CrashServer, CrashCommand,
      StoreFault, Watch, EditFile, vars, storeVars

ConfigChange ==
  \/ UNCHANGED configVars
  \/ \E explicit \in BOOLEAN : StartServer(explicit)
  \/ mgr' \in {NoManager, Stopped(mgr)} /\ UNCHANGED file
  \/ WatchConfig \/ WatcherStep
  \/ \E i \in plan.contents : Edit(i)

\* No action does anything else to the file and the manager.
LEMMA ConfigSteps ==
  ASSUME [Next]_vars
  PROVE  ConfigChange
<1> USE ProcsAssumption DEF ConfigChange
<1>1. CASE ServerStep
  BY <1>1 DEF ServerStep, OpenServerStore, StoreStep, ServerStoreFails, ConnectRedis,
       CreatePool, StartAsynq, StartScheduler, Listen, BeginShutdown, CloseLayer, LeaveLayer,
       CancelLoops, ShutdownDone, ClosePool, CloseDocker, CloseQueue, CloseServerStore,
       ExitServer, Exit, Quietly, configVars
<1>2. CASE CommandStep
  BY <1>2 DEF CommandStep, OpenCommandStore, StoreStep, EndCommand
<1> QED BY <1>1, <1>2 DEF Next, StartCommand, Reload, BeginWork, EndWork, RunInPool,
      WriteOutcome, NotifyTask, Alone, Signal, ShutdownLimit, CrashServer, Exit, CrashCommand,
      StoreFault, Watch, EditFile, vars, configVars

\* What is loaded is an accepted content of the file.
LEMMA LoadedIsAccepted ==
  ASSUME ManagerTypes, NEW explicit, NEW i \in Load(explicit)
  PROVE  i \in Contents \ {0} /\ i \in DOMAIN Files /\ Accepted[i]
<1>1. DOMAIN Files = 1..Len(Files) /\ Len(Files) \in Nat
  BY FilesAssumption
<1>2. i \in ReadBy(explicit) /\ Accepted[i]
  BY DEF Load
<1>3. i = EnvOnly \/ (i = file /\ file # 0)
  BY <1>2 DEF ReadBy
<1> QED BY <1>1, <1>2, <1>3, FilesAssumption DEF ManagerTypes, Contents

\* The manager keeps to its type.
LEMMA ManagerSteps ==
  ASSUME ManagerTypes, ConfigChange, plan \in Situations
  PROVE  ManagerTypes'
<1>1. 0 \in Contents /\ 0 \in Tries
  BY FilesAssumption DEF Contents, Tries
<1>2. CASE UNCHANGED configVars
  BY <1>2 DEF Managers, ManagerTypes, configVars
<1>3. ASSUME NEW explicit \in BOOLEAN, StartServer(explicit) PROVE ManagerTypes'
  <2>1. CASE Load(explicit) = {}
    BY <1>3, <2>1 DEF StartServer, ManagerTypes
  <2>2. CASE Load(explicit) # {}
    <3>1. PICK i \in Load(explicit) :
            mgr' = [NoManager EXCEPT !.explicit = explicit, !.current = i] /\ file' = file
      BY <1>3, <2>2 DEF StartServer
    <3>2. NoManager \in Managers
      BY <1>1 DEF Managers, NoManager
    <3>3. i \in Contents /\ file \in Contents
      BY LoadedIsAccepted DEF Managers, ManagerTypes
    <3> QED BY <1>3, <3>1, <3>2, <3>3 DEF Managers, ManagerTypes
  <2> QED BY <2>1, <2>2
<1>4. CASE mgr' \in {NoManager, Stopped(mgr)} /\ UNCHANGED file
  <2>1. CASE mgr' = NoManager
    BY <1>1, <1>4, <2>1 DEF Managers, ManagerTypes, NoManager
  <2>2. CASE mgr' = Stopped(mgr)
    BY <1>4, <2>2 DEF Managers, ManagerTypes, Stopped
  <2> QED BY <1>4, <2>1, <2>2
<1>5. CASE WatchConfig
  BY <1>5 DEF Managers, ManagerTypes, WatchConfig
<1>6. CASE TakeEvent \/ TimerFires
  <2>1. CASE TakeEvent
    BY <2>1 DEF Managers, ManagerTypes, TakeEvent
  <2>2. CASE TimerFires
    <3>1. mgr' = [mgr EXCEPT !.watch = "reading", !.timer = FALSE, !.tries = 0]
            /\ file' = file
      BY <2>2 DEF TimerFires
    <3> QED BY <1>1, <3>1 DEF Managers, ManagerTypes
  <2> QED BY <1>6, <2>1, <2>2
<1>7. CASE ReloadReads
  <2>1. CASE file = 0 /\ mgr.tries < 3
    <3>1. mgr' = [mgr EXCEPT !.tries = @ + 1] /\ file' = file
      BY <1>7, <2>1 DEF ReloadReads
    <3>2. mgr.tries + 1 \in Tries
      BY <2>1 DEF Managers, ManagerTypes, Tries
    <3> QED BY <1>1, <3>1, <3>2 DEF Managers, ManagerTypes
  <2>2. CASE ~(file = 0 /\ mgr.tries < 3)
    <3>1. /\ file' = file
          /\ \/ mgr' = [mgr EXCEPT !.watch = "idle", !.tries = 0]
             \/ mgr' = [mgr EXCEPT !.watch = "publishing", !.read = file, !.tries = 0]
      BY <1>7, <2>2 DEF ReloadReads
    <3>2. CASE mgr' = [mgr EXCEPT !.watch = "idle", !.tries = 0]
      BY <1>1, <3>1, <3>2 DEF Managers, ManagerTypes
    <3>3. CASE mgr' = [mgr EXCEPT !.watch = "publishing", !.read = file, !.tries = 0]
      BY <1>1, <3>1, <3>3 DEF Managers, ManagerTypes
    <3> QED BY <3>1, <3>2, <3>3
  <2> QED BY <2>1, <2>2
<1>8. CASE Publish
  BY <1>1, <1>8 DEF Managers, ManagerTypes, Publish
<1>9. CASE SeeStop
  BY <1>9 DEF Managers, ManagerTypes, SeeStop
<1>10. ASSUME NEW i \in plan.contents, Edit(i) PROVE ManagerTypes'
  <2>1. i \in Contents
    BY DEF Situations
  <2> QED BY <1>10, <2>1 DEF Managers, ManagerTypes, Edit
<1> QED BY <1>2, <1>3, <1>4, <1>5, <1>6, <1>7, <1>8, <1>9, <1>10 DEF ConfigChange, WatcherStep

\* The use each goroutine makes of what the server opened.
Uses == [Users -> {{}, {"store"}, {"docker"}, {"store", "queue"}}]

\* A server that is down is one of Servers.
LEMMA NoServerIsOne == NoServer \in Servers /\ Idle \in Uses
<1>1. 0 \in Contents
  BY FilesAssumption DEF Contents
<1> QED BY <1>1 DEF NoServer, Servers, Idle, Uses

\* ... whatever it ended for.
LEMMA EndedIsOne ==
  ASSUME NEW why \in {"none", "config", "settings", "store", "start", "stopped", "limit", "crash"}
  PROVE  [NoServer EXCEPT !.why = why] \in Servers
BY NoServerIsOne DEF Servers

\* A step of the start keeps the server one ...
LEMMA ReachKeeps ==
  ASSUME srv \in Servers,
         NEW at \in {"redis", "pool", "asynq", "scheduler", "serving"},
         NEW opened \in SUBSET {"store", "queue", "docker", "pool", "asynq", "scheduler",
                                "recovery", "collector", "http"},
         Reach(at, opened)
  PROVE  srv' \in Servers
BY DEF Reach, Servers

\* ... also a start that fails.
LEMMA StartFailsKeeps ==
  ASSUME srv \in Servers, NEW at, StartFails(at)
  PROVE  srv' \in Servers
BY DEF StartFails, Servers

\* The server and its goroutines keep to their types.
LEMMA ServerSteps ==
  ASSUME TypeOK, [Next]_vars
  PROVE  srv' \in Servers /\ busy' \in Uses
<1>1. srv \in Servers /\ busy \in Uses
  BY DEF TypeOK, Uses
<1>2. CASE \E explicit \in BOOLEAN : StartServer(explicit)
  <2>1. PICK explicit \in BOOLEAN : StartServer(explicit)
    BY <1>2
  <2>2. CASE Load(explicit) = {}
    <3>1. srv' = [NoServer EXCEPT !.why = "config"] /\ busy' = busy
      BY <2>1, <2>2 DEF StartServer
    <3> QED BY <1>1, <3>1, EndedIsOne
  <2>3. CASE Load(explicit) # {}
    <3>1. PICK i \in Load(explicit) :
            srv' = [NoServer EXCEPT !.at = "loaded", !.config = i] /\ busy' = busy
      BY <2>1, <2>3 DEF StartServer
    <3>2. i \in Contents
      BY LoadedIsAccepted DEF TypeOK
    <3> QED BY <1>1, <3>1, <3>2, NoServerIsOne DEF Servers
  <2> QED BY <2>2, <2>3
<1>3. CASE \E why \in {"settings", "store", "crash"} : Exit(why)
  BY <1>3, NoServerIsOne, EndedIsOne DEF Exit
<1>4. CASE ExitServer
  <2>1. srv.why \in {"none", "config", "settings", "store", "start", "stopped", "limit", "crash"}
    BY <1>1 DEF Servers
  <2> QED BY <1>4, <2>1, NoServerIsOne, EndedIsOne DEF ExitServer, Exit
<1>5. CASE OpenServerStore
  <2>1. CASE srv' = [srv EXCEPT !.at = "store"] /\ UNCHANGED <<busy, mgr>>
    BY <1>1, <2>1 DEF Servers
  <2> QED BY <1>3, <1>5, <2>1 DEF OpenServerStore
<1>6. CASE ServerStoreFails \/ CrashServer
  BY <1>3, <1>6 DEF ServerStoreFails, CrashServer
<1>7. CASE ConnectRedis \/ CreatePool
  <2>1. busy' = busy
    BY <1>7 DEF ConnectRedis, CreatePool
  <2>2. CASE srv' = [srv EXCEPT !.at = "cleanup", !.why = "start", !.open = {"store", "queue"}]
    BY <1>1, <2>1, <2>2 DEF Servers
  <2>3. CASE srv' = [srv EXCEPT !.at = "cleanup", !.why = "settings", !.open = @ \cup {"docker"}]
    BY <1>1, <2>1, <2>3 DEF Servers
  <2>4. CASE Reach("redis", {"store", "queue"}) \/ Reach("pool", {"docker", "pool"})
    BY <1>1, <2>1, <2>4, ReachKeeps
  <2>5. CASE StartFails("pool")
    BY <1>1, <2>1, <2>5, StartFailsKeeps
  <2> QED BY <1>7, <2>2, <2>3, <2>4, <2>5 DEF ConnectRedis, CreatePool
<1>8. CASE StartAsynq \/ StartScheduler \/ Listen
  <2>1. busy' = busy
    BY <1>8 DEF StartAsynq, StartScheduler, Listen
  <2>2. CASE StartFails("asynq") \/ StartFails("scheduler") \/ StartFails("listen")
    BY <1>1, <2>1, <2>2, StartFailsKeeps
  <2>3. CASE \/ Reach("asynq", {"asynq"}) \/ Reach("serving", {"recovery", "collector", "http"})
             \/ Reach("scheduler", IF Config.dailyReport.enabled THEN {"scheduler"} ELSE {})
    BY <1>1, <2>1, <2>3, ReachKeeps
  <2> QED BY <1>8, <2>2, <2>3 DEF StartAsynq, StartScheduler, Listen
<1>9. CASE BeginShutdown
  BY <1>1, <1>9 DEF Servers, Uses, BeginShutdown, Quietly
<1>10. CASE CloseLayer("http") \/ CloseLayer("asynq")
  BY <1>1, <1>10 DEF Servers, Uses, CloseLayer, Quietly
<1>11. CASE LeaveLayer("http", "request", "asynq")
  BY <1>1, <1>11 DEF Servers, Uses, LeaveLayer, Quietly
<1>12. CASE LeaveLayer("asynq", "handler", "loops")
  BY <1>1, <1>12 DEF Servers, Uses, LeaveLayer, Quietly
<1>13. CASE CancelLoops
  BY <1>1, <1>13 DEF Servers, Uses, CancelLoops, Quietly
<1>14. CASE ShutdownDone
  BY <1>1, <1>14 DEF Servers, Uses, ShutdownDone, Quietly
<1>15. CASE ShutdownLimit
  BY <1>1, <1>15 DEF Servers, Uses, ShutdownLimit, Quietly
<1>16. CASE ClosePool
  BY <1>1, <1>16 DEF Servers, Uses, ClosePool, Quietly
<1>17. CASE CloseDocker
  BY <1>1, <1>17 DEF Servers, Uses, CloseDocker, Quietly
<1>18. CASE CloseQueue
  BY <1>1, <1>18 DEF Servers, Uses, CloseQueue, Quietly
<1>19. CASE CloseServerStore
  BY <1>1, <1>19 DEF Servers, Uses, CloseServerStore, Quietly
<1>20. CASE Signal
  BY <1>1, <1>20 DEF Servers, Uses, Signal, Quietly
<1>21. CASE \E u \in Users : BeginWork(u) \/ EndWork(u)
  BY <1>1, <1>21 DEF Servers, Uses, BeginWork, EndWork, Alone, Users
<1>22. CASE RunInPool
  BY <1>1, <1>22 DEF Servers, Uses, RunInPool, Alone, Users
<1>23. CASE WriteOutcome
  BY <1>1, <1>23 DEF Servers, Uses, WriteOutcome, Alone, Users
<1>24. CASE UsesUnchanged
  BY <1>1, <1>24 DEF UsesUnchanged
<1> QED
  BY OtherSteps, <1>2, <1>3, <1>4, <1>5, <1>6, <1>7, <1>8, <1>9, <1>10, <1>11, <1>12, <1>13,
     <1>14, <1>15, <1>16, <1>17, <1>18, <1>19, <1>20, <1>21, <1>22, <1>23, <1>24 DEF Next,
        ServerStep

\* What the environment has left of its plan.
Spends ==
  plan' = plan \/ \E what \in {"starts", "commands", "faults", "work", "messages", "edits"} :
                    Spend(what)

\* Spending keeps the plan what it is.
LEMMA SpendKeeps ==
  ASSUME plan \in Situations, Spends
  PROVE  plan' \in Situations
<1>1. CASE Spend("starts")
  BY <1>1 DEF Spend, Situations
<1>2. CASE Spend("commands")
  BY <1>2 DEF Spend, Situations
<1>3. CASE Spend("faults")
  BY <1>3 DEF Spend, Situations
<1>4. CASE Spend("work")
  BY <1>4 DEF Spend, Situations
<1>5. CASE Spend("messages")
  BY <1>5 DEF Spend, Situations
<1>6. CASE Spend("edits")
  BY <1>6 DEF Spend, Situations
<1> QED BY <1>1, <1>2, <1>3, <1>4, <1>5, <1>6 DEF Spends

\* No action does anything else to the plan.
LEMMA PlanSteps ==
  ASSUME [Next]_vars
  PROVE  Spends
<1> USE DEF Spends
<1>1. CASE ServerStep
  BY <1>1 DEF ServerStep, OpenServerStore, StoreStep, ServerStoreFails, ConnectRedis,
       CreatePool, StartAsynq, StartScheduler, Listen, StartFails, BeginShutdown, CloseLayer,
       LeaveLayer, CancelLoops, ShutdownDone, ClosePool, CloseDocker, CloseQueue,
       CloseServerStore, ExitServer, Quietly
<1>2. CASE CommandStep
  BY <1>2 DEF CommandStep, OpenCommandStore, StoreStep, EndCommand
<1> QED BY <1>1, <1>2 DEF Next, StartServer, StartCommand, Reload, BeginWork, EndWork, RunInPool,
      WriteOutcome, NotifyTask, Signal, ShutdownLimit, CrashServer, CrashCommand,
      StoreFault, Watch, EditFile, vars

Commands == [at : {"down", "loaded", "store"}, config : Contents]

\* The command loads a configuration, opens the store and ends.
LEMMA CommandSteps ==
  ASSUME cli \in Commands, ManagerTypes, [Next]_vars
  PROVE  cli' \in Commands
<1>0. 0 \in Contents
  BY FilesAssumption DEF Contents
<1>1. CASE UNCHANGED cli
  BY <1>1
<1>2. CASE cli' = NoCommand
  BY <1>0, <1>2 DEF NoCommand, Commands
<1>3. CASE \E explicit \in BOOLEAN : StartCommand(explicit)
  <2>1. PICK explicit \in BOOLEAN : StartCommand(explicit)
    BY <1>3
  <2>2. PICK i \in Load(explicit) : cli' = [at |-> "loaded", config |-> i]
    BY <2>1 DEF StartCommand
  <2>3. i \in Contents
    BY LoadedIsAccepted
  <2> QED BY <2>2, <2>3 DEF Commands
<1>4. CASE cli' = [cli EXCEPT !.at = "store"]
  BY <1>4 DEF Commands
<1>5. CASE ServerStep
  BY <1>1, <1>5 DEF ServerStep, OpenServerStore, StoreStep, ServerStoreFails, ConnectRedis,
       CreatePool, StartAsynq, StartScheduler, Listen, BeginShutdown, CloseLayer,
       LeaveLayer, CancelLoops, ShutdownDone, ClosePool, CloseDocker, CloseQueue,
       CloseServerStore, ExitServer, Quietly
<1>6. CASE CommandStep
  BY <1>1, <1>2, <1>4, <1>6 DEF CommandStep, OpenCommandStore, StoreStep, EndCommand
<1> QED BY <1>1, <1>2, <1>3, <1>5, <1>6 DEF Next, StartServer, Reload, BeginWork, EndWork,
   RunInPool,
      WriteOutcome, NotifyTask, Alone, Signal, ShutdownLimit, CrashServer, CrashCommand,
      StoreFault, Watch, EditFile, vars

\* How a step may change the configuration the server runs with, and the routers
\* that were built from it.
RoutersChange ==
  \/ /\ srv'.config = srv.config /\ (srv'.at = "down" <=> srv.at = "down")
     /\ UNCHANGED notifyVars \/ NotifyTask
  \/ srv'.at = "down" /\ srv'.config = 0 /\ (UNCHANGED notifyVars \/ EmptyRouters)
  \/ /\ EmptyRouters
     /\ \E explicit \in BOOLEAN : \E i \in Load(explicit) : srv'.at = "loaded" /\ srv'.config = i

\* No action does anything else to the configuration and the routers.
LEMMA RoutersSteps ==
  ASSUME TypeOK, [Next]_vars
  PROVE  RoutersChange
<1>1. srv \in Servers
  BY DEF TypeOK
<1>2. CASE \E explicit \in BOOLEAN : StartServer(explicit)
  BY <1>2 DEF StartServer, NoServer, RoutersChange
<1>3. ASSUME NEW why, Exit(why), UNCHANGED notifyVars PROVE RoutersChange
  BY <1>3 DEF Exit, NoServer, RoutersChange
<1>4. CASE UNCHANGED srv /\ (UNCHANGED notifyVars \/ NotifyTask)
  BY <1>4 DEF RoutersChange
<1>5. CASE OpenServerStore \/ ServerStoreFails \/ ExitServer \/ CrashServer
  <2>1. CASE srv.at = "loaded" /\ srv' = [srv EXCEPT !.at = "store"] /\ UNCHANGED notifyVars
    BY <1>1, <2>1 DEF RoutersChange, Servers
  <2> QED BY <1>3, <1>5, <2>1 DEF OpenServerStore, ServerStoreFails, ExitServer, CrashServer
<1>6. CASE ConnectRedis \/ CreatePool \/ StartAsynq \/ StartScheduler \/ Listen
  <2>1. srv.at # "down" /\ UNCHANGED notifyVars
    BY <1>6 DEF ConnectRedis, CreatePool, StartAsynq, StartScheduler, Listen
  <2> SUFFICES srv'.config = srv.config /\ srv'.at # "down"
    BY <2>1 DEF RoutersChange
  <2>2. CASE ConnectRedis
    <3>1. CASE srv' = [srv EXCEPT !.at = "cleanup", !.why = "start", !.open = {"store", "queue"}]
      BY <1>1, <3>1 DEF Servers
    <3> QED BY <2>2, <3>1, ReachEffect DEF ConnectRedis
  <2>3. CASE CreatePool
    <3>1. CASE srv' = [srv EXCEPT !.at = "cleanup", !.why = "settings", !.open = @ \cup {"docker"}]
      BY <1>1, <3>1 DEF Servers
    <3> QED BY <2>3, <3>1, ReachEffect, StartFailsEffect DEF CreatePool
  <2>4. CASE StartAsynq \/ Listen
    BY <2>4, ReachEffect, StartFailsEffect DEF StartAsynq, Listen
  <2>5. CASE StartScheduler
    BY <2>5, ReachEffect, StartFailsEffect DEF StartScheduler
  <2> QED BY <1>6, <2>2, <2>3, <2>4, <2>5
<1>7. CASE BeginShutdown \/ (\E layer \in {"http", "asynq"} : CloseLayer(layer))
           \/ LeaveLayer("http", "request", "asynq") \/ LeaveLayer("asynq", "handler", "loops")
  BY <1>1, <1>7 DEF BeginShutdown, CloseLayer, LeaveLayer, Quietly, RoutersChange, Servers
<1>8. CASE CancelLoops \/ ShutdownDone \/ ShutdownLimit \/ Signal
  BY <1>1, <1>8 DEF CancelLoops, ShutdownDone, ShutdownLimit, Signal, Quietly, RoutersChange,
     Servers
<1>9. CASE ClosePool \/ CloseDocker \/ CloseQueue \/ CloseServerStore
  BY <1>1, <1>9 DEF ClosePool, CloseDocker, CloseQueue, CloseServerStore, Quietly,
     RoutersChange, Servers
<1>10. CASE StoreStep("server") \/ CommandStep \/ Reload \/ CrashCommand \/ Watch \/ EditFile
            \/ (\E p \in Procs : StoreFault(p)) \/ UNCHANGED vars
            \/ (\E explicit \in BOOLEAN : StartCommand(explicit))
  BY <1>4, <1>10 DEF StoreStep, CommandStep, OpenCommandStore, EndCommand, Reload, CrashCommand,
       Watch, EditFile, StoreFault, StartCommand, vars, notifyVars
<1>11. CASE (\E u \in Users : BeginWork(u) \/ EndWork(u)) \/ RunInPool \/ WriteOutcome \/ NotifyTask
  BY <1>4, <1>11 DEF BeginWork, EndWork, RunInPool, WriteOutcome, NotifyTask, Alone
<1> QED
  BY <1>2, <1>5, <1>6, <1>7, <1>8, <1>9, <1>10, <1>11 DEF Next, ServerStep

-----------------------------------------------------------------------------
(* Messages and the configuration in force.                                *)

\* A content that is in the file is a configuration.
LEMMA ContentIsConfig ==
  ASSUME NEW i \in Contents \ {0}
  PROVE  i \in DOMAIN Files /\ IsConfig(Files[i])
<1>1. DOMAIN Files = 1..Len(Files) /\ Len(Files) \in Nat
  BY FilesAssumption
<1>2. i \in DOMAIN Files
  BY <1>1 DEF Contents
<1> QED BY <1>2, FilesAssumption

RouterTypes == routers \in [Repos \cup {"*"} -> Repos \cup {"none"}]

\* Sending a message with an accepted configuration keeps what is cached apart,
\* and the message arrives.
LEMMA SendSteps ==
  ASSUME NEW c, IsConfig(c), Valid(c), NEW repo \in Repos, NEW m, Send(c, repo, m),
         RouterTypes,
         \A r \in Repos : routers[r] \in {"none", r},
         routers["*"] = "none" \/ ~HasRepoNotifyOverride(c, routers["*"])
  PROVE  /\ RouterTypes'
         /\ \A r \in Repos : routers'[r] \in {"none", r}
         /\ routers'["*"] = "none" \/ ~HasRepoNotifyOverride(c, routers'["*"])
         /\ sent'.repo = repo
         /\ Reachable(c, repo) => sent'.outcome # <<>>
         /\ "feishu" \in DOMAIN sent'.outcome =>
              sent'.feishu = IF ResolveFeishuOverride(c, repo) # "nil" THEN repo ELSE "global"
<1> DEFINE key == IF HasRepoNotifyOverride(c, repo) THEN repo ELSE "*"
           owner == IF routers[key] = "none" THEN repo ELSE routers[key]
           router == NewRouter(c, owner)
<1>1. "*" \notin Repos /\ "none" \notin Repos
  BY ReposAssumption
<1>2. CASE routers[key] = "none" /\ ~Builds(c, repo)
  <2>1. sent' = [NothingSent EXCEPT !.repo = repo] /\ routers' = routers
    BY <1>2 DEF Send
  <2>2. sent'.repo = repo /\ sent'.outcome = <<>>
    BY <2>1 DEF NothingSent
  <2>3. ~Reachable(c, repo)
    BY <1>2, ValidBuilds
  <2>4. DOMAIN sent'.outcome = {}
    BY <2>2
  <2> QED BY <2>1, <2>2, <2>3, <2>4 DEF RouterTypes
<1>3. CASE ~(routers[key] = "none" /\ ~Builds(c, repo))
  <2>1. /\ routers' = [routers EXCEPT ![key] = owner]
        /\ sent' = [repo |-> repo, feishu |-> router.feishu, outcome |-> Outcome(router, repo, m)]
    BY <1>3 DEF Send
  <2>2. /\ key \in Repos \cup {"*"} /\ owner \in Repos
        /\ key \in Repos => owner = key
        /\ key = "*" => ~HasRepoNotifyOverride(c, owner)
    BY <1>1 DEF RouterTypes
  <2>3. router.feishu = IF ResolveFeishuOverride(c, owner) # "nil" THEN owner ELSE "global"
    BY DEF NewRouter
  <2>4. ResolveFeishuOverride(c, owner) # "nil" <=> ResolveFeishuOverride(c, repo) # "nil"
    BY <1>1, <2>2, SharedHasNoAddress
  <2>5. owner = repo \/ ResolveFeishuOverride(c, owner) = "nil"
    BY <1>1, <2>2, SharedHasNoAddress
  <2>6. Outcome(router, repo, m) # <<>>
    BY OutcomeOfOne
  <2> HIDE DEF owner, router
  <2>7. /\ sent'.repo = repo /\ sent'.outcome # <<>> /\ sent'.feishu = router.feishu
    BY <2>1, <2>6
  <2>8. /\ RouterTypes' /\ \A r \in Repos : routers'[r] \in {"none", r}
        /\ routers'["*"] = "none" \/ ~HasRepoNotifyOverride(c, routers'["*"])
    BY <1>1, <2>1, <2>2 DEF RouterTypes
  <2> QED BY <2>3, <2>4, <2>5, <2>7, <2>8
<1> QED BY <1>2, <1>3

\* What the cache holds and what was sent last, with what is in force.
LEMMA MessageSteps ==
  ASSUME TypeOK, UseInv, InForce, RoutersKept, MessagesArrive, RoutersChange
  PROVE  RouterTypes' /\ RoutersKept' /\ MessagesArrive'
<1>1. RouterTypes
  BY DEF TypeOK, RouterTypes
<1>2. CASE EmptyRouters
  <2>1. /\ \A key \in Repos \cup {"*"} : routers'[key] = "none"
        /\ routers' \in [Repos \cup {"*"} -> Repos \cup {"none"}]
        /\ sent'.repo = "none"
    BY <1>2 DEF EmptyRouters, NothingSent
  <2> QED BY <2>1 DEF RouterTypes, RoutersKept, MessagesArrive
<1>3. CASE srv'.config = 0 /\ UNCHANGED notifyVars
  BY <1>1, <1>3 DEF notifyVars, RouterTypes, RoutersKept, MessagesArrive
<1>4. CASE srv'.config = srv.config /\ UNCHANGED notifyVars
  BY <1>1, <1>4 DEF notifyVars, RouterTypes, RoutersKept, MessagesArrive, Config
<1>5. CASE srv'.config = srv.config /\ NotifyTask
  <2>1. PICK t \in Tasks : Notify(Config, t)
    BY <1>5 DEF NotifyTask
  <2>2. PICK m \in MessageOf(t) : Send(Config, t.repo, m)
    BY <2>1 DEF Notify
  <2>3. srv.at # "down"
    <3>1. busy["handler"] = {"store"}
      BY <1>5 DEF NotifyTask
    <3>2. busy # Idle
      BY <3>1 DEF Idle, Users
    <3> QED BY <3>2 DEF UseInv, OpenInOrder
  <2>4. srv.config # 0 /\ Accepted[srv.config] /\ srv.config \in Contents
    BY <2>3 DEF InForce, TypeOK, Servers
  <2>5. PICK i : i = srv.config
    OBVIOUS
  <2> DEFINE c == Files[i]
  <2>6. IsConfig(c) /\ i \in DOMAIN Files
    BY <2>4, <2>5, ContentIsConfig
  <2>7. Valid(c)
    BY <2>4, <2>5, <2>6 DEF Accepted
  <2>8. t.repo \in Repos
    BY TasksAssumption
  <2>9. Config = c /\ Config' = c /\ srv.config # 0
    BY <1>5, <2>4, <2>5 DEF Config
  <2>10. Send(c, t.repo, m)
    BY <2>2, <2>9
  <2>11. /\ \A r \in Repos : routers[r] \in {"none", r}
         /\ routers["*"] = "none" \/ ~HasRepoNotifyOverride(c, routers["*"])
    BY <2>9 DEF RoutersKept
  <2> HIDE DEF c
  <2>12. /\ RouterTypes'
         /\ \A r \in Repos : routers'[r] \in {"none", r}
         /\ routers'["*"] = "none" \/ ~HasRepoNotifyOverride(c, routers'["*"])
         /\ sent'.repo = t.repo
         /\ Reachable(c, t.repo) => sent'.outcome # <<>>
         /\ "feishu" \in DOMAIN sent'.outcome =>
              sent'.feishu = IF ResolveFeishuOverride(c, t.repo) # "nil" THEN t.repo ELSE "global"
    BY <1>1, <2>6, <2>7, <2>8, <2>10, <2>11, SendSteps
  <2>13. RoutersKept'
    BY <2>9, <2>12 DEF RoutersKept
  <2>14. MessagesArrive'
    BY <2>9, <2>12 DEF MessagesArrive
  <2> QED BY <2>12, <2>13, <2>14
<1> QED BY <1>2, <1>3, <1>4, <1>5 DEF RoutersChange

\* A configuration comes into force at the start or with a reload, and only one
\* that was accepted.
LEMMA ForceSteps ==
  ASSUME TypeOK, InForce, RoutersChange, ConfigChange
  PROVE  InForce'
<1>1. \A i \in {srv.config, mgr.current} \ {0} : Accepted[i]
  BY DEF InForce
<1>2. srv \in Servers /\ mgr \in Managers /\ 0 \in Contents
  BY FilesAssumption DEF TypeOK, ManagerTypes, Contents
<1>3. srv'.config = 0 <=> srv'.at = "down"
  <2>1. CASE srv'.config = srv.config /\ (srv'.at = "down" <=> srv.at = "down")
    BY <2>1 DEF InForce
  <2>2. ASSUME NEW explicit, NEW i \in Load(explicit), srv'.at = "loaded", srv'.config = i
        PROVE  srv'.config # 0 /\ srv'.at # "down"
    <3>1. i \in Contents \ {0}
      BY LoadedIsAccepted DEF TypeOK
    <3> QED BY <2>2, <3>1
  <2> QED BY <2>1, <2>2 DEF RoutersChange
<1>4. srv'.config # 0 => Accepted[srv'.config]
  <2>1. CASE srv'.config = srv.config
    BY <1>1, <2>1
  <2>2. ASSUME NEW explicit, NEW i \in Load(explicit), srv'.config = i
        PROVE  Accepted[srv'.config]
    BY <2>2, LoadedIsAccepted DEF TypeOK
  <2> QED BY <2>1, <2>2 DEF RoutersChange
<1>5. mgr'.current # 0 => Accepted[mgr'.current]
  <2>1. CASE mgr'.current = mgr.current
    BY <1>1, <2>1
  <2>2. ASSUME NEW explicit \in BOOLEAN, StartServer(explicit)
        PROVE  mgr'.current # 0 => Accepted[mgr'.current]
    <3>1. CASE UNCHANGED mgr
      BY <2>1, <3>1
    <3>2. ASSUME NEW i \in Load(explicit),
                 mgr' = [NoManager EXCEPT !.explicit = explicit, !.current = i]
          PROVE  Accepted[mgr'.current]
      <4>1. mgr'.current = i
        BY <3>2 DEF NoManager
      <4> QED BY <4>1, LoadedIsAccepted DEF TypeOK
    <3> QED BY <2>2, <3>1, <3>2 DEF StartServer
  <2>3. CASE mgr' = NoManager
    BY <2>3 DEF NoManager
  <2>4. CASE mgr' = Stopped(mgr)
    BY <1>2, <2>1, <2>4 DEF Stopped, Managers
  <2>5. CASE Publish
    BY <1>1, <1>2, <2>5 DEF Publish, Managers
  <2>6. CASE WatchConfig \/ TakeEvent \/ TimerFires \/ SeeStop
    BY <1>2, <2>1, <2>6 DEF WatchConfig, TakeEvent, TimerFires, SeeStop, Managers
  <2>7. CASE ReloadReads
    BY <1>2, <2>1, <2>7 DEF ReloadReads, Managers
  <2>8. ASSUME NEW i, Edit(i) PROVE mgr'.current = mgr.current
    BY <1>2, <2>8 DEF Edit, Managers
  <2> QED BY <2>1, <2>2, <2>3, <2>4, <2>5, <2>6, <2>7, <2>8 DEF ConfigChange, WatcherStep,
     configVars
<1> QED BY <1>3, <1>4, <1>5 DEF InForce

-----------------------------------------------------------------------------
(* The inductive invariant and the theorems.                               *)

\* The parts of the inductive invariant together.
LEMMA InvariantSteps ==
  ASSUME ServerInv, [Next]_vars
  PROVE  ServerInv'
<1>1. TypeOK /\ UpgradeInv /\ UseInv /\ InForce /\ RoutersKept /\ MessagesArrive
  BY DEF ServerInv
<1>2. RoutersChange /\ ConfigChange /\ StoreChange
  BY <1>1, RoutersSteps, ConfigSteps, StoreSteps
<1>3. UseInv'
  BY <1>1, UseSteps
<1>4. InForce'
  BY <1>1, <1>2, ForceSteps
<1>5. RouterTypes' /\ RoutersKept' /\ MessagesArrive'
  BY <1>1, <1>2, MessageSteps
<1>6. UpgradeInv'
  <2>1. "none" \notin Procs
    BY ProcsAssumption
  <2>2. CASE UNCHANGED storeVars
    BY <1>1, <2>2 DEF storeVars, UpgradeInv, StoreTypes
  <2> QED BY <1>1, <1>2, <2>1, <2>2, UpgradeSteps DEF StoreChange
<1>7. TypeOK'
  <2>1. srv' \in Servers /\ busy' \in Uses
    BY <1>1, ServerSteps
  <2>2. cli' \in Commands /\ plan' \in Situations
    BY <1>1, CommandSteps, PlanSteps, SpendKeeps DEF TypeOK, Commands
  <2>3. ManagerTypes'
    BY <1>1, <1>2, ManagerSteps DEF TypeOK
  <2>4. StoreTypes'
    BY <1>6 DEF UpgradeInv
  <2> QED BY <1>5, <2>1, <2>2, <2>3, <2>4 DEF TypeOK, Uses, Commands, RouterTypes
<1> QED BY <1>3, <1>4, <1>5, <1>6, <1>7 DEF ServerInv

\* A server that is down, on any installed version, satisfies it.
LEMMA InvariantInit ==
  ASSUME Init
  PROVE  ServerInv
<1>1. PICK p \in Plans : plan = p /\ file = p.file /\ db = Installed(p.version)
  BY DEF Init
<1>2. plan \in Situations /\ file \in Contents /\ p.version \in 0..Latest
  BY <1>1, PlansAssumption DEF Situations
<1>3. UpgradeInv
  BY <1>1, <1>2, UpgradeInit DEF Init
<1>4. 0 \in Contents /\ 0 \in Tries
  BY FilesAssumption DEF Contents, Tries
<1>5. srv = NoServer /\ busy = Idle /\ mgr = NoManager /\ cli = NoCommand
  BY DEF Init
<1>6. /\ routers = [key \in Repos \cup {"*"} |-> "none"] /\ sent.repo = "none"
  BY DEF Init, NotifyInit, NothingSent
<1>7. TypeOK
  <2>1. srv \in Servers /\ busy \in Uses
    BY <1>5, NoServerIsOne
  <2>2. mgr \in Managers
    BY <1>4, <1>5 DEF Managers, NoManager
  <2>3. cli \in Commands
    BY <1>4, <1>5 DEF Commands, NoCommand
  <2>4. RouterTypes
    BY <1>6 DEF RouterTypes
  <2> QED BY <1>2, <1>3, <2>1, <2>2, <2>3, <2>4
       DEF TypeOK, ManagerTypes, UpgradeInv, Uses, Commands, RouterTypes
<1>8. UseInv
  BY <1>5 DEF UseInv, OpenInOrder, CloserInOrder, WorkIsCovered, NoServer, Idle, Users
<1>9. InForce
  BY <1>5 DEF InForce, NoServer, NoManager
<1>10. RoutersKept /\ MessagesArrive
  BY <1>5, <1>6 DEF RoutersKept, MessagesArrive, NoServer
<1> QED BY <1>3, <1>7, <1>8, <1>9, <1>10 DEF ServerInv

\* ServerInv is an inductive invariant.
THEOREM InvariantHolds == Spec => []ServerInv
<1>1. Init => ServerInv
  BY InvariantInit
<1>2. ServerInv /\ [Next]_vars => ServerInv'
  BY InvariantSteps
<1> QED BY <1>1, <1>2, PTL DEF Spec

\* The server, the command, the store and the configuration manager keep to
\* their types.
THEOREM TypeCorrect == Spec => []TypeOK
<1>1. ServerInv => TypeOK
  BY DEF ServerInv
<1> QED BY <1>1, InvariantHolds, PTL

\* Whatever processes migrate one database file together, and wherever they
\* fail, nothing stored is lost and an open store takes every task.
THEOREM UpgradesKeepData == Spec => []UpgradesAreSafe
<1>1. ServerInv => UpgradesAreSafe
  BY UpgradeSafe DEF ServerInv
<1> QED BY <1>1, InvariantHolds, PTL

\* A shutdown closes what is not in use any more, or a time limit is to blame.
THEOREM ClosedInTime == Spec => []ClosedWhenUnused
<1>1. ASSUME ServerInv PROVE ClosedWhenUnused
  <2>1. TypeOK /\ OpenInOrder /\ CloserInOrder /\ WorkIsCovered
    BY <1>1 DEF ServerInv, UseInv
  <2> QED BY <2>1 DEF TypeOK, Servers, OpenInOrder, CloserInOrder, WorkIsCovered,
     ClosedWhenUnused, EngineOf, Users
<1> QED BY <1>1, InvariantHolds, PTL

\* What is in force was accepted, holds together for every repository once its
\* overrides are merged in, and has what serve asks for itself.
THEOREM AcceptedIsConsistent == Spec => []ConfigInForce
<1>1. ASSUME ServerInv PROVE ConfigInForce
  <2>1. TypeOK /\ InForce
    BY <1>1 DEF ServerInv
  <2>2. ASSUME NEW i \in {srv.config, mgr.current} \ {0}
        PROVE  /\ Accepted[i] /\ i \in DOMAIN Files /\ IsConfig(Files[i]) /\ Valid(Files[i])
               /\ ConsistentFor[i]
    <3>1. i \in Contents \ {0} /\ Accepted[i]
      BY <2>1 DEF InForce, TypeOK, Servers, ManagerTypes, Managers
    <3>2. i \in DOMAIN Files /\ IsConfig(Files[i])
      BY <3>1, ContentIsConfig
    <3>3. Valid(Files[i])
      BY <3>1, <3>2 DEF Accepted
    <3>4. \A repo \in Repos : Consistent(Files[i], repo)
      BY <3>2, <3>3, ValidIsConsistent
    <3>5. ConsistentFor[i]
      BY <3>2, <3>4 DEF ConsistentFor
    <3> QED BY <3>1, <3>2, <3>3, <3>5
  <2>3. ASSUME srv.at = "loaded" PROVE Checks(Config)
    <3>1. srv.config # 0
      BY <2>1, <2>3 DEF InForce
    <3>2. IsConfig(Files[srv.config]) /\ Valid(Files[srv.config])
      BY <2>2, <3>1
    <3> QED BY <3>2, ValidIsChecked DEF Config
  <2> QED BY <2>2, <2>3 DEF ConfigInForce
<1> QED BY <1>1, InvariantHolds, PTL

\* A task pushes with the account that opens its pull request, uses the key that
\* is configured for it and has as long as asynq gives it, whatever the file says.
THEOREM TasksFollowConfig == Spec => []TasksRunAsConfigured
<1>1. ServerInv => TasksRunAsConfigured
  <2>1. {"fix_issue", "gen_tests", "code_from_doc"} \subseteq TimedTypes
    BY DEF TimedTypes
  <2> QED BY <2>1, TasksAreConfigured DEF TasksRunAsConfigured
<1> QED BY <1>1, InvariantHolds, PTL

\* With an accepted configuration whose routes name enabled channels, a message
\* finds a router, and its Feishu card the address of its own repository.
THEOREM MessagesDoArrive == Spec => []MessagesArrive
<1>1. ServerInv => MessagesArrive
  BY DEF ServerInv
<1> QED BY <1>1, InvariantHolds, PTL
=============================================================================
