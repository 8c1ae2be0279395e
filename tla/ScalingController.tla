-------------------------- MODULE ScalingController --------------------------
(***************************************************************************)
(* The scaling controllers (pkg/scaling/controller.go).  The daemon runs as  *)
(* a DaemonSet, so there is one controller per node, and nothing elects a    *)
(* leader: all of them read the same rules and scale the same deployments.   *)
(* The module models one deployment, the rules that name it (RuleStore) and  *)
(* any number of controllers.                                               *)
(*                                                                          *)
(* A controller has three goroutines: the main loop evaluates the cached     *)
(* rules, refreshRulesLoop re-reads them on a ticker, and watchRuleChanges   *)
(* re-reads them after a change event.  Each refresh reads Mongo first and   *)
(* takes the lock for the assignment alone.                                  *)
(***************************************************************************)
EXTENDS RuleStore, ReplicaDecision

CONSTANTS
  Values,       \* what GetDeploymentMetricValue may return
  Starts,       \* the replica counts the deployment may start with
  Targets,      \* the counts an operator may ask for (pod action "scale")
  MaxHand,      \* bound on the operator's requests
  MaxCrashes,   \* bound on daemon restarts
  MaxPending,   \* bound on the undelivered events of a change stream
  ApiFaults,    \* may calls to Kubernetes and Mongo fail
  ChangeStreams,\* is the database a replica set, which supports change streams
  Idle,         \* the goroutine holds nothing
  Reading,      \* watchRuleChanges took a token and is about to read
  NoJob,        \* the main loop has no decision in hand
  NoHand        \* no operator request under way

(* A snapshot of the enabled rules, as every goroutine of a controller sees *)
(* it: the body of an enabled rule, NoRule for any other id.                *)
RuleMap == [RuleIds -> Bodies \cup {NoRule}]

(* A decision on its way to the API server.  fresh says that the resource   *)
(* version it was based on is still the deployment's.                       *)
Job == [rule : RuleIds, body : Bodies, value : Values,
        from : Int, to : Int, fresh : BOOLEAN]

HandJob == [target : Targets, fresh : BOOLEAN]

ASSUME ControllerAssumption ==
  /\ Bodies \subseteq RuleBody
  /\ Values \subseteq Int
  /\ Starts \subseteq 0 .. IntMax
  /\ Targets \subseteq Int32
  /\ MaxHand \in Nat /\ MaxCrashes \in Nat /\ MaxPending \in Nat
  /\ ApiFaults \in BOOLEAN /\ ChangeStreams \in BOOLEAN
  /\ NoRule \notin Bodies
  /\ Idle \notin RuleMap /\ Reading \notin RuleMap /\ Idle # Reading
  /\ NoJob \notin Job /\ NoHand \notin HandJob

VARIABLES
  replicas,     \* spec.replicas of the deployment
  hand,         \* handleScaleDeployment between its Get and its Update
  handled,      \* operator requests so far
  pc,           \* per controller: where the main loop is
  cache,        \* per controller: c.rules
  todo,         \* per controller: the copy evaluateOnce ranges over
  job,          \* per controller: the decision taken for the current rule
  loop,         \* per controller: what refreshRulesLoop has read
  watch,        \* per controller: what watchRuleChanges has read
  trigger,      \* per controller: the trigger channel holds a token
  crashes       \* daemon restarts so far

deployVars == <<replicas, hand, handled>>
mainVars == <<pc, todo, job>>
refreshVars == <<cache, loop, watch>>
ctlVars == <<pc, todo, job, cache, loop, watch, trigger, crashes>>
vars == <<storeVars, deployVars, ctlVars>>

NoRules == [r \in RuleIds |-> NoRule]
Enabled(r) == InDb(r) /\ db[r].enabled

(* GetEnabledScalingRules. *)
EnabledRules == [r \in RuleIds |-> IF Enabled(r) THEN db[r].body ELSE NoRule]

Init ==
  /\ StoreInit
  /\ replicas \in Starts
  /\ hand = NoHand
  /\ handled = 0
  /\ pc = [c \in Watchers |-> "off"]
  /\ cache = [c \in Watchers |-> NoRules]
  /\ todo = [c \in Watchers |-> NoRules]
  /\ job = [c \in Watchers |-> NoJob]
  /\ loop = [c \in Watchers |-> Idle]
  /\ watch = [c \in Watchers |-> Idle]
  /\ trigger = [c \in Watchers |-> FALSE]
  /\ crashes = 0

-----------------------------------------------------------------------------
(* Starting and stopping a daemon.                                          *)

(* StartScalingController: a first refresh, before any goroutine starts.    *)
Boot(c) ==
  /\ pc[c] = "off"
  /\ pc' = [pc EXCEPT ![c] = "wait"]
  /\ \/ cache' = [cache EXCEPT ![c] = EnabledRules]
     \/ ApiFaults /\ UNCHANGED cache
  /\ UNCHANGED <<storeVars, deployVars, todo, job, loop, watch, trigger, crashes>>

(* WatchRuleChanges opens the stream some time after the first refresh, or   *)
(* finds that it cannot and watchRuleChanges returns for good.              *)
OpenStream(c) ==
  /\ pc[c] # "off"
  /\ \/ ChangeStreams /\ StreamOpens(c)
     \/ (ApiFaults \/ ~ChangeStreams) /\ StreamRefused(c)
  /\ UNCHANGED <<deployVars, ctlVars>>

(* The pod is killed and all its memory is gone; Boot starts it again.  A    *)
(* request it had sent may have been applied: see UpdateReplyLost.          *)
Crash(c) ==
  /\ pc[c] # "off"
  /\ crashes < MaxCrashes
  /\ crashes' = crashes + 1
  /\ pc' = [pc EXCEPT ![c] = "off"]
  /\ cache' = [cache EXCEPT ![c] = NoRules]
  /\ todo' = [todo EXCEPT ![c] = NoRules]
  /\ job' = [job EXCEPT ![c] = NoJob]
  /\ loop' = [loop EXCEPT ![c] = Idle]
  /\ watch' = [watch EXCEPT ![c] = Idle]
  /\ trigger' = [trigger EXCEPT ![c] = FALSE]
  /\ StreamCloses(c)
  /\ UNCHANGED deployVars

-----------------------------------------------------------------------------
(* The two goroutines that refresh c.rules.                                 *)

(* Faulty variant of LoopRead: no polling as long as the stream is open.    *)
LoopReadWithoutStream(c) ==
  /\ pc[c] # "off"
  /\ loop[c] = Idle
  /\ stream[c] # "open"
  /\ loop' = [loop EXCEPT ![c] = EnabledRules]
  /\ UNCHANGED <<storeVars, deployVars, mainVars, cache, watch, trigger, crashes>>

LoopRead(c) ==
  /\ pc[c] # "off"
  /\ loop[c] = Idle
  /\ loop' = [loop EXCEPT ![c] = EnabledRules]
  /\ UNCHANGED <<storeVars, deployVars, mainVars, cache, watch, trigger, crashes>>

LoopStore(c) ==
  /\ loop[c] # Idle
  /\ cache' = [cache EXCEPT ![c] = loop[c]]
  /\ loop' = [loop EXCEPT ![c] = Idle]
  /\ UNCHANGED <<storeVars, deployVars, mainVars, watch, trigger, crashes>>

WatchTake(c) ==
  /\ watch[c] = Idle
  /\ TakeSignal(c)
  /\ watch' = [watch EXCEPT ![c] = Reading]
  /\ UNCHANGED <<deployVars, mainVars, cache, loop, trigger, crashes>>

WatchRead(c) ==
  /\ watch[c] = Reading
  /\ watch' = [watch EXCEPT ![c] = EnabledRules]
  /\ UNCHANGED <<storeVars, deployVars, mainVars, cache, loop, trigger, crashes>>

(* The read failed: nothing is stored, but the main loop is triggered.      *)
WatchFails(c) ==
  /\ ApiFaults
  /\ watch[c] = Reading
  /\ watch' = [watch EXCEPT ![c] = Idle]
  /\ trigger' = [trigger EXCEPT ![c] = TRUE]
  /\ UNCHANGED <<storeVars, deployVars, mainVars, cache, loop, crashes>>

WatchStore(c) ==
  /\ watch[c] \notin {Idle, Reading}
  /\ cache' = [cache EXCEPT ![c] = watch[c]]
  /\ watch' = [watch EXCEPT ![c] = Idle]
  /\ trigger' = [trigger EXCEPT ![c] = TRUE]
  /\ UNCHANGED <<storeVars, deployVars, mainVars, loop, crashes>>

(* subscribeMetrics: a collector published a sample. *)
MetricEvent(c) ==
  /\ pc[c] # "off"
  /\ trigger' = [trigger EXCEPT ![c] = TRUE]
  /\ UNCHANGED <<storeVars, deployVars, mainVars, refreshVars, crashes>>

-----------------------------------------------------------------------------
(* The main loop.                                                           *)

(* Faulty variant of StartEvaluation: there is no ticker, only the trigger.  *)
StartTriggered(c) ==
  /\ pc[c] = "wait"
  /\ trigger[c]
  /\ trigger' = [trigger EXCEPT ![c] = FALSE]
  /\ todo' = [todo EXCEPT ![c] = cache[c]]
  /\ pc' = [pc EXCEPT ![c] = IF cache[c] = NoRules THEN "wait" ELSE "eval"]
  /\ UNCHANGED <<storeVars, deployVars, job, refreshVars, crashes>>

(* A trigger or a tick starts evaluateOnce, which copies the cache first.   *)
StartEvaluation(c) ==
  /\ pc[c] = "wait"
  /\ trigger' \in {trigger, [trigger EXCEPT ![c] = FALSE]}
  /\ todo' = [todo EXCEPT ![c] = cache[c]]
  /\ pc' = [pc EXCEPT ![c] = IF cache[c] = NoRules THEN "wait" ELSE "eval"]
  /\ UNCHANGED <<storeVars, deployVars, job, refreshVars, crashes>>

(* The main loop is done with rule r of its copy. *)
NextRule(c, r) ==
  /\ todo' = [todo EXCEPT ![c][r] = NoRule]
  /\ pc' = [pc EXCEPT ![c] = IF todo'[c] = NoRules THEN "wait" ELSE "eval"]

Drop(c) ==
  /\ NextRule(c, job[c].rule)
  /\ job' = [job EXCEPT ![c] = NoJob]

(* Measure, get the deployment and decide.  The value does not depend on    *)
(* the deployment's replica count, so the two reads are one step.           *)
EvaluateRule(c, r, value) ==
  LET body == todo[c][r]
      desired == DecideReplicas(replicas, value, body) IN
  /\ pc[c] = "eval"
  /\ body # NoRule
  /\ \/ desired = replicas /\ NextRule(c, r) /\ UNCHANGED job
     \/ /\ desired # replicas
        /\ job' = [job EXCEPT ![c] =
             [rule |-> r, body |-> body, value |-> value,
              from |-> replicas, to |-> desired, fresh |-> TRUE]]
        /\ pc' = [pc EXCEPT ![c] = "update"]
        /\ UNCHANGED todo
  /\ UNCHANGED <<storeVars, deployVars, refreshVars, trigger, crashes>>

(* No pods, no metric, or the API server did not answer: the next rule.     *)
SkipRule(c, r) ==
  /\ ApiFaults \/ replicas = 0
  /\ pc[c] = "eval"
  /\ todo[c][r] # NoRule
  /\ NextRule(c, r)
  /\ UNCHANGED <<storeVars, deployVars, job, refreshVars, trigger, crashes>>

-----------------------------------------------------------------------------
(* The API server.  It accepts an update only of the version it has, and     *)
(* refuses a negative count; a new version outdates what everybody holds.   *)

Outdated == [c \in Watchers |-> IF job[c] = NoJob THEN NoJob ELSE [job[c] EXCEPT !.fresh = FALSE]]
OutdatedHand == IF hand = NoHand THEN NoHand ELSE [hand EXCEPT !.fresh = FALSE]

(* Faulty variants of Accepts: the version, or the count, is not looked at. *)
AcceptsStale(update, n) == n >= 0
AcceptsAny(update, n) == update.fresh

Accepts(update, n) == update.fresh /\ n >= 0

(* Kubernetes writes the status of the deployment: a new version, too.      *)
DeploymentStatus ==
  /\ job' = Outdated
  /\ hand' = OutdatedHand
  /\ UNCHANGED <<storeVars, replicas, handled, pc, todo, refreshVars, trigger, crashes>>

UpdateDeployment(c) ==
  /\ pc[c] = "update"
  /\ Accepts(job[c], job[c].to)
  /\ replicas' = job[c].to
  /\ job' = Outdated
  /\ hand' = OutdatedHand
  /\ pc' = [pc EXCEPT ![c] = "status"]
  /\ UNCHANGED <<storeVars, handled, todo, refreshVars, trigger, crashes>>

(* The update was applied but the reply was lost: an error to the caller.   *)
UpdateReplyLost(c) ==
  /\ ApiFaults
  /\ pc[c] = "update"
  /\ Accepts(job[c], job[c].to)
  /\ replicas' = job[c].to
  /\ job' = [Outdated EXCEPT ![c] = NoJob]
  /\ hand' = OutdatedHand
  /\ NextRule(c, job[c].rule)
  /\ UNCHANGED <<storeVars, handled, refreshVars, trigger, crashes>>

(* Faulty variant of UpdateFails: after a conflict the same decision is sent *)
(* again with the new version.                                              *)
UpdateRetries(c) ==
  /\ pc[c] = "update"
  /\ ApiFaults \/ ~Accepts(job[c], job[c].to)
  /\ job' = [job EXCEPT ![c].fresh = TRUE]
  /\ UNCHANGED <<storeVars, deployVars, pc, todo, refreshVars, trigger, crashes>>

(* A conflict, a refused count or an API error: the decision is dropped.    *)
UpdateFails(c) ==
  /\ pc[c] = "update"
  /\ ApiFaults \/ ~Accepts(job[c], job[c].to)
  /\ Drop(c)
  /\ UNCHANGED <<storeVars, deployVars, refreshVars, trigger, crashes>>

WriteStatus(c) ==
  /\ pc[c] = "status"
  /\ \A w \in Watchers : pending[w] < MaxPending
  /\ UpdateScalingRuleStatus(job[c].rule, job[c].to)
  /\ Drop(c)
  /\ UNCHANGED <<deployVars, refreshVars, trigger, crashes>>

StatusFails(c) ==
  /\ ApiFaults
  /\ pc[c] = "status"
  /\ Drop(c)
  /\ UNCHANGED <<storeVars, deployVars, refreshVars, trigger, crashes>>

-----------------------------------------------------------------------------
(* handleScaleDeployment (pkg/api/pod_actions.go): Get, then Update.        *)

HandRead(n) ==
  /\ hand = NoHand
  /\ handled < MaxHand
  /\ handled' = handled + 1
  /\ hand' = [target |-> n, fresh |-> TRUE]
  /\ UNCHANGED <<storeVars, replicas, ctlVars>>

HandWrite ==
  /\ hand # NoHand
  /\ hand' = NoHand
  /\ \/ /\ Accepts(hand, hand.target)
        /\ replicas' = hand.target
        /\ job' = Outdated
     \/ /\ ApiFaults \/ ~Accepts(hand, hand.target)
        /\ UNCHANGED <<replicas, job>>
  /\ UNCHANGED <<storeVars, handled, pc, todo, refreshVars, trigger, crashes>>

-----------------------------------------------------------------------------
StoreStep ==
  /\ \/ RestCall
     \/ \E w \in Watchers : StreamNext(w) \/ (ApiFaults /\ StreamEnds(w))
  /\ UNCHANGED <<deployVars, ctlVars>>

ControllerStep(c) ==
  \/ Boot(c) \/ OpenStream(c) \/ Crash(c)
  \/ LoopRead(c) \/ LoopStore(c)
  \/ WatchTake(c) \/ WatchRead(c) \/ WatchFails(c) \/ WatchStore(c)
  \/ MetricEvent(c) \/ StartEvaluation(c)
  \/ \E r \in RuleIds, value \in Values : EvaluateRule(c, r, value)
  \/ \E r \in RuleIds : SkipRule(c, r)
  \/ UpdateDeployment(c) \/ UpdateReplyLost(c) \/ UpdateFails(c)
  \/ WriteStatus(c) \/ StatusFails(c)

Next ==
  \/ StoreStep
  \/ \E c \in Watchers : ControllerStep(c)
  \/ DeploymentStatus
  \/ (\E n \in Targets : HandRead(n)) \/ HandWrite

(* A deployment with no pods yields no metric. *)
PodsListed == replicas > 0

(* Both goroutines and the main loop run on tickers, Mongo and the API       *)
(* server do not fail for ever, and a killed pod is started again.          *)
Fairness ==
  \A c \in Watchers :
    /\ WF_vars(Boot(c)) /\ WF_vars(OpenStream(c))
    /\ WF_vars(LoopRead(c)) /\ WF_vars(LoopStore(c))
    /\ WF_vars(StreamNext(c) /\ UNCHANGED <<deployVars, ctlVars>>)
    /\ WF_vars(WatchTake(c))
    /\ WF_vars(WatchRead(c)) /\ WF_vars(WatchStore(c))
    /\ WF_vars(StartEvaluation(c))
    /\ \A r \in RuleIds : SF_vars(PodsListed /\ \E value \in Values : EvaluateRule(c, r, value))
    /\ SF_vars(UpdateDeployment(c)) /\ WF_vars(UpdateFails(c))
    /\ WF_vars(WriteStatus(c))

Spec == Init /\ [][Next]_vars
FairSpec == Spec /\ Fairness

-----------------------------------------------------------------------------
MainTypeOK ==
  /\ replicas \in Nat
  /\ hand \in HandJob \cup {NoHand}
  /\ handled \in Nat
  /\ pc \in [Watchers -> {"off", "wait", "eval", "update", "status"}]
  /\ cache \in [Watchers -> RuleMap]
  /\ todo \in [Watchers -> RuleMap]
  /\ job \in [Watchers -> Job \cup {NoJob}]
  /\ loop \in [Watchers -> RuleMap \cup {Idle}]
  /\ watch \in [Watchers -> RuleMap \cup {Idle, Reading}]
  /\ trigger \in [Watchers -> BOOLEAN]
  /\ crashes \in Nat

TypeOK == StoreTypeOK /\ MainTypeOK

(* However the controllers and the operators interleave, each change of the *)
(* replica count is one whole decision of decideReplicas on the count it    *)
(* replaces, or one operator request: no update is based on a count that    *)
(* somebody else has changed since (evaluateOnce, handleScaleDeployment).   *)
Scaler == INSTANCE AtomicScaler WITH
  Bodies <- Bodies, Values <- Values, Starts <- Starts, Targets <- Targets,
  replicas <- replicas
ScalesAtomically == Scaler!Spec

(* The counts the rules and the operators may ask for. *)
Permitted ==
  Starts \cup Targets
    \cup UNION {b.minReplicas .. EffectiveMax(b) : b \in Bodies}

(* As long as every rule has positive bounds, the deployment never leaves   *)
(* what it started with, what operators asked for and what some rule allows. *)
(* Two controllers that scale at once do not overshoot, whatever cached or  *)
(* deleted version of a rule they act on.                                   *)
StaysPermitted ==
  (\A b \in Bodies : b.minReplicas > 0 /\ b.maxReplicas > 0)
    => replicas \in Permitted

(* A token in the events channel stands for every event before it: after an *)
(* event arrives on a live stream, watchRuleChanges starts another read.    *)
EventLeadsToRead ==
  \A c \in Watchers :
    (pending[c] > 0) ~> (watch[c] = Reading \/ stream[c] # "open")

(* Two goroutines write the cache and the one that read first may write     *)
(* last, a stream may end and reads may fail; still, once the rules stop    *)
(* changing, every controller ends up with exactly the enabled rules.       *)
CachesConverge ==
  <>[](\A c \in Watchers : pc[c] # "off" => cache[c] = EnabledRules)

(* The bound a rule drives the deployment to. *)
Goal(b) == IF ActionOf(b) = "scale_up" THEN EffectiveMax(b) ELSE b.minReplicas

(* With one rule on the deployment, breached all the time: if it stays      *)
(* enabled, the deployment reaches the bound of the rule and stays there,   *)
(* although conflicts drop decisions, reads and updates fail, daemons are   *)
(* killed and caches were stale (evaluateOnce, refreshRules).               *)
BreachIsAnswered ==
  <>[](\A r \in RuleIds : Enabled(r) => replicas = Goal(db[r].body))

(* With one rule on the deployment and nobody else scaling it, the status   *)
(* fields the UI shows as the last action are those of the last change.     *)
LastActionIsLatest ==
  (\A c \in Watchers : pc[c] # "status")
    => \A r \in RuleIds : InDb(r) => db[r].lastTo \in {0, replicas}
=============================================================================
