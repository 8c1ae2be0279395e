----------------------- MODULE ScalingControllerProofs -----------------------
(***************************************************************************)
(* Proofs about the rule store by itself (StoreSpec): its type invariant,    *)
(* that only an insert brings back a deleted rule and a toggle loses no edit; *)
(* then about any number of scaling controllers: types, the invariant        *)
(* that ties a decision to the deployment it was taken on, and from it that  *)
(* the controllers implement AtomicScaler.                                   *)
(***************************************************************************)
EXTENDS ScalingController, ReplicaDecisionProofs

(* A step that sets the document of one rule keeps the types.                *)
LEMMA SetDocumentTypes ==
  ASSUME StoreTypeOK, NEW r \in RuleIds, NEW document \in Document \cup {NoRule},
         SetDocument(r, document)
  PROVE  /\ db' \in [RuleIds -> Document \cup {NoRule}]
         /\ stream' \in [Watchers -> {"unopened", "open", "ended"}]
         /\ pending' \in [Watchers -> Nat]
         /\ signal' \in [Watchers -> BOOLEAN]
  BY DEF StoreTypeOK, SetDocument, NotifyWatchers, streams

(* A document of the collection is a Document.                               *)
LEMMA InDbIsDocument ==
  ASSUME StoreTypeOK, NEW r \in RuleIds, InDb(r)
  PROVE  db[r] \in Document
  BY DEF StoreTypeOK, InDb

(* A document whose flag is set or reset is a document.                      *)
LEMMA EnabledIsAField ==
  ASSUME NEW document \in Document, NEW e \in BOOLEAN
  PROVE  [document EXCEPT !.enabled = e] \in Document
  BY DEF Document

(* A toggle under way has read a document of a rule.                         *)
LEMMA TogglingIsToggle ==
  ASSUME StoreTypeOK, NEW q \in Requests, toggling[q] # NoToggle
  PROVE  /\ toggling[q].rule \in RuleIds
         /\ toggling[q].current \in Document
         /\ toggling[q].current.enabled \in BOOLEAN
  BY DEF StoreTypeOK, Toggle, Document

-----------------------------------------------------------------------------
(* Each REST call keeps the types.                                           *)
LEMMA RestCallTypes ==
  ASSUME StoreTypeOK, RestCall
  PROVE  StoreTypeOK'
<1>1. ASSUME NEW r \in RuleIds, NEW b \in Bodies, NEW e \in BOOLEAN, CreateScalingRule(r, b, e)
      PROVE  StoreTypeOK'
  <2>1. [enabled |-> e, body |-> b, lastTo |-> 0] \in Document
    BY DEF Document
  <2>2. writes' \in 0 .. MaxWrites
    BY <1>1, RuleStoreAssumption DEF CreateScalingRule, CountWrite, StoreTypeOK
  <2> QED
    BY <1>1, <2>1, <2>2, SetDocumentTypes DEF CreateScalingRule, requests, StoreTypeOK
<1>2. ASSUME NEW r \in RuleIds, NEW b \in Bodies, NEW e \in BOOLEAN, UpdateScalingRule(r, b, e)
      PROVE  StoreTypeOK'
  <2>1. [db[r] EXCEPT !.body = b, !.enabled = e] \in Document
    BY <1>2, InDbIsDocument DEF UpdateScalingRule, Document
  <2>2. writes' \in 0 .. MaxWrites
    BY <1>2, RuleStoreAssumption DEF UpdateScalingRule, CountWrite, StoreTypeOK
  <2> QED
    BY <1>2, <2>1, <2>2, SetDocumentTypes DEF UpdateScalingRule, requests, StoreTypeOK
<1>3. ASSUME NEW r \in RuleIds, DeleteScalingRule(r)
      PROVE  StoreTypeOK'
  <2>1. writes' \in 0 .. MaxWrites
    BY <1>3, RuleStoreAssumption DEF DeleteScalingRule, CountWrite, StoreTypeOK
  <2> QED
    BY <1>3, <2>1, SetDocumentTypes DEF DeleteScalingRule, requests, StoreTypeOK
<1>4. ASSUME NEW q \in Requests, NEW r \in RuleIds, ToggleRead(q, r)
      PROVE  StoreTypeOK'
  <2>1. writes' \in 0 .. MaxWrites
    BY <1>4, RuleStoreAssumption DEF ToggleRead, CountWrite, StoreTypeOK
  <2>2. [rule |-> r, current |-> db[r]] \in Toggle
    BY <1>4, InDbIsDocument DEF ToggleRead, Toggle
  <2> QED
    BY <1>4, <2>1, <2>2 DEF ToggleRead, streams, StoreTypeOK
<1>5. ASSUME NEW q \in Requests, ToggleWrite(q)
      PROVE  StoreTypeOK'
  <2> DEFINE r == toggling[q].rule
             document == [db[r] EXCEPT !.enabled = ~toggling[q].current.enabled]
  <2>1. toggling[q] # NoToggle
    BY <1>5 DEF ToggleWrite, ToggleEnds
  <2>2. r \in RuleIds /\ InDb(r)
    BY <1>5, <2>1, TogglingIsToggle DEF ToggleWrite
  <2>3. document \in Document
    <3>1. PICK e \in BOOLEAN : toggling[q].current.enabled = e
      BY <2>1, TogglingIsToggle
    <3>2. document = [db[r] EXCEPT !.enabled = ~e]
      BY <3>1
    <3>3. (~e) \in BOOLEAN
      OBVIOUS
    <3> QED
      BY <2>2, <3>2, <3>3, InDbIsDocument, EnabledIsAField
  <2>4. SetDocument(r, document)
    BY <1>5 DEF ToggleWrite
  <2> QED
    BY <1>5, <2>2, <2>3, <2>4, SetDocumentTypes DEF ToggleWrite, ToggleEnds, StoreTypeOK
<1>6. ASSUME NEW q \in Requests, ToggleFails(q)
      PROVE  StoreTypeOK'
  BY <1>6 DEF ToggleFails, ToggleEnds, streams, StoreTypeOK
<1> QED
  BY <1>1, <1>2, <1>3, <1>4, <1>5, <1>6 DEF RestCall

(* A status write keeps the types.                                           *)
LEMMA StatusTypes ==
  ASSUME StoreTypeOK, NEW r \in RuleIds, NEW n \in Int, UpdateScalingRuleStatus(r, n)
  PROVE  StoreTypeOK'
<1>1. CASE InDb(r)
  <2>1. [db[r] EXCEPT !.lastTo = n] \in Document
    BY <1>1, InDbIsDocument DEF Document
  <2>2. db' \in [RuleIds -> Document \cup {NoRule}]
    BY <1>1, <2>1 DEF UpdateScalingRuleStatus, StoreTypeOK
  <2> QED
    BY <1>1, <2>2 DEF UpdateScalingRuleStatus, NotifyWatchers, requests, StoreTypeOK
<1>2. CASE ~InDb(r)
  BY <1>2 DEF UpdateScalingRuleStatus, requests, streams, StoreTypeOK
<1> QED
  BY <1>1, <1>2

(* The steps of a change stream keep the types.                              *)
LEMMA StreamTypes ==
  ASSUME StoreTypeOK, NEW w \in Watchers,
         \/ StreamOpens(w) \/ StreamRefused(w) \/ StreamNext(w) \/ StreamEnds(w)
         \/ StreamCloses(w) \/ TakeSignal(w)
  PROVE  StoreTypeOK'
<1> USE DEF StoreTypeOK, collection, requests
<1>1. CASE StreamOpens(w)
  BY <1>1 DEF StreamOpens
<1>2. CASE StreamRefused(w)
  BY <1>2 DEF StreamRefused
<1>3. CASE StreamNext(w)
  <2>1. pending[w] - 1 \in Nat
    BY <1>3 DEF StreamNext
  <2> QED
    BY <1>3, <2>1 DEF StreamNext
<1>4. CASE StreamEnds(w)
  BY <1>4 DEF StreamEnds
<1>5. CASE StreamCloses(w)
  BY <1>5 DEF StreamCloses
<1>6. CASE TakeSignal(w)
  BY <1>6 DEF TakeSignal
<1> QED
  BY <1>1, <1>2, <1>3, <1>4, <1>5, <1>6

(* The initial store has the types.                                          *)
LEMMA InitTypes ==
  ASSUME StoreInit
  PROVE  StoreTypeOK
<1>1. [enabled : BOOLEAN, body : Stored, lastTo : {0}] \subseteq Document
  BY RuleStoreAssumption DEF Document
<1> QED
  BY <1>1, RuleStoreAssumption DEF StoreInit, StoreTypeOK

(* Any use of the store: REST calls, status writes of any count and whatever *)
(* becomes of the change streams.                                            *)
StoreUse ==
  \/ RestCall
  \/ \E r \in RuleIds, n \in Int : UpdateScalingRuleStatus(r, n)
  \/ \E w \in Watchers :
       \/ StreamOpens(w) \/ StreamRefused(w) \/ StreamNext(w) \/ StreamEnds(w)
       \/ TakeSignal(w) \/ StreamCloses(w)

LEMMA StoreUseTypes == StoreTypeOK /\ [StoreUse]_storeVars => StoreTypeOK'
<1> SUFFICES ASSUME StoreTypeOK, [StoreUse]_storeVars PROVE StoreTypeOK'
  OBVIOUS
<1>1. CASE UNCHANGED storeVars
  BY <1>1 DEF storeVars, StoreTypeOK
<1> QED
  BY <1>1, RestCallTypes, StatusTypes, StreamTypes DEF StoreUse

LEMMA StoreNextIsUse == StoreNext => StoreUse
BY DEF StoreNext, StoreUse

(* The type invariant of the store, for every set of rules, watchers and     *)
(* requests.                                                                 *)
THEOREM StoreTypeCorrect == StoreSpec => []StoreTypeOK
<1>1. [StoreNext]_storeVars => [StoreUse]_storeVars
  BY StoreNextIsUse
<1> QED
  BY <1>1, InitTypes, StoreUseTypes, PTL DEF StoreSpec

-----------------------------------------------------------------------------
(* No step but an insert brings back a rule that is gone.                    *)
LEMMA NoResurrection ==
  ASSUME StoreTypeOK, StoreUse, NEW r \in RuleIds, ~InDb(r),
         \A b \in Bodies, e \in BOOLEAN : ~CreateScalingRule(r, b, e)
  PROVE  ~InDb(r)'
<1>1. ASSUME NEW s \in RuleIds, NEW document, s # r, SetDocument(s, document) PROVE ~InDb(r)'
  BY <1>1 DEF SetDocument, InDb, StoreTypeOK
<1>2. CASE RestCall
  <2>1. ASSUME NEW s \in RuleIds, NEW b \in Bodies, NEW e \in BOOLEAN, CreateScalingRule(s, b, e)
        PROVE  ~InDb(r)'
    <3>1. s # r
      BY <2>1
    <3> QED
      BY <2>1, <3>1, <1>1 DEF CreateScalingRule
  <2>2. ASSUME NEW s \in RuleIds, NEW b \in Bodies, NEW e \in BOOLEAN, UpdateScalingRule(s, b, e)
        PROVE  ~InDb(r)'
    BY <2>2, <1>1 DEF UpdateScalingRule
  <2>3. ASSUME NEW s \in RuleIds, DeleteScalingRule(s) PROVE ~InDb(r)'
    BY <2>3 DEF DeleteScalingRule, SetDocument, InDb, StoreTypeOK
  <2>4. ASSUME NEW q \in Requests, NEW s \in RuleIds, ToggleRead(q, s) PROVE ~InDb(r)'
    BY <2>4 DEF ToggleRead, InDb
  <2>5. ASSUME NEW q \in Requests, ToggleWrite(q) PROVE ~InDb(r)'
    <3>1. toggling[q].rule \in RuleIds
      BY <2>5, TogglingIsToggle DEF ToggleWrite, ToggleEnds
    <3> QED
      BY <2>5, <3>1, <1>1 DEF ToggleWrite
  <2>6. ASSUME NEW q \in Requests, ToggleFails(q) PROVE ~InDb(r)'
    BY <2>6 DEF ToggleFails, InDb
  <2> QED
    BY <1>2, <2>1, <2>2, <2>3, <2>4, <2>5, <2>6 DEF RestCall
<1>3. ASSUME NEW s \in RuleIds, NEW n \in Int, UpdateScalingRuleStatus(s, n) PROVE ~InDb(r)'
  BY <1>3 DEF UpdateScalingRuleStatus, InDb, StoreTypeOK
<1>4. ASSUME NEW w \in Watchers,
             \/ StreamOpens(w) \/ StreamRefused(w) \/ StreamNext(w) \/ StreamEnds(w)
             \/ TakeSignal(w) \/ StreamCloses(w)
      PROVE  ~InDb(r)'
  BY <1>4 DEF StreamOpens, StreamRefused, StreamNext, StreamEnds, TakeSignal, StreamCloses,
              collection, InDb
<1> QED
  BY <1>2, <1>3, <1>4 DEF StoreUse

(* The rules a step brings back are inserted by it.                          *)
RevivedAreCreated ==
  \A r \in RuleIds :
    ~InDb(r) /\ InDb(r)' => \E b \in Bodies, e \in BOOLEAN : CreateScalingRule(r, b, e)

(* A deleted rule stays deleted until it is inserted again, whatever edits,  *)
(* toggles and status writes are under way (store.go has no upsert).         *)
THEOREM DeletionIsFinal == StoreSpec => RevivedByCreateOnly
<1>1. StoreTypeOK /\ [StoreNext]_storeVars => [RevivedAreCreated]_storeVars
  BY NoResurrection, StoreNextIsUse DEF RevivedAreCreated
<1> QED
  BY <1>1, StoreTypeCorrect, PTL DEF StoreSpec, RevivedByCreateOnly, RevivedAreCreated

-----------------------------------------------------------------------------
(* A step that ends a toggle is a failure or sets the flag of its rule.      *)
LEMMA ToggleStep ==
  ASSUME StoreTypeOK, StoreUse, NEW q \in Requests,
         toggling[q] # NoToggle, toggling'[q] # toggling[q]
  PROVE  ToggleWrite(q) \/ ToggleFails(q)
<1>1. ASSUME UNCHANGED toggling PROVE FALSE
  BY <1>1
<1>2. CASE RestCall
  <2>1. ASSUME NEW p \in Requests, NEW r \in RuleIds, ToggleRead(p, r) PROVE FALSE
    BY <2>1 DEF ToggleRead, StoreTypeOK
  <2>2. ASSUME NEW p \in Requests, ToggleWrite(p) \/ ToggleFails(p), p # q PROVE FALSE
    BY <2>2 DEF ToggleWrite, ToggleFails, ToggleEnds, StoreTypeOK
  <2> QED
    BY <1>1, <1>2, <2>1, <2>2
    DEF RestCall, CreateScalingRule, UpdateScalingRule, DeleteScalingRule, requests
<1>3. CASE \E r \in RuleIds, n \in Int : UpdateScalingRuleStatus(r, n)
  BY <1>1, <1>3 DEF UpdateScalingRuleStatus, requests
<1>4. CASE \E w \in Watchers :
             \/ StreamOpens(w) \/ StreamRefused(w) \/ StreamNext(w) \/ StreamEnds(w)
             \/ TakeSignal(w) \/ StreamCloses(w)
  BY <1>1, <1>4 DEF StreamOpens, StreamRefused, StreamNext, StreamEnds, TakeSignal,
                    StreamCloses, requests
<1> QED
  BY <1>2, <1>3, <1>4 DEF StoreUse

(* Setting the flag of one rule leaves the rest of every rule alone.         *)
LEMMA ToggleKeeps ==
  ASSUME StoreTypeOK, NEW q \in Requests, ToggleWrite(q) \/ ToggleFails(q),
         NEW r \in RuleIds, InDb(r)
  PROVE  InDb(r)' /\ db'[r].body = db[r].body /\ db'[r].lastTo = db[r].lastTo
<1>1. CASE ToggleFails(q)
  BY <1>1 DEF ToggleFails, InDb
<1>2. CASE ToggleWrite(q)
  <2> DEFINE s == toggling[q].rule
             document == [db[s] EXCEPT !.enabled = ~toggling[q].current.enabled]
  <2>1. s \in RuleIds /\ InDb(s)
    BY <1>2, TogglingIsToggle DEF ToggleWrite, ToggleEnds
  <2>2. db' = [db EXCEPT ![s] = document]
    BY <1>2 DEF ToggleWrite, SetDocument
  <2>3. CASE r # s
    BY <2>1, <2>2, <2>3 DEF InDb, StoreTypeOK
  <2>4. CASE r = s
    <3>1. db'[r] = document
      BY <2>1, <2>2, <2>4 DEF StoreTypeOK
    <3>2. document \in Document /\ document.body = db[s].body /\ document.lastTo = db[s].lastTo
      <4>1. db[s] \in Document
        BY <2>1, InDbIsDocument
      <4>2. PICK e \in BOOLEAN : toggling[q].current.enabled = e
        BY <1>2, TogglingIsToggle DEF ToggleWrite, ToggleEnds
      <4>3. document = [db[s] EXCEPT !.enabled = ~e] /\ (~e) \in BOOLEAN
        BY <4>2
      <4> QED
        BY <4>1, <4>3, EnabledIsAField DEF Document
    <3> QED
      BY <2>4, <3>1, <3>2, RuleStoreAssumption DEF InDb
  <2> QED
    BY <2>3, <2>4
<1> QED
  BY <1>1, <1>2

LEMMA ToggleLosesNothing ==
  ASSUME StoreTypeOK, StoreUse, NEW q \in Requests,
         toggling[q] # NoToggle, toggling'[q] # toggling[q], NEW r \in RuleIds, InDb(r)
  PROVE  InDb(r)' /\ db'[r].body = db[r].body /\ db'[r].lastTo = db[r].lastTo
BY ToggleStep, ToggleKeeps

(* A toggle loses no edit made between its two commands: it sets the flag    *)
(* and nothing else.                                                         *)
THEOREM EditsSurvive == StoreSpec => EditsSurviveToggle
<1> DEFINE Keeps ==
      \A q \in Requests :
        (toggling[q] # NoToggle /\ toggling'[q] # toggling[q])
          => \A r \in RuleIds :
               InDb(r) => InDb(r)' /\ db'[r].body = db[r].body
                                   /\ db'[r].lastTo = db[r].lastTo
<1>1. StoreTypeOK /\ [StoreNext]_storeVars => [Keeps]_storeVars
  BY ToggleLosesNothing, StoreNextIsUse
<1> QED
  BY <1>1, StoreTypeCorrect, PTL DEF StoreSpec, EditsSurviveToggle

-----------------------------------------------------------------------------
(* A decision in hand is what decideReplicas returned for the count it was   *)
(* based on, and as long as it is fresh that is the deployment's count.      *)
JobsSound ==
  \A c \in Watchers : job[c] # NoJob =>
    /\ job[c].to = DecideReplicas(job[c].from, job[c].value, job[c].body)
    /\ job[c].fresh => job[c].from = replicas

(* The main loop updates, or writes a status, only with a decision in hand.  *)
JobInHand == \A c \in Watchers : pc[c] \in {"update", "status"} => job[c] # NoJob

IInv == TypeOK /\ JobsSound /\ JobInHand

-----------------------------------------------------------------------------
(* What GetEnabledScalingRules returns is a map of rules.                    *)
LEMMA EnabledRulesType ==
  ASSUME StoreTypeOK
  PROVE  EnabledRules \in RuleMap
  BY InDbIsDocument DEF EnabledRules, Enabled, RuleMap, Document

LEMMA NoRulesType == NoRules \in RuleMap
  BY DEF NoRules, RuleMap

(* A decision on an enabled rule is an integer.                              *)
LEMMA BodyDecides ==
  ASSUME NEW body \in Bodies, NEW value \in Values, NEW n \in Int
  PROVE  DecideReplicas(n, value, body) \in Int
  BY ControllerAssumption, DecisionIsInt

(* The main loop going on with the next rule keeps the types.                *)
LEMMA NextRuleTypes ==
  ASSUME MainTypeOK, NEW c \in Watchers, NEW r, NextRule(c, r)
  PROVE  /\ todo' \in [Watchers -> RuleMap]
         /\ pc' \in [Watchers -> {"off", "wait", "eval", "update", "status"}]
         /\ pc'[c] \in {"wait", "eval"}
         /\ \A d \in Watchers : d # c => pc'[d] = pc[d]
<1>1. [todo[c] EXCEPT ![r] = NoRule] \in RuleMap
  BY DEF MainTypeOK, RuleMap
<1> QED
  BY <1>1 DEF MainTypeOK, NextRule

(* A new version of the deployment outdates every decision and no more.      *)
LEMMA OutdatedIsSound ==
  ASSUME IInv
  PROVE  /\ Outdated \in [Watchers -> Job \cup {NoJob}]
         /\ OutdatedHand \in HandJob \cup {NoHand}
         /\ \A c \in Watchers : (job[c] = NoJob) = (Outdated[c] = NoJob)
         /\ \A c \in Watchers : Outdated[c] # NoJob =>
              /\ Outdated[c].to =
                   DecideReplicas(Outdated[c].from, Outdated[c].value, Outdated[c].body)
              /\ ~Outdated[c].fresh
<1>1. ASSUME NEW c \in Watchers, job[c] # NoJob
      PROVE  /\ Outdated[c] \in Job
             /\ Outdated[c] # NoJob
             /\ ~Outdated[c].fresh
             /\ Outdated[c].to =
                  DecideReplicas(Outdated[c].from, Outdated[c].value, Outdated[c].body)
  <2>1. job[c] \in Job
    BY <1>1 DEF IInv, TypeOK, MainTypeOK
  <2>2. Outdated[c] = [job[c] EXCEPT !.fresh = FALSE]
    BY <1>1 DEF Outdated
  <2>3. /\ Outdated[c] \in Job
        /\ Outdated[c].to = job[c].to /\ Outdated[c].from = job[c].from
        /\ Outdated[c].value = job[c].value /\ Outdated[c].body = job[c].body
        /\ Outdated[c].fresh = FALSE
    BY <2>1, <2>2 DEF Job
  <2> QED
    BY <1>1, <2>3, ControllerAssumption DEF IInv, JobsSound
<1>2. ASSUME NEW c \in Watchers, job[c] = NoJob
      PROVE  Outdated[c] = NoJob
  BY <1>2 DEF Outdated
<1>3. Outdated \in [Watchers -> Job \cup {NoJob}]
  BY <1>1, <1>2 DEF Outdated
<1>4. OutdatedHand \in HandJob \cup {NoHand}
  BY DEF OutdatedHand, HandJob, IInv, TypeOK, MainTypeOK
<1> QED
  BY <1>1, <1>2, <1>3, <1>4

(* A store that does not change keeps its types.                             *)
LEMMA StoreFrame ==
  ASSUME StoreTypeOK, UNCHANGED storeVars
  PROVE  StoreTypeOK'
  BY DEF storeVars, StoreTypeOK

(* Neither do decisions lose their soundness, nor loops their decisions, if  *)
(* the deployment, the decisions and the places of the loops stay.           *)
LEMMA JobFrame ==
  ASSUME IInv, UNCHANGED <<replicas, job, pc>>
  PROVE  JobsSound' /\ JobInHand'
  BY DEF IInv, JobsSound, JobInHand

-----------------------------------------------------------------------------
(* The initial states satisfy the invariant.                                 *)
LEMMA InitIInv == Init => IInv
<1> SUFFICES ASSUME Init PROVE IInv
  OBVIOUS
<1>1. StoreTypeOK
  BY InitTypes DEF Init
<1>2. MainTypeOK
  BY NoRulesType, ControllerAssumption DEF Init, MainTypeOK
<1>3. JobsSound /\ JobInHand
  BY DEF Init, JobsSound, JobInHand
<1> QED
  BY <1>1, <1>2, <1>3 DEF IInv, TypeOK

(* The store's own steps leave the controllers alone.                        *)
LEMMA StoreStepIInv ==
  ASSUME IInv, StoreStep
  PROVE  IInv'
<1>1. StoreTypeOK'
  BY RestCallTypes, StreamTypes DEF StoreStep, IInv, TypeOK
<1>2. MainTypeOK'
  BY DEF StoreStep, IInv, TypeOK, MainTypeOK, deployVars, ctlVars
<1>3. JobsSound' /\ JobInHand'
  BY JobFrame DEF StoreStep, deployVars, ctlVars
<1> QED
  BY <1>1, <1>2, <1>3 DEF IInv, TypeOK

(* Starting, watching and killing a daemon.                                  *)
LEMMA LifeCycleIInv ==
  ASSUME IInv, NEW c \in Watchers, Boot(c) \/ OpenStream(c) \/ Crash(c)
  PROVE  IInv'
<1> USE DEF IInv, TypeOK
<1>1. CASE Boot(c)
  <2>1. StoreTypeOK'
    BY <1>1, StoreFrame DEF Boot
  <2>2. MainTypeOK'
    BY <1>1, EnabledRulesType DEF Boot, MainTypeOK, deployVars
  <2>3. JobsSound' /\ JobInHand'
    BY <1>1 DEF Boot, JobsSound, JobInHand, MainTypeOK, deployVars
  <2> QED
    BY <2>1, <2>2, <2>3
<1>2. CASE OpenStream(c)
  <2>1. StoreTypeOK'
    BY <1>2, StreamTypes DEF OpenStream
  <2>2. MainTypeOK'
    BY <1>2 DEF OpenStream, MainTypeOK, deployVars, ctlVars
  <2>3. JobsSound' /\ JobInHand'
    BY <1>2, JobFrame DEF OpenStream, deployVars, ctlVars
  <2> QED
    BY <2>1, <2>2, <2>3
<1>3. CASE Crash(c)
  <2>1. StoreTypeOK'
    BY <1>3, StreamTypes DEF Crash
  <2>2. MainTypeOK'
    BY <1>3, NoRulesType DEF Crash, MainTypeOK, deployVars
  <2>3. JobsSound' /\ JobInHand'
    BY <1>3 DEF Crash, JobsSound, JobInHand, MainTypeOK, deployVars
  <2> QED
    BY <2>1, <2>2, <2>3
<1> QED
  BY <1>1, <1>2, <1>3

(* The two goroutines that refresh the cache, and the metric events.         *)
LEMMA RefreshIInv ==
  ASSUME IInv, NEW c \in Watchers,
         \/ LoopRead(c) \/ LoopStore(c) \/ WatchTake(c) \/ WatchRead(c)
         \/ WatchFails(c) \/ WatchStore(c) \/ MetricEvent(c)
  PROVE  IInv'
<1> USE DEF IInv, TypeOK
<1>1. StoreTypeOK'
  BY StoreFrame, StreamTypes
  DEF LoopRead, LoopStore, WatchTake, WatchRead, WatchFails, WatchStore, MetricEvent
<1>2. JobsSound' /\ JobInHand'
  BY JobFrame
  DEF LoopRead, LoopStore, WatchTake, WatchRead, WatchFails, WatchStore, MetricEvent,
      deployVars, mainVars
<1>3. MainTypeOK'
  <2> USE DEF MainTypeOK, deployVars, mainVars, refreshVars
  <2>1. CASE LoopRead(c)
    BY <2>1, EnabledRulesType DEF LoopRead
  <2>2. CASE LoopStore(c)
    BY <2>2 DEF LoopStore
  <2>3. CASE WatchTake(c)
    BY <2>3 DEF WatchTake
  <2>4. CASE WatchRead(c)
    BY <2>4, EnabledRulesType DEF WatchRead
  <2>5. CASE WatchFails(c)
    BY <2>5 DEF WatchFails
  <2>6. CASE WatchStore(c)
    BY <2>6 DEF WatchStore
  <2>7. CASE MetricEvent(c)
    BY <2>7 DEF MetricEvent
  <2> QED
    BY <2>1, <2>2, <2>3, <2>4, <2>5, <2>6, <2>7
<1> QED
  BY <1>1, <1>2, <1>3

(* The main loop, up to the decision.                                        *)
LEMMA EvaluateIInv ==
  ASSUME IInv, NEW c \in Watchers,
         \/ StartEvaluation(c)
         \/ \E r \in RuleIds, value \in Values : EvaluateRule(c, r, value)
         \/ \E r \in RuleIds : SkipRule(c, r)
  PROVE  IInv'
<1> USE DEF IInv, TypeOK
<1>1. CASE StartEvaluation(c)
  <2>1. StoreTypeOK'
    BY <1>1, StoreFrame DEF StartEvaluation
  <2>2. MainTypeOK'
    BY <1>1 DEF StartEvaluation, MainTypeOK, deployVars, refreshVars
  <2>3. JobsSound' /\ JobInHand'
    BY <1>1 DEF StartEvaluation, JobsSound, JobInHand, MainTypeOK, deployVars
  <2> QED
    BY <2>1, <2>2, <2>3
<1>2. ASSUME NEW r \in RuleIds, NEW value \in Values, EvaluateRule(c, r, value)
      PROVE  IInv'
  <2> DEFINE body == todo[c][r]
             desired == DecideReplicas(replicas, value, body)
             decision == [rule |-> r, body |-> body, value |-> value,
                          from |-> replicas, to |-> desired, fresh |-> TRUE]
  <2>1. StoreTypeOK'
    BY <1>2, StoreFrame DEF EvaluateRule
  <2>2. CASE desired = replicas
    <3>1. NextRule(c, r) /\ UNCHANGED job
      BY <1>2, <2>2 DEF EvaluateRule
    <3>2. MainTypeOK'
      BY <1>2, <3>1, NextRuleTypes DEF EvaluateRule, MainTypeOK, deployVars, refreshVars
    <3>3. JobsSound' /\ JobInHand'
      BY <1>2, <3>1, NextRuleTypes DEF EvaluateRule, JobsSound, JobInHand, deployVars
    <3> QED
      BY <2>1, <3>2, <3>3
  <2>3. CASE desired # replicas
    <3>1. body \in Bodies
      BY <1>2 DEF EvaluateRule, MainTypeOK, RuleMap
    <3>2. decision \in Job
      <4>1. desired \in Int /\ replicas \in Int
        BY <3>1, BodyDecides DEF MainTypeOK
      <4> QED
        BY <3>1, <4>1 DEF Job
    <3>3. /\ job' = [job EXCEPT ![c] = decision]
          /\ pc' = [pc EXCEPT ![c] = "update"]
          /\ UNCHANGED <<todo, replicas, hand, handled, cache, loop, watch, trigger, crashes>>
      BY <1>2, <2>3 DEF EvaluateRule, deployVars, refreshVars
    <3>4. MainTypeOK'
      BY <3>2, <3>3 DEF MainTypeOK
    <3>5. JobsSound'
      BY <3>2, <3>3 DEF JobsSound, MainTypeOK
    <3>6. JobInHand'
      BY <3>2, <3>3, ControllerAssumption DEF JobInHand, MainTypeOK
    <3> QED
      BY <2>1, <3>4, <3>5, <3>6
  <2> QED
    BY <2>2, <2>3
<1>3. ASSUME NEW r \in RuleIds, SkipRule(c, r) PROVE IInv'
  <2>1. StoreTypeOK'
    BY <1>3, StoreFrame DEF SkipRule
  <2>2. MainTypeOK'
    BY <1>3, NextRuleTypes DEF SkipRule, MainTypeOK, deployVars, refreshVars
  <2>3. JobsSound' /\ JobInHand'
    BY <1>3, NextRuleTypes DEF SkipRule, JobsSound, JobInHand, deployVars
  <2> QED
    BY <2>1, <2>2, <2>3
<1> QED
  BY <1>1, <1>2, <1>3

(* A new version of the deployment, whoever caused it, with the count n:     *)
(* no decision is fresh any more, so none can be about another count.        *)
LEMMA OutdateIInv ==
  ASSUME IInv, NEW n \in Nat, replicas' = n,
         StoreTypeOK', hand' \in HandJob \cup {NoHand},
         UNCHANGED <<handled, cache, loop, watch, trigger, crashes>>,
         todo' \in [Watchers -> RuleMap],
         pc' \in [Watchers -> {"off", "wait", "eval", "update", "status"}],
         job' \in [Watchers -> Job \cup {NoJob}],
         \A c \in Watchers : \/ job'[c] = Outdated[c]
                             \/ job'[c] = NoJob /\ pc'[c] \in {"wait", "eval"},
         \A c \in Watchers : pc'[c] \in {"update", "status"} => pc[c] \in {"update", "status"}
  PROVE  IInv'
<1>1. MainTypeOK'
  BY DEF MainTypeOK, IInv, TypeOK
<1>2. JobsSound'
  BY OutdatedIsSound DEF JobsSound
<1>3. JobInHand'
  BY OutdatedIsSound DEF JobInHand, IInv
<1> QED
  BY <1>1, <1>2, <1>3 DEF IInv, TypeOK

(* The fields of a decision in hand.                                         *)
LEMMA JobFields ==
  ASSUME IInv, NEW c \in Watchers, pc[c] \in {"update", "status"}
  PROVE  /\ job[c] # NoJob /\ job[c] \in Job
         /\ job[c].rule \in RuleIds /\ job[c].body \in Bodies /\ job[c].value \in Values
         /\ job[c].from \in Int /\ job[c].to \in Int
  BY DEF IInv, TypeOK, MainTypeOK, JobInHand, Job

(* The main loop sends its decision, or gives it up.                         *)
LEMMA UpdateIInv ==
  ASSUME IInv, NEW c \in Watchers,
         UpdateDeployment(c) \/ UpdateReplyLost(c)
  PROVE  IInv'
<1>1. StoreTypeOK'
  BY StoreFrame DEF UpdateDeployment, UpdateReplyLost, IInv, TypeOK
<1>2. pc[c] = "update" /\ job[c].to \in Nat
  BY JobFields DEF UpdateDeployment, UpdateReplyLost, Accepts
<1>3. CASE UpdateDeployment(c)
  <2>1. /\ replicas' = job[c].to /\ job' = Outdated /\ hand' = OutdatedHand
        /\ pc' = [pc EXCEPT ![c] = "status"]
        /\ UNCHANGED <<handled, todo, cache, loop, watch, trigger, crashes>>
    BY <1>3 DEF UpdateDeployment, refreshVars
  <2>2. /\ pc' \in [Watchers -> {"off", "wait", "eval", "update", "status"}]
        /\ \A d \in Watchers : pc'[d] \in {"update", "status"} => pc[d] \in {"update", "status"}
        /\ todo' \in [Watchers -> RuleMap]
    BY <2>1, <1>2 DEF IInv, TypeOK, MainTypeOK
  <2> QED
    BY <1>1, <1>2, <2>1, <2>2, OutdatedIsSound, OutdateIInv
<1>4. CASE UpdateReplyLost(c)
  <2>1. /\ replicas' = job[c].to /\ hand' = OutdatedHand
        /\ job' = [Outdated EXCEPT ![c] = NoJob]
        /\ NextRule(c, job[c].rule)
        /\ UNCHANGED <<handled, cache, loop, watch, trigger, crashes>>
    BY <1>4 DEF UpdateReplyLost, refreshVars
  <2>2. /\ job' \in [Watchers -> Job \cup {NoJob}]
        /\ job'[c] = NoJob
        /\ \A d \in Watchers : d # c => job'[d] = Outdated[d]
    BY <2>1, OutdatedIsSound
  <2>3. /\ todo' \in [Watchers -> RuleMap]
        /\ pc' \in [Watchers -> {"off", "wait", "eval", "update", "status"}]
        /\ pc'[c] \in {"wait", "eval"}
        /\ \A d \in Watchers : d # c => pc'[d] = pc[d]
    BY <2>1, NextRuleTypes DEF IInv, TypeOK
  <2> QED
    BY <1>1, <1>2, <2>1, <2>2, <2>3, OutdatedIsSound, OutdateIInv
<1> QED
  BY <1>3, <1>4

LEMMA DropIInv ==
  ASSUME IInv, NEW c \in Watchers,
         UpdateFails(c) \/ WriteStatus(c) \/ StatusFails(c)
  PROVE  IInv'
<1>1. pc[c] \in {"update", "status"}
  BY DEF UpdateFails, WriteStatus, StatusFails
<1>2. StoreTypeOK'
  BY <1>1, JobFields, StoreFrame, StatusTypes
  DEF UpdateFails, WriteStatus, StatusFails, IInv, TypeOK
<1>3. /\ Drop(c)
      /\ UNCHANGED <<replicas, hand, handled, cache, loop, watch, trigger, crashes>>
  BY DEF UpdateFails, WriteStatus, StatusFails, deployVars, refreshVars
<1>4. /\ todo' \in [Watchers -> RuleMap]
      /\ pc' \in [Watchers -> {"off", "wait", "eval", "update", "status"}]
      /\ pc'[c] \in {"wait", "eval"}
      /\ \A d \in Watchers : d # c => pc'[d] = pc[d]
  BY <1>3, NextRuleTypes DEF Drop, IInv, TypeOK
<1>5. /\ job' = [job EXCEPT ![c] = NoJob]
      /\ job' \in [Watchers -> Job \cup {NoJob}]
  BY <1>3 DEF Drop, IInv, TypeOK, MainTypeOK
<1>6. MainTypeOK'
  BY <1>3, <1>4, <1>5 DEF MainTypeOK, IInv, TypeOK
<1>7. JobsSound' /\ JobInHand'
  BY <1>3, <1>4, <1>5 DEF JobsSound, JobInHand, IInv, TypeOK, MainTypeOK
<1> QED
  BY <1>2, <1>6, <1>7 DEF IInv, TypeOK

(* Kubernetes and the operators.                                             *)
LEMMA OthersIInv ==
  ASSUME IInv, DeploymentStatus \/ (\E n \in Targets : HandRead(n)) \/ HandWrite
  PROVE  IInv'
<1>1. StoreTypeOK'
  BY StoreFrame DEF DeploymentStatus, HandRead, HandWrite, IInv, TypeOK
<1>2. CASE DeploymentStatus
  <2>1. /\ replicas' = replicas /\ replicas \in Nat
        /\ job' = Outdated /\ hand' = OutdatedHand
        /\ UNCHANGED <<handled, pc, todo, cache, loop, watch, trigger, crashes>>
    BY <1>2 DEF DeploymentStatus, refreshVars, IInv, TypeOK, MainTypeOK
  <2>2. /\ pc' \in [Watchers -> {"off", "wait", "eval", "update", "status"}]
        /\ todo' \in [Watchers -> RuleMap]
    BY <2>1 DEF IInv, TypeOK, MainTypeOK
  <2> QED
    BY <1>1, <2>1, <2>2, OutdatedIsSound, OutdateIInv
<1>3. ASSUME NEW n \in Targets, HandRead(n) PROVE IInv'
  <2>1. [target |-> n, fresh |-> TRUE] \in HandJob
    BY DEF HandJob
  <2>2. MainTypeOK'
    BY <1>3, <2>1 DEF HandRead, ctlVars, MainTypeOK, IInv, TypeOK
  <2> QED
    BY <1>1, <1>3, <2>2, JobFrame DEF HandRead, ctlVars, IInv, TypeOK
<1>4. CASE HandWrite
  <2>1. /\ hand' = NoHand
        /\ UNCHANGED <<handled, pc, todo, cache, loop, watch, trigger, crashes>>
    BY <1>4 DEF HandWrite, refreshVars
  <2>2. /\ pc' \in [Watchers -> {"off", "wait", "eval", "update", "status"}]
        /\ todo' \in [Watchers -> RuleMap]
    BY <2>1 DEF IInv, TypeOK, MainTypeOK
  <2>3. CASE Accepts(hand, hand.target) /\ replicas' = hand.target /\ job' = Outdated
    <3>1. hand.target \in Nat
      BY <1>4, <2>3, ControllerAssumption
      DEF HandWrite, Accepts, IInv, TypeOK, MainTypeOK, HandJob, Int32, IntMin
    <3> QED
      BY <1>1, <2>1, <2>2, <2>3, <3>1, OutdatedIsSound, OutdateIInv
  <2>4. CASE UNCHANGED <<replicas, job>>
    <3>1. MainTypeOK'
      BY <2>1, <2>4 DEF MainTypeOK, IInv, TypeOK
    <3> QED
      BY <1>1, <2>1, <2>4, <3>1, JobFrame DEF IInv, TypeOK
  <2> QED
    BY <1>4, <2>3, <2>4 DEF HandWrite
<1> QED
  BY <1>2, <1>3, <1>4

(* Every step keeps the invariant.                                           *)
LEMMA NextIInv == IInv /\ [Next]_vars => IInv'
<1> SUFFICES ASSUME IInv, [Next]_vars PROVE IInv'
  OBVIOUS
<1>1. ASSUME NEW c \in Watchers, ControllerStep(c) PROVE IInv'
  BY <1>1, LifeCycleIInv, RefreshIInv, EvaluateIInv, UpdateIInv, DropIInv DEF ControllerStep
<1>2. CASE UNCHANGED vars
  <2>1. StoreTypeOK'
    BY <1>2, StoreFrame DEF vars, IInv, TypeOK
  <2>2. MainTypeOK'
    BY <1>2 DEF vars, deployVars, ctlVars, IInv, TypeOK, MainTypeOK
  <2>3. JobsSound' /\ JobInHand'
    BY <1>2, JobFrame DEF vars, deployVars, ctlVars
  <2> QED
    BY <2>1, <2>2, <2>3 DEF IInv, TypeOK
<1> QED
  BY <1>1, <1>2, StoreStepIInv, OthersIInv DEF Next

LEMMA Invariance == Spec => []IInv
  BY InitIInv, NextIInv, PTL DEF Spec

(* The types hold for every number of controllers, rules and requests.       *)
THEOREM TypeCorrect == Spec => []TypeOK
<1>1. IInv => TypeOK
  BY DEF IInv
<1> QED
  BY <1>1, Invariance, PTL

-----------------------------------------------------------------------------
(* What a step may do to the replica count: nothing, one whole decision on   *)
(* the count it replaces, or what an operator asked for.                     *)
LEMMA StepOnReplicas ==
  ASSUME IInv, Next
  PROVE  \/ UNCHANGED replicas
         \/ \E body \in Bodies, value \in Values :
              replicas' = DecideReplicas(replicas, value, body) /\ replicas' >= 0
         \/ \E n \in Targets : n >= 0 /\ replicas' = n
<1> DEFINE Decided == \E body \in Bodies, value \in Values :
              replicas' = DecideReplicas(replicas, value, body) /\ replicas' >= 0
           Asked == \E n \in Targets : n >= 0 /\ replicas' = n
<1>1. CASE StoreStep
  BY <1>1 DEF StoreStep, deployVars
<1>2. ASSUME NEW c \in Watchers, ControllerStep(c) PROVE UNCHANGED replicas \/ Decided
  <2>1. CASE UpdateDeployment(c) \/ UpdateReplyLost(c)
    <3>1. pc[c] = "update" /\ replicas' = job[c].to /\ job[c].fresh /\ job[c].to >= 0
      BY <2>1 DEF UpdateDeployment, UpdateReplyLost, Accepts
    <3>2. /\ job[c].body \in Bodies /\ job[c].value \in Values
          /\ job[c].to = DecideReplicas(job[c].from, job[c].value, job[c].body)
          /\ job[c].from = replicas
      BY <3>1, JobFields DEF IInv, JobsSound
    <3> QED
      BY <3>1, <3>2
  <2>2. CASE \/ Boot(c) \/ OpenStream(c) \/ Crash(c) \/ LoopRead(c) \/ LoopStore(c)
             \/ WatchTake(c) \/ WatchRead(c) \/ WatchFails(c) \/ WatchStore(c)
             \/ MetricEvent(c) \/ StartEvaluation(c)
    BY <2>2 DEF Boot, OpenStream, Crash, LoopRead, LoopStore, WatchTake, WatchRead,
                WatchFails, WatchStore, MetricEvent, StartEvaluation, deployVars
  <2>3. CASE \/ \E r \in RuleIds, value \in Values : EvaluateRule(c, r, value)
             \/ \E r \in RuleIds : SkipRule(c, r)
             \/ UpdateFails(c) \/ WriteStatus(c) \/ StatusFails(c)
    BY <2>3 DEF EvaluateRule, SkipRule, UpdateFails, WriteStatus, StatusFails, deployVars
  <2> QED
    BY <1>2, <2>1, <2>2, <2>3 DEF ControllerStep
<1>3. CASE DeploymentStatus
  BY <1>3 DEF DeploymentStatus
<1>4. ASSUME NEW n \in Targets, HandRead(n) PROVE UNCHANGED replicas
  BY <1>4 DEF HandRead
<1>5. CASE HandWrite
  BY <1>5 DEF HandWrite, Accepts, IInv, TypeOK, MainTypeOK, HandJob
<1> QED
  BY <1>1, <1>2, <1>3, <1>4, <1>5 DEF Next

(* The abstract specification decides with the same arithmetic.              *)
LEMMA SameDecision ==
  ASSUME NEW n, NEW value, NEW body
  PROVE  Scaler!DecideReplicas(n, value, body) = DecideReplicas(n, value, body)
  BY DEF DecideReplicas, Acts, ConditionMet, ActionOf, KnownActions, CutToMax, EffectiveMax,
         RaiseToMin, Moved, StepOf, Wrap32, IntMin,
         Scaler!DecideReplicas, Scaler!Acts, Scaler!ConditionMet, Scaler!ActionOf,
         Scaler!KnownActions, Scaler!CutToMax, Scaler!EffectiveMax, Scaler!RaiseToMin,
         Scaler!Moved, Scaler!StepOf, Scaler!Wrap32, Scaler!IntMin

(* Any number of controllers, with stale caches, crashes, lost replies and   *)
(* operators beside them, scale the deployment as one atomic scaler would:   *)
(* no decision is ever applied to a count it was not taken on.               *)
THEOREM Atomicity == Spec => ScalesAtomically
<1>1. Init => Scaler!Init
  BY DEF Init, Scaler!Init
<1>2. IInv /\ [Next]_vars => [Scaler!Next]_replicas
  <2> SUFFICES ASSUME IInv, Next PROVE Scaler!Next \/ UNCHANGED replicas
    BY DEF vars, deployVars
  <2> QED
    BY StepOnReplicas, SameDecision DEF Scaler!Next, Scaler!Scale, Scaler!ScaleByHand
<1> QED
  BY <1>1, <1>2, Invariance, PTL DEF Spec, ScalesAtomically, Scaler!Spec

(* If every rule has positive bounds, the replica count never leaves what    *)
(* the deployment started with, what operators asked for and what the        *)
(* bounds of some rule allow, also where the addition of a step overflows.   *)
THEOREM Bounds == Spec => []StaysPermitted
<1>1. Init => StaysPermitted
  BY DEF Init, StaysPermitted, Permitted
<1>2. IInv /\ StaysPermitted /\ [Next]_vars => StaysPermitted'
  <2> SUFFICES ASSUME IInv, StaysPermitted, Next,
                      \A b \in Bodies : b.minReplicas > 0 /\ b.maxReplicas > 0
               PROVE  replicas' \in Permitted
    BY DEF StaysPermitted, vars, deployVars
  <2>1. replicas \in Permitted /\ replicas \in Int
    BY DEF StaysPermitted, IInv, TypeOK, MainTypeOK
  <2>2. ASSUME NEW body \in Bodies, NEW value \in Values,
               replicas' = DecideReplicas(replicas, value, body)
        PROVE  replicas' \in Permitted
    <3>1. body \in RuleBody /\ value \in Int
      BY ControllerAssumption
    <3>2. replicas' = replicas \/ replicas' \in body.minReplicas .. EffectiveMax(body)
      BY <2>1, <2>2, <3>1, DecisionIsWithin
    <3> QED
      BY <2>1, <3>2 DEF Permitted
  <2> QED
    BY <2>1, <2>2, StepOnReplicas DEF Permitted
<1> QED
  BY <1>1, <1>2, Invariance, PTL DEF Spec

(* With several controllers, stale caches, lost replies and operators, still *)
(* every change of the count that no operator asked for brings it nearer to  *)
(* the bound of a rule that acts: controllers that scale at once do not carry *)
(* it past the bound they drive it to.                                       *)
THEOREM ChangesApproachABound ==
  Spec => [][(/\ \A b \in Bodies : /\ b.minReplicas > 0 /\ b.maxReplicas > 0
                                   /\ replicas + StepOf(b) <= IntMax
              /\ replicas' # replicas /\ replicas' \notin Targets)
               => \E b \in Bodies, value \in Values :
                    Acts(value, b) /\ Approaches(replicas, replicas', BoundOf(b))]_vars
<1> DEFINE Nearer ==
      (/\ \A b \in Bodies : /\ b.minReplicas > 0 /\ b.maxReplicas > 0
                            /\ replicas + StepOf(b) <= IntMax
       /\ replicas' # replicas /\ replicas' \notin Targets)
        => \E b \in Bodies, value \in Values :
             Acts(value, b) /\ Approaches(replicas, replicas', BoundOf(b))
<1>1. IInv /\ [Next]_vars => [Nearer]_vars
  <2> SUFFICES ASSUME IInv, Next, replicas' # replicas, replicas' \notin Targets,
                      \A b \in Bodies : /\ b.minReplicas > 0 /\ b.maxReplicas > 0
                                        /\ replicas + StepOf(b) <= IntMax
               PROVE  \E b \in Bodies, value \in Values :
                        Acts(value, b) /\ Approaches(replicas, replicas', BoundOf(b))
    OBVIOUS
  <2>1. PICK b \in Bodies, value \in Values : replicas' = DecideReplicas(replicas, value, b)
    BY StepOnReplicas
  <2>2. b \in RuleBody /\ value \in Int /\ replicas \in Nat
    BY ControllerAssumption DEF IInv, TypeOK, MainTypeOK
  <2>3. Acts(value, b)
    BY <2>1 DEF DecideReplicas
  <2> QED
    BY <2>1, <2>2, <2>3, ActionsApproachTheirBound
<1> QED
  BY <1>1, Invariance, PTL DEF Spec

-----------------------------------------------------------------------------
(* All a controller does to the store is write a status and read its stream. *)
LEMMA ControllersUseTheStore == IInv /\ [Next]_vars => [StoreUse]_storeVars
<1> SUFFICES ASSUME IInv, Next PROVE StoreUse \/ UNCHANGED storeVars
  BY DEF vars
<1>1. CASE StoreStep
  BY <1>1 DEF StoreStep, StoreUse
<1>2. ASSUME NEW c \in Watchers, ControllerStep(c) PROVE StoreUse \/ UNCHANGED storeVars
  <2>1. CASE OpenStream(c) \/ Crash(c) \/ WatchTake(c)
    BY <2>1 DEF OpenStream, Crash, WatchTake, StoreUse
  <2>2. CASE WriteStatus(c)
    <3>1. job[c].rule \in RuleIds /\ job[c].to \in Int
      BY <2>2, JobFields DEF WriteStatus, IInv, JobInHand
    <3> QED
      BY <2>2, <3>1 DEF WriteStatus, StoreUse
  <2>3. CASE \/ Boot(c) \/ LoopRead(c) \/ LoopStore(c) \/ WatchRead(c) \/ WatchFails(c)
             \/ WatchStore(c) \/ MetricEvent(c) \/ StartEvaluation(c)
    BY <2>3 DEF Boot, LoopRead, LoopStore, WatchRead, WatchFails, WatchStore,
                MetricEvent, StartEvaluation
  <2>4. CASE \/ \E r \in RuleIds, value \in Values : EvaluateRule(c, r, value)
             \/ \E r \in RuleIds : SkipRule(c, r)
             \/ UpdateDeployment(c) \/ UpdateReplyLost(c) \/ UpdateFails(c) \/ StatusFails(c)
    BY <2>4 DEF EvaluateRule, SkipRule, UpdateDeployment, UpdateReplyLost, UpdateFails,
                StatusFails
  <2> QED
    BY <1>2, <2>1, <2>2, <2>3, <2>4 DEF ControllerStep
<1>3. CASE DeploymentStatus \/ (\E n \in Targets : HandRead(n)) \/ HandWrite
  BY <1>3 DEF DeploymentStatus, HandRead, HandWrite
<1> QED
  BY <1>1, <1>2, <1>3 DEF Next

(* With any number of controllers that crash, act on deleted rules and write *)
(* statuses late: a deleted rule stays deleted until it is inserted again, and *)
(* a toggle loses no edit and no status.                                     *)
THEOREM StoreIsSafeInUse == Spec => RevivedByCreateOnly /\ EditsSurviveToggle
<1> DEFINE Keeps ==
      \A q \in Requests :
        (toggling[q] # NoToggle /\ toggling'[q] # toggling[q])
          => \A r \in RuleIds :
               InDb(r) => InDb(r)' /\ db'[r].body = db[r].body
                                   /\ db'[r].lastTo = db[r].lastTo
<1>1. IInv /\ [Next]_vars => [RevivedAreCreated]_storeVars
  BY ControllersUseTheStore, NoResurrection DEF IInv, TypeOK, RevivedAreCreated
<1>2. IInv /\ [Next]_vars => [Keeps]_storeVars
  BY ControllersUseTheStore, ToggleLosesNothing DEF IInv, TypeOK
<1> QED
  BY <1>1, <1>2, Invariance, PTL DEF Spec, RevivedByCreateOnly, RevivedAreCreated, EditsSurviveToggle

-----------------------------------------------------------------------------
(* A controller knows the enabled rules, and so does each of its goroutines  *)
(* that is about to store what it has read.                                  *)
UpToDate(c) ==
  /\ pc[c] # "off" /\ cache[c] = EnabledRules
  /\ loop[c] \in {Idle, EnabledRules} /\ watch[c] \in {Idle, Reading, EnabledRules}

(* The half of CachesConverge that needs no fairness: a controller that is up *)
(* to date, with no older read left in its two goroutines, stays so until the *)
(* rules change or the daemon is killed; no event, failed read, lost stream or *)
(* other controller brings an older rule back into its cache.                *)
THEOREM UpToDateStays ==
  Spec => [][\A c \in Watchers :
               UpToDate(c) /\ EnabledRules' = EnabledRules /\ pc'[c] # "off" => UpToDate(c)']_vars
<1> DEFINE Stays == \A c \in Watchers :
             UpToDate(c) /\ EnabledRules' = EnabledRules /\ pc'[c] # "off" => UpToDate(c)'
<1>1. IInv /\ [Next]_vars => [Stays]_vars
  <2> SUFFICES ASSUME IInv, Next, NEW c \in Watchers, UpToDate(c),
                      EnabledRules' = EnabledRules, pc'[c] # "off"
               PROVE  UpToDate(c)'
    OBVIOUS
  <2>1. EnabledRules \in RuleMap /\ EnabledRules # Idle /\ EnabledRules # Reading
    BY EnabledRulesType, ControllerAssumption DEF IInv, TypeOK
  <2>2. ASSUME UNCHANGED refreshVars PROVE UpToDate(c)'
    BY <2>2 DEF UpToDate, refreshVars
  <2>3. CASE StoreStep \/ DeploymentStatus \/ (\E n \in Targets : HandRead(n)) \/ HandWrite
    BY <2>2, <2>3 DEF StoreStep, DeploymentStatus, HandRead, HandWrite, ctlVars, refreshVars
  <2>4. ASSUME NEW d \in Watchers, ControllerStep(d) PROVE UpToDate(c)'
    <3>1. CASE Boot(d) \/ Crash(d)
      BY <2>1, <3>1 DEF Boot, Crash, UpToDate, IInv, TypeOK, MainTypeOK
    <3>2. CASE LoopRead(d) \/ LoopStore(d)
      BY <2>1, <3>2 DEF LoopRead, LoopStore, UpToDate, IInv, TypeOK, MainTypeOK
    <3>3. CASE WatchTake(d) \/ WatchRead(d) \/ WatchFails(d) \/ WatchStore(d)
      BY <2>1, <3>3 DEF WatchTake, WatchRead, WatchFails, WatchStore, UpToDate,
                        IInv, TypeOK, MainTypeOK
    <3>4. CASE OpenStream(d) \/ MetricEvent(d) \/ StartEvaluation(d)
      BY <2>2, <3>4 DEF OpenStream, MetricEvent, StartEvaluation, ctlVars, refreshVars
    <3>5. CASE \/ \E r \in RuleIds, value \in Values : EvaluateRule(d, r, value)
               \/ \E r \in RuleIds : SkipRule(d, r)
               \/ UpdateDeployment(d) \/ UpdateReplyLost(d) \/ UpdateFails(d)
               \/ WriteStatus(d) \/ StatusFails(d)
      BY <2>2, <3>5 DEF EvaluateRule, SkipRule, UpdateDeployment, UpdateReplyLost,
                        UpdateFails, WriteStatus, StatusFails
    <3> QED
      BY <2>4, <3>1, <3>2, <3>3, <3>4, <3>5 DEF ControllerStep
  <2> QED
    BY <2>3, <2>4 DEF Next
<1> QED
  BY <1>1, Invariance, PTL DEF Spec
-----------------------------------------------------------------------------
(* An event is on its way to watchRuleChanges: in the stream, or as the      *)
(* token in the events channel.                                              *)
Announced(c) == pending[c] > 0 \/ signal[c]

(* A request of the API changes the rules only if every open stream hears it.*)
LEMMA RequestsNotify ==
  ASSUME StoreTypeOK, RestCall
  PROVE  NotifyWatchers \/ UNCHANGED <<db, streams>>
<1>1. ASSUME NEW r \in RuleIds, NEW document, SetDocument(r, document)
      PROVE  NotifyWatchers \/ UNCHANGED <<db, streams>>
  BY <1>1 DEF SetDocument, StoreTypeOK
<1>2. ASSUME NEW r \in RuleIds, NEW b \in Bodies, NEW e \in BOOLEAN,
             CreateScalingRule(r, b, e) \/ UpdateScalingRule(r, b, e)
      PROVE  NotifyWatchers \/ UNCHANGED <<db, streams>>
  BY <1>1, <1>2 DEF CreateScalingRule, UpdateScalingRule
<1>3. ASSUME NEW r \in RuleIds, DeleteScalingRule(r)
      PROVE  NotifyWatchers \/ UNCHANGED <<db, streams>>
  BY <1>1, <1>3 DEF DeleteScalingRule
<1>4. ASSUME NEW q \in Requests, NEW r \in RuleIds, ToggleRead(q, r)
      PROVE  UNCHANGED <<db, streams>>
  BY <1>4 DEF ToggleRead
<1>5. ASSUME NEW q \in Requests, ToggleWrite(q)
      PROVE  NotifyWatchers \/ UNCHANGED <<db, streams>>
  <2>1. toggling[q].rule \in RuleIds
    BY <1>5, TogglingIsToggle DEF ToggleWrite, ToggleEnds
  <2> QED
    BY <1>1, <1>5, <2>1 DEF ToggleWrite
<1>6. ASSUME NEW q \in Requests, ToggleFails(q) PROVE UNCHANGED <<db, streams>>
  BY <1>6 DEF ToggleFails
<1> QED
  BY <1>2, <1>3, <1>4, <1>5, <1>6 DEF RestCall

(* No change of the rules escapes an open stream, and from then on an event  *)
(* stays under way until watchRuleChanges reads the rules again, the stream  *)
(* ends or the daemon is killed: events that come while the channel is full  *)
(* are in the token that fills it.  What EventLeadsToRead adds is that the   *)
(* read happens.                                                             *)
THEOREM ChangesAreHeard ==
  Spec => [][\A c \in Watchers :
               /\ stream[c] = "open" /\ EnabledRules' # EnabledRules => Announced(c)'
               /\ Announced(c) => Announced(c)' \/ watch'[c] = Reading \/ stream'[c] # "open"]_vars
<1> DEFINE Heard(c) == stream[c] = "open" /\ EnabledRules' # EnabledRules => Announced(c)'
           Kept(c) == Announced(c) => Announced(c)' \/ watch'[c] = Reading \/ stream'[c] # "open"
           HeardAndKept == \A c \in Watchers :
             /\ stream[c] = "open" /\ EnabledRules' # EnabledRules => Announced(c)'
             /\ Announced(c) => Announced(c)' \/ watch'[c] = Reading \/ stream'[c] # "open"
<1>1. IInv /\ [Next]_vars => [HeardAndKept]_vars
  <2> SUFFICES ASSUME IInv, Next, NEW c \in Watchers PROVE Heard(c) /\ Kept(c)
    OBVIOUS
  <2> USE DEF IInv, TypeOK, StoreTypeOK, MainTypeOK
  <2>1. ASSUME db' = db PROVE Heard(c)
    BY <2>1 DEF EnabledRules, Enabled, InDb
  <2>2. ASSUME NotifyWatchers \/ UNCHANGED <<db, streams>> PROVE Heard(c) /\ Kept(c)
    <3>1. CASE NotifyWatchers
      BY <3>1 DEF NotifyWatchers, Announced
    <3>2. CASE UNCHANGED <<db, streams>>
      BY <2>1, <3>2 DEF streams, Announced
    <3> QED
      BY <2>2, <3>1, <3>2
  <2>3. CASE StoreStep
    <3>1. CASE RestCall
      BY <2>2, <3>1, RequestsNotify
    <3>2. ASSUME NEW w \in Watchers, StreamNext(w) \/ StreamEnds(w) PROVE Heard(c) /\ Kept(c)
      BY <2>1, <3>2 DEF StreamNext, StreamEnds, collection, Announced
    <3> QED
      BY <2>3, <3>1, <3>2 DEF StoreStep
  <2>4. ASSUME NEW d \in Watchers, ControllerStep(d) PROVE Heard(c) /\ Kept(c)
    <3>1. CASE OpenStream(d)
      BY <2>1, <3>1 DEF OpenStream, StreamOpens, StreamRefused, collection, Announced
    <3>2. CASE Crash(d)
      BY <2>1, <3>2 DEF Crash, StreamCloses, collection, Announced
    <3>3. CASE WatchTake(d)
      BY <2>1, <3>3 DEF WatchTake, TakeSignal, collection, Announced
    <3>4. CASE WriteStatus(d)
      BY <2>2, <3>4 DEF WriteStatus, UpdateScalingRuleStatus
    <3>5. CASE \/ Boot(d) \/ LoopRead(d) \/ LoopStore(d) \/ WatchRead(d) \/ WatchFails(d)
               \/ WatchStore(d) \/ MetricEvent(d) \/ StartEvaluation(d)
      BY <2>2, <3>5 DEF Boot, LoopRead, LoopStore, WatchRead, WatchFails, WatchStore,
                        MetricEvent, StartEvaluation, storeVars, streams
    <3>6. CASE \/ \E r \in RuleIds, value \in Values : EvaluateRule(d, r, value)
               \/ \E r \in RuleIds : SkipRule(d, r)
               \/ UpdateDeployment(d) \/ UpdateReplyLost(d) \/ UpdateFails(d) \/ StatusFails(d)
      BY <2>2, <3>6 DEF EvaluateRule, SkipRule, UpdateDeployment, UpdateReplyLost, UpdateFails,
                        StatusFails, storeVars, streams
    <3> QED
      BY <2>4, <3>1, <3>2, <3>3, <3>4, <3>5, <3>6 DEF ControllerStep
  <2>5. CASE DeploymentStatus \/ (\E n \in Targets : HandRead(n)) \/ HandWrite
    BY <2>2, <2>5 DEF DeploymentStatus, HandRead, HandWrite, storeVars, streams
  <2> QED
    BY <2>3, <2>4, <2>5 DEF Next
<1> QED
  BY <1>1, Invariance, PTL DEF Spec
=============================================================================
