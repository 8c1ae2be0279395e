------------------------------ MODULE RuleStore ------------------------------
(***************************************************************************)
(* The scaling rules in MongoDB (pkg/scaling/store.go), the REST calls that *)
(* change them (pkg/api/scaling.go) and the change stream that tells every  *)
(* daemon that something changed (WatchRuleChanges).                        *)
(*                                                                          *)
(* A call that is one Mongo command is one step: Mongo applies a command    *)
(* atomically.  ToggleScalingRule is two commands, a FindOne and a          *)
(* FindOneAndUpdate, so it is two steps with anything in between.  A call    *)
(* that fails changes nothing and is a stuttering step.                     *)
(***************************************************************************)
EXTENDS Integers, FiniteSets

CONSTANTS
  RuleIds,      \* ObjectIDs
  Bodies,       \* what a rule says besides being enabled, defaults applied
  Stored,       \* the bodies of rules an earlier run may have left in the database
  Watchers,     \* the daemons that watch the collection
  Requests,     \* REST requests that may be toggling a rule at a time
  MaxWrites,    \* bound on the REST writes of a behaviour
  NoRule,       \* the id is not in the collection
  NoToggle      \* the request is not in the middle of a toggle

(* lastTo is the replica count the status fields report, 0 if none yet. *)
Document == [enabled : BOOLEAN, body : Bodies, lastTo : Int]

(* What a request holds between the two commands of a toggle. *)
Toggle == [rule : RuleIds, current : Document]

ASSUME RuleStoreAssumption ==
  /\ MaxWrites \in Nat
  /\ Stored \subseteq Bodies
  /\ NoRule \notin Document
  /\ NoToggle \notin Toggle

VARIABLES
  db,           \* the collection: a document, or NoRule, for every id
  writes,       \* REST writes so far, to bound the model
  toggling,     \* per request: the document ToggleScalingRule has read
  reply,        \* per request: how its last toggle was answered
  stream,       \* per watcher: its change stream is not opened yet, open or ended
  pending,      \* per watcher: change events its stream has not delivered
  signal        \* per watcher: the events channel (capacity one) holds a token

collection == <<db, writes>>
requests == <<toggling, reply>>
streams == <<stream, pending, signal>>
storeVars == <<db, writes, toggling, reply, stream, pending, signal>>

InDb(r) == db[r] # NoRule

StoreInit ==
  /\ db \in [RuleIds -> [enabled : BOOLEAN, body : Stored, lastTo : {0}] \cup {NoRule}]
  /\ writes = 0
  /\ toggling = [q \in Requests |-> NoToggle]
  /\ reply = [q \in Requests |-> "none"]
  /\ stream = [w \in Watchers |-> "unopened"]
  /\ pending = [w \in Watchers |-> 0]
  /\ signal = [w \in Watchers |-> FALSE]

-----------------------------------------------------------------------------
(* Every insert, update or delete is an event on every live change stream. *)
NotifyWatchers ==
  /\ pending' = [w \in Watchers |-> IF stream[w] = "open" THEN pending[w] + 1 ELSE pending[w]]
  /\ UNCHANGED <<stream, signal>>

SetDocument(r, document) ==
  /\ db' = [db EXCEPT ![r] = document]
  /\ IF document # db[r] THEN NotifyWatchers ELSE UNCHANGED streams

CountWrite == writes < MaxWrites /\ writes' = writes + 1

(* POST /api/scaling/rules.  The id is the one the body carries, which may   *)
(* be that of a rule deleted before, or else a fresh one; an insert of an id *)
(* in use fails.  Clients leave the status fields to the controllers.       *)
CreateScalingRule(r, body, enabled) ==
  /\ ~InDb(r)
  /\ CountWrite
  /\ SetDocument(r, [enabled |-> enabled, body |-> body, lastTo |-> 0])
  /\ UNCHANGED requests

(* PUT /api/scaling/rules/{id}: $set of the given fields, status untouched. *)
UpdateScalingRule(r, body, enabled) ==
  /\ InDb(r)
  /\ CountWrite
  /\ SetDocument(r, [db[r] EXCEPT !.body = body, !.enabled = enabled])
  /\ UNCHANGED requests

(* DELETE /api/scaling/rules/{id}. *)
DeleteScalingRule(r) ==
  /\ InDb(r)
  /\ CountWrite
  /\ SetDocument(r, NoRule)
  /\ UNCHANGED requests

(* POST /api/scaling/rules/{id}/toggle: read the flag... *)
ToggleRead(q, r) ==
  /\ toggling[q] = NoToggle
  /\ InDb(r)
  /\ CountWrite
  /\ toggling' = [toggling EXCEPT ![q] = [rule |-> r, current |-> db[r]]]
  /\ reply' = [reply EXCEPT ![q] = "none"]
  /\ UNCHANGED <<db, streams>>

ToggleEnds(q, answer) ==
  /\ toggling[q] # NoToggle
  /\ toggling' = [toggling EXCEPT ![q] = NoToggle]
  /\ reply' = [reply EXCEPT ![q] = answer]
  /\ UNCHANGED writes

(* Faulty variants of ToggleWrite: the second command is an upsert, or it   *)
(* replaces the whole document by the one the first has read.               *)
ToggleUpserts(q) ==
  LET r == toggling[q].rule
      document == IF InDb(r) THEN db[r] ELSE toggling[q].current IN
  /\ ToggleEnds(q, "ok")
  /\ SetDocument(r, [document EXCEPT !.enabled = ~toggling[q].current.enabled])
ToggleReplaces(q) ==
  LET r == toggling[q].rule IN
  /\ ToggleEnds(q, "ok")
  /\ InDb(r)
  /\ SetDocument(r, [toggling[q].current EXCEPT !.enabled = ~@])

(* ... and set it to the negation of what was read. *)
ToggleWrite(q) ==
  LET r == toggling[q].rule IN
  /\ ToggleEnds(q, "ok")
  /\ InDb(r)
  /\ SetDocument(r, [db[r] EXCEPT !.enabled = ~toggling[q].current.enabled])

(* The second command finds no such rule, or Mongo does not answer it. *)
ToggleFails(q) ==
  /\ ToggleEnds(q, "error")
  /\ UNCHANGED <<db, streams>>

(* UpdateScalingRuleStatus, called by a controller after a scale action.  It *)
(* writes a fresh time stamp, so it is an event even if lastTo stays.       *)
UpdateScalingRuleStatus(r, to) ==
  /\ \/ /\ InDb(r)
        /\ db' = [db EXCEPT ![r].lastTo = to]
        /\ NotifyWatchers
     \/ ~InDb(r) /\ UNCHANGED <<db, streams>>
  /\ UNCHANGED <<writes, requests>>

-----------------------------------------------------------------------------
(* collection.Watch succeeds: events from now on are delivered. *)
StreamOpens(w) ==
  /\ stream[w] = "unopened"
  /\ stream' = [stream EXCEPT ![w] = "open"]
  /\ UNCHANGED <<collection, requests, pending, signal>>

(* collection.Watch fails, as it does on a server that is not a replica set: *)
(* WatchRuleChanges returns an error and the caller gives up on watching.   *)
StreamRefused(w) ==
  /\ stream[w] = "unopened"
  /\ stream' = [stream EXCEPT ![w] = "ended"]
  /\ UNCHANGED <<collection, requests, pending, signal>>

(* Faulty variants of StreamNext: a channel without room for a token, and a  *)
(* loop that does not wait for events.                                      *)
StreamNextDrops(w) ==
  /\ pending[w] > 0
  /\ pending' = [pending EXCEPT ![w] = @ - 1]
  /\ UNCHANGED <<collection, requests, stream, signal>>
StreamNextSpins(w) ==
  /\ stream[w] = "open"
  /\ pending' = [pending EXCEPT ![w] = @ - 1]
  /\ signal' = [signal EXCEPT ![w] = TRUE]
  /\ UNCHANGED <<collection, requests, stream>>

(* stream.Next returns: put a token in the channel unless it holds one. *)
StreamNext(w) ==
  /\ pending[w] > 0
  /\ pending' = [pending EXCEPT ![w] = @ - 1]
  /\ signal' = [signal EXCEPT ![w] = TRUE]
  /\ UNCHANGED <<collection, requests, stream>>

(* stream.Next returns false (an error, a failover): the goroutine closes   *)
(* the channel and nobody opens the stream again.                           *)
StreamEnds(w) ==
  /\ stream[w] = "open"
  /\ stream' = [stream EXCEPT ![w] = "ended"]
  /\ pending' = [pending EXCEPT ![w] = 0]
  /\ UNCHANGED <<collection, requests, signal>>

(* The watching process is gone; its successor opens a stream of its own.   *)
StreamCloses(w) ==
  /\ stream' = [stream EXCEPT ![w] = "unopened"]
  /\ pending' = [pending EXCEPT ![w] = 0]
  /\ signal' = [signal EXCEPT ![w] = FALSE]
  /\ UNCHANGED <<collection, requests>>

(* The watcher receives the token. *)
TakeSignal(w) ==
  /\ signal[w]
  /\ signal' = [signal EXCEPT ![w] = FALSE]
  /\ UNCHANGED <<collection, requests, stream, pending>>

RestCall ==
  \/ \E r \in RuleIds, b \in Bodies, e \in BOOLEAN :
        CreateScalingRule(r, b, e) \/ UpdateScalingRule(r, b, e)
  \/ \E r \in RuleIds : DeleteScalingRule(r)
  \/ \E q \in Requests, r \in RuleIds : ToggleRead(q, r)
  \/ \E q \in Requests : ToggleWrite(q) \/ ToggleFails(q)

-----------------------------------------------------------------------------
StoreTypeOK ==
  /\ db \in [RuleIds -> Document \cup {NoRule}]
  /\ writes \in 0 .. MaxWrites
  /\ toggling \in [Requests -> Toggle \cup {NoToggle}]
  /\ reply \in [Requests -> {"none", "ok", "error"}]
  /\ stream \in [Watchers -> {"unopened", "open", "ended"}]
  /\ pending \in [Watchers -> Nat]
  /\ signal \in [Watchers -> BOOLEAN]

(* A deleted rule stays deleted until a client inserts it again: neither a   *)
(* toggle that read it before nor an edit or a late status write brings it   *)
(* back (no command of store.go is an upsert).                              *)
RevivedByCreateOnly ==
  [][\A r \in RuleIds :
       ~InDb(r) /\ InDb(r)' => \E b \in Bodies, e \in BOOLEAN : CreateScalingRule(r, b, e)]_storeVars

(* A toggle writes the enabled flag only: an edit made between its read and  *)
(* its write survives (ToggleScalingRule, store.go).                        *)
EditsSurviveToggle ==
  [][\A q \in Requests :
       (toggling[q] # NoToggle /\ toggling'[q] # toggling[q])
         => \A r \in RuleIds :
              InDb(r) => InDb(r)' /\ db'[r].body = db[r].body
                                  /\ db'[r].lastTo = db[r].lastTo]_storeVars

(* What the comment of ToggleScalingRule says (store.go): a toggle that is   *)
(* answered OK has flipped the enabled flag.                                *)
ToggleFlips ==
  [][\A q \in Requests :
       (reply[q] # "ok" /\ reply'[q] = "ok")
         => LET r == toggling[q].rule IN db'[r].enabled = ~db[r].enabled]_storeVars

-----------------------------------------------------------------------------
(* The store by itself: REST calls, status writes and the change streams,    *)
(* with a watcher that does no more than take the tokens.  One status write  *)
(* per rule keeps the events of a behaviour finite.                         *)
StoreNext ==
  \/ RestCall
  \/ \E r \in RuleIds : InDb(r) /\ db[r].lastTo = 0 /\ UpdateScalingRuleStatus(r, 1)
  \/ \E w \in Watchers :
       \/ StreamOpens(w) \/ StreamRefused(w) \/ StreamNext(w) \/ StreamEnds(w)
       \/ TakeSignal(w) \/ (stream[w] = "ended" /\ StreamCloses(w))

StoreSpec == StoreInit /\ [][StoreNext]_storeVars
=============================================================================
