--------------------------- MODULE ContainerMapper ---------------------------
(***************************************************************************)
(* Which pod a process belongs to (pkg/telemetry/container_mapper.go).  The *)
(* goroutines of the collectors ask for the PID of an event; an answer is   *)
(* kept for a minute.  Without one the network namespace of the process is  *)
(* compared with those of the pods the API has listed, then its cgroup.     *)
(* Meanwhile the process may exit and its PID be given to another one.      *)
(*                                                                         *)
(* What is found of a pod is its name; which of its containers it is, which *)
(* the namespace cannot tell, is left out.  Pods on the host's network share*)
(* its namespace with the processes of the node itself.                    *)
(*                                                                         *)
(* A container is recognised by its ID in the cgroup of a process.  One that*)
(* is still being created has an empty ID, which every cgroup contains:     *)
(* while a listed pod has such a container, it is taken for the pod of any  *)
(* process of the node, whatever its namespace.                            *)
(***************************************************************************)
EXTENDS BpfMap

CONSTANTS
  Collectors,   \* goroutines that ask
  Procs,        \* PIDs
  RunningPods,
  HostPods,     \* those on the host's network
  Host,         \* the node itself, as the home of a process
  Gone,         \* no process has the PID
  CacheTicks,   \* cacheExpiry, in ticks
  NoLookup, NoAnswer

ASSUME MapperAssumption ==
  /\ HostPods \subseteq RunningPods
  /\ Host \notin RunningPods /\ Gone \notin RunningPods /\ Host # Gone
  /\ CacheTicks \in Nat

VARIABLES
  home,         \* per PID: where its process runs
  podCache,     \* the pods listed last
  waiting,      \* those with a container that had no ID when listed
  pidCache,     \* per PID: the pod found, and how long ago
  lookup,       \* per goroutine: the lookup it is in
  answer        \* what the last step answered, if anything

mapperVars == <<home, podCache, waiting, pidCache, lookup, answer>>

Homes == RunningPods \cup {Host}

Cached == [pod : RunningPods, age : 0 .. CacheTicks]

(* A lookup on its way: what it does next, and what it has found out so far. *)
Lookup == [pid : Procs, next : {"netns", "match", "cgroup", "pods", "cache"},
           found : Homes \cup {Gone}]

MapperInit ==
  /\ home \in [Procs -> Homes \cup {Gone}]
  /\ podCache = {}
  /\ waiting = {}
  /\ pidCache = EmptyMap
  /\ lookup = [c \in Collectors |-> NoLookup]
  /\ answer = NoAnswer

NetNS(h) == IF h \in HostPods THEN Host ELSE h

Answers(p, pod) == answer' = [pid |-> p, pod |-> pod]
NoNews == answer' = NoAnswer

-----------------------------------------------------------------------------
(* The node. *)

ProcessStarts(p, h) ==
  /\ home[p] = Gone
  /\ home' = [home EXCEPT ![p] = h]
  /\ NoNews /\ UNCHANGED <<podCache, waiting, pidCache, lookup>>

ProcessExits(p) ==
  /\ home[p] # Gone
  /\ home' = [home EXCEPT ![p] = Gone]
  /\ NoNews /\ UNCHANGED <<podCache, waiting, pidCache, lookup>>

(* Time passes; an entry that has expired stays until it is replaced. *)
TimePasses ==
  /\ \E p \in DOMAIN pidCache : pidCache[p].age < CacheTicks
  /\ pidCache' = [p \in DOMAIN pidCache |->
       [pidCache[p] EXCEPT !.age = IF @ < CacheTicks THEN @ + 1 ELSE @]]
  /\ NoNews /\ UNCHANGED <<home, podCache, waiting, lookup>>

-----------------------------------------------------------------------------
(* The daemon. *)

(* loadPodCache lists the pods of all nodes, whatever their phase: they come *)
(* and go, so it may be any list, with containers created or not.           *)
LoadPodCache(pods, creating) ==
  /\ podCache' = pods
  /\ waiting' = creating
  /\ NoNews /\ UNCHANGED <<home, pidCache, lookup>>

(* Where a lookup goes on. *)
GoesOn(c, next, found) ==
  /\ lookup' = [lookup EXCEPT ![c] = [@ EXCEPT !.next = next, !.found = found]]
  /\ NoNews /\ UNCHANGED <<home, podCache, waiting, pidCache>>

GivesUp(c) ==
  /\ lookup' = [lookup EXCEPT ![c] = NoLookup]
  /\ NoNews /\ UNCHANGED <<home, podCache, waiting, pidCache>>

AtStep(c, next) == lookup[c] # NoLookup /\ lookup[c].next = next

(* Faulty variant of InTime: an entry is used however old it is. *)
InTimeForEver(p) == p \in DOMAIN pidCache

InTime(p) == p \in DOMAIN pidCache /\ pidCache[p].age < CacheTicks

Hit(p) == Answers(p, pidCache[p].pod) /\ UNCHANGED <<pidCache, lookup>>

(* GetContainerForPID, for an event of a process that may have exited. *)
GetContainerForPID(c, p) ==
  /\ lookup[c] = NoLookup
  /\ IF InTime(p) THEN Hit(p)
     ELSE /\ lookup' = [lookup EXCEPT ![c] = [pid |-> p, next |-> "netns", found |-> Gone]]
          /\ NoNews /\ UNCHANGED pidCache
  /\ UNCHANGED <<home, podCache, waiting>>

(* findContainerByPIDRoot. *)
ReadNetNS(c) ==
  /\ AtStep(c, "netns")
  /\ LET h == home[lookup[c].pid]
     IN GoesOn(c, IF h = Gone THEN "cgroup" ELSE "match", NetNS(h))

(* containerHasNetNS: is there a process in the namespace whose cgroup has  *)
(* the ID of the container.                                                *)
HasNetNS(pod, ns) == pod \in waiting \/ NetNS(pod) = ns

(* matchNetNSToContainer: the first listed pod, in any order, that has the  *)
(* namespace, if there still is a process in it.                           *)
MatchNetNS(c) ==
  /\ AtStep(c, "match")
  /\ \/ \E pod \in podCache :
          HasNetNS(pod, lookup[c].found) /\ GoesOn(c, "cache", pod)
     \/ GoesOn(c, "cgroup", Gone)

(* getContainerIDFromPID.  A process of the node has none that a pod has. *)
ReadCgroup(c) ==
  /\ AtStep(c, "cgroup")
  /\ LET h == home[lookup[c].pid]
     IN IF h \in RunningPods THEN GoesOn(c, "pods", h) ELSE GivesUp(c)

(* findContainerInPods.  Here an empty ID matches nothing, so that a process *)
(* of a container without one in the list is not found.                     *)
FindInPods(c) ==
  /\ AtStep(c, "pods")
  /\ \/ lookup[c].found \in podCache /\ GoesOn(c, "cache", lookup[c].found)
     \/ lookup[c].found \notin podCache \ waiting /\ GivesUp(c)

(* The result is cached, whatever has been cached since the lookup began. *)
CacheResult(c) ==
  /\ AtStep(c, "cache")
  /\ pidCache' = Put(pidCache, lookup[c].pid, [pod |-> lookup[c].found, age |-> 0])
  /\ Answers(lookup[c].pid, lookup[c].found)
  /\ lookup' = [lookup EXCEPT ![c] = NoLookup]
  /\ UNCHANGED <<home, podCache, waiting>>

MapperNext ==
  \/ \E p \in Procs : ProcessExits(p) \/ \E h \in Homes : ProcessStarts(p, h)
  \/ TimePasses
  \/ \E pods \in SUBSET RunningPods : \E creating \in SUBSET pods : LoadPodCache(pods, creating)
  \/ \E c \in Collectors :
       \/ \E p \in Procs : GetContainerForPID(c, p)
       \/ ReadNetNS(c) \/ MatchNetNS(c) \/ ReadCgroup(c)
       \/ FindInPods(c) \/ CacheResult(c)

(* Only that time passes: a goroutine may be held up in a lookup for ever. *)
MapperFairness == WF_mapperVars(TimePasses)

MapperSpec == MapperInit /\ [][MapperNext]_mapperVars
MapperFairSpec == MapperSpec /\ MapperFairness

-----------------------------------------------------------------------------
MapperTypeOK ==
  /\ home \in [Procs -> Homes \cup {Gone}]
  /\ podCache \subseteq RunningPods
  /\ waiting \subseteq podCache
  /\ DOMAIN pidCache \subseteq Procs
  /\ pidCache \in [DOMAIN pidCache -> Cached]
  /\ lookup \in [Collectors -> Lookup \cup {NoLookup}]
  /\ answer \in [pid : Procs, pod : RunningPods] \cup {NoAnswer}

(* The pods a process of home h may be taken for without being in its       *)
(* namespace.                                                              *)
Misleading(h) == {pod \in waiting : NetNS(pod) # NetNS(h)}

(* A PID changes hands while lookups are under way, and a slow lookup caches *)
(* what it knows of the old process over what another one has found of the   *)
(* new, or a pod that was still being created: once a process has its PID    *)
(* for good and no listed pod of another namespace waits for a container,    *)
(* there comes a time from which every answer names a pod in the process's   *)
(* network namespace.                                                       *)
AnswersConverge ==
  \A p \in Procs, h \in Homes :
    <>[](home[p] = h /\ Misleading(h) = {}) =>
      <>[](answer # NoAnswer /\ answer.pid = p => NetNS(answer.pod) = NetNS(h))
=============================================================================
