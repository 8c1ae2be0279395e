-------------------------- MODULE KernelProbesProofs --------------------------
(* What the scheduler, disk and TCP probes promise, for any tasks, threads   *)
(* and sockets, any sizes of their maps and any probes attached.             *)
EXTENDS NodeProbes, FiniteSetTheorems, TLAPS

(* What bpf_map_update_elem leaves: never more keys than the map has room    *)
(* for, and under the key, if it is there, the new value.                    *)
LEMMA UpdateEffect ==
  ASSUME NEW map, NEW max \in Nat, NEW key, NEW value,
         IsFiniteSet(DOMAIN map), Cardinality(DOMAIN map) <= max
  PROVE  LET new == Update(map, max, key, value)
         IN /\ DOMAIN map \subseteq DOMAIN new
            /\ DOMAIN new \subseteq DOMAIN map \cup {key}
            /\ \A k \in DOMAIN new : new[k] = IF k = key THEN value ELSE map[k]
            /\ IsFiniteSet(DOMAIN new)
            /\ Cardinality(DOMAIN new) <= max
<1> DEFINE new == Update(map, max, key, value)
           put == Put(map, key, value)
<1>1. /\ DOMAIN put = DOMAIN map \cup {key}
      /\ \A k \in DOMAIN put : put[k] = IF k = key THEN value ELSE map[k]
  BY DEF Put
<1>2. IsFiniteSet(DOMAIN put)
  BY <1>1, FS_AddElement
<1>3. CASE key \in DOMAIN map
  <2>1. new = put /\ DOMAIN put = DOMAIN map
    BY <1>1, <1>3 DEF Update
  <2> QED
    BY <1>1, <2>1
<1>4. CASE key \notin DOMAIN map /\ Cardinality(DOMAIN map) < max
  <2>1. new = put
    BY <1>4 DEF Update
  <2>2. Cardinality(DOMAIN put) = Cardinality(DOMAIN map) + 1
    BY <1>1, <1>4, FS_AddElement
  <2>3. Cardinality(DOMAIN map) \in Nat
    BY FS_CardinalityType
  <2> QED
    BY <1>1, <1>2, <1>4, <2>1, <2>2, <2>3
<1>5. CASE key \notin DOMAIN map /\ ~(Cardinality(DOMAIN map) < max)
  <2>1. new = map
    BY <1>5 DEF Update
  <2> QED
    BY <1>5, <2>1
<1> QED
  BY <1>3, <1>4, <1>5

-----------------------------------------------------------------------------
(* Scheduler latency.                                                        *)

(* The tracepoints under way.                                                *)
Tracing == {c \in Cpus : tracing[c] # NoTracepoint}

(* All times have passed, and a task got its CPU before it leaves it.        *)
PastTimes ==
  /\ \A k \in DOMAIN wakeup_times :
       wakeup_times[k].wakeup <= clock /\ wakeup_times[k].last_schedule <= clock
  /\ \A c \in Tracing : tracing[c].now \in 1 .. clock /\ since[c] <= tracing[c].now

(* A wakeup in the map was not reported and is under no second key.          *)
Unreported ==
  \A k \in DOMAIN wakeup_times :
    /\ wakeup_times[k].wakeup \notin measured
    /\ \A j \in DOMAIN wakeup_times :
         wakeup_times[k].wakeup = wakeup_times[j].wakeup /\ wakeup_times[k].wakeup # 0 => j = k

(* What a tracepoint under way read from the clock is in nobody else's hands. *)
OwnTimes ==
  \A c \in Tracing :
    /\ tracing[c].now \notin measured
    /\ \A k \in DOMAIN wakeup_times : wakeup_times[k].wakeup # tracing[c].now
    /\ \A d \in Tracing : tracing[c].now = tracing[d].now => c = d

SchedInv == SchedTypeOK /\ ReportedOnce /\ PastTimes /\ Unreported /\ OwnTimes

LEMMA SchedInitInv == SchedInit => SchedInv
<1> SUFFICES ASSUME SchedInit PROVE SchedInv
  OBVIOUS
<1>1. DOMAIN wakeup_times = {} /\ Tracing = {}
  BY DEF SchedInit, EmptyMap, Tracing
<1>2. Cardinality({}) = 0
  BY FS_EmptySet
<1>3. SchedTypeOK
  BY <1>1, <1>2, SchedAssumption DEF SchedInit, SchedTypeOK, Tasks
<1>4. ReportedOnce
  BY <1>2 DEF SchedInit, ReportedOnce
<1> QED
  BY <1>1, <1>3, <1>4 DEF SchedInv, PastTimes, Unreported, OwnTimes

(* A tracepoint that starts reads a time nobody has.                         *)
LEMMA StartsInv ==
  ASSUME SchedInv, NEW c \in Cpus, NEW event, NEW task, NEW key,
         Starts(c, event, task, key),
         [event |-> event, task |-> task, key |-> key, now |-> clock + 1] \in Tracepoint,
         woken' \in [Pids -> 0 .. clock + 1], queued_tasks' \subseteq Pids
  PROVE  SchedInv'
<1> DEFINE now == clock + 1
           new == [event |-> event, task |-> task, key |-> key, now |-> now]
<1>1. /\ clock \in Nat /\ clock' = now /\ now \in Nat /\ now \in 0 .. MaxClock
      /\ tracing' = [tracing EXCEPT ![c] = new] /\ tracing[c] = NoTracepoint
      /\ UNCHANGED <<wakeup_times, running, samples, since, last_ran, measured>>
      /\ sample' = NoSample
  BY SchedAssumption DEF Starts, SchedInv, SchedTypeOK
<1>2. SchedTypeOK'
  BY <1>1 DEF SchedInv, SchedTypeOK
<1>3. \A d \in Tracing' :
        \/ d = c /\ tracing'[d].now = now
        \/ d # c /\ d \in Tracing /\ tracing'[d] = tracing[d]
  BY <1>1 DEF Tracing, SchedInv, SchedTypeOK
<1>4. PastTimes'
  <2>1. since[c] \in 0 .. clock
    BY DEF SchedInv, SchedTypeOK
  <2>2. \A k \in DOMAIN wakeup_times : wakeup_times[k] \in WakeupInfo
    BY DEF SchedInv, SchedTypeOK
  <2> QED
    BY <1>1, <1>3, <2>1, <2>2 DEF SchedInv, PastTimes, WakeupInfo
<1>5. Unreported'
  BY <1>1 DEF SchedInv, Unreported
<1>6. OwnTimes'
  <2>1. now \notin measured /\ \A k \in DOMAIN wakeup_times : wakeup_times[k].wakeup # now
    BY <1>1 DEF SchedInv, SchedTypeOK, PastTimes, WakeupInfo
  <2>2. \A d \in Tracing : tracing[d].now # now
    BY <1>1 DEF SchedInv, PastTimes
  <2> QED
    BY <1>1, <1>3, <2>1, <2>2 DEF SchedInv, OwnTimes
<1>7. ReportedOnce'
  BY <1>1 DEF SchedInv, ReportedOnce
<1> QED
  BY <1>2, <1>4, <1>5, <1>6, <1>7 DEF SchedInv

LEMMA WakeupStartsInv ==
  ASSUME SchedInv, NEW c \in Cpus, NEW p \in Pids, NEW key \in NameKeys,
         WakeupStarts(c, p, key)
  PROVE  SchedInv'
<1>1. [event |-> "wakeup", task |-> p, key |-> key, now |-> clock + 1] \in Tracepoint
  BY DEF Tracepoint, SchedInv, SchedTypeOK
<1>2. woken' \in [Pids -> 0 .. clock + 1] /\ queued_tasks' \subseteq Pids
  BY DEF WakeupStarts, SchedInv, SchedTypeOK
<1> QED
  BY <1>1, <1>2, StartsInv DEF WakeupStarts

LEMMA SwitchStartsInv ==
  ASSUME SchedInv, NEW c \in Cpus, NEW next \in Tasks, SwitchStarts(c, next)
  PROVE  SchedInv'
<1>1. [event |-> "switch", task |-> next, key |-> next, now |-> clock + 1] \in Tracepoint
  BY DEF Tracepoint, SchedInv, SchedTypeOK
<1>2. woken' \in [Pids -> 0 .. clock + 1] /\ queued_tasks' \subseteq Pids
  BY DEF SwitchStarts, SchedInv, SchedTypeOK
<1> QED
  BY <1>1, <1>2, StartsInv DEF SwitchStarts

(* Who is in a tracepoint once one has ended.                                *)
LEMMA EndsLeaves ==
  ASSUME SchedInv, NEW c \in Tracing, Ends(c)
  PROVE  /\ tracing' \in [Cpus -> Tracepoint \cup {NoTracepoint}]
         /\ \A d \in Tracing' : d \in Tracing /\ d # c /\ tracing'[d] = tracing[d]
         /\ clock' = clock /\ clock \in Nat
         /\ tracing[c] \in Tracepoint
BY DEF Ends, Tracing, SchedInv, SchedTypeOK

(* The wakeup that was in the hands of the handler is now in the map, if     *)
(* there is room, and nowhere else.                                          *)
LEMMA WakeupEndsInv ==
  ASSUME SchedInv, NEW c \in Cpus, WakeupEnds(c)
  PROVE  SchedInv'
<1> DEFINE key == tracing[c].key
           now == tracing[c].now
<1>1. /\ c \in Tracing /\ tracing[c].event = "wakeup"
      /\ wakeup_times' = Update(wakeup_times, WakeupCap, key, Woken(now))
      /\ sample' = NoSample
      /\ UNCHANGED <<running, queued_tasks, samples, woken, since, last_ran, measured>>
  BY DEF WakeupEnds, past, Tracing
<1>2. /\ tracing' \in [Cpus -> Tracepoint \cup {NoTracepoint}]
      /\ \A d \in Tracing' : d \in Tracing /\ d # c /\ tracing'[d] = tracing[d]
      /\ clock' = clock /\ clock \in Nat
      /\ tracing[c] \in Tracepoint
  BY <1>1, EndsLeaves DEF WakeupEnds
<1>3. key \in NameKeys /\ now \in 1 .. clock
  BY <1>1, <1>2 DEF Tracepoint, SchedInv, PastTimes
<1>4. Woken(now) = [wakeup |-> now, last_run |-> 0, last_schedule |-> 0]
  BY DEF Woken
<1>5. /\ DOMAIN wakeup_times' \subseteq DOMAIN wakeup_times \cup {key}
      /\ \A k \in DOMAIN wakeup_times' :
           wakeup_times'[k] = IF k = key THEN Woken(now) ELSE wakeup_times[k]
      /\ Cardinality(DOMAIN wakeup_times') <= WakeupCap
  <2>1. IsFiniteSet(DOMAIN wakeup_times)
    BY SchedAssumption, FS_Subset DEF SchedInv, SchedTypeOK
  <2> QED
    BY <1>1, <2>1, SchedAssumption, UpdateEffect DEF SchedInv, SchedTypeOK
<1> HIDE DEF key, now
<1>6. \A k \in DOMAIN wakeup_times' :
        \/ k = key /\ wakeup_times'[k] = Woken(now)
        \/ k # key /\ k \in DOMAIN wakeup_times /\ wakeup_times'[k] = wakeup_times[k]
  BY <1>5
<1>7. SchedTypeOK'
  <2>1. Woken(now) \in WakeupInfo
    BY <1>3, <1>4 DEF WakeupInfo
  <2>2. wakeup_times' = [k \in DOMAIN wakeup_times' |-> wakeup_times'[k]]
    BY <1>1 DEF Update, Put, SchedInv, SchedTypeOK
  <2>3. wakeup_times' \in [DOMAIN wakeup_times' -> WakeupInfo]
    BY <1>6, <2>1, <2>2 DEF SchedInv, SchedTypeOK
  <2> QED
    BY <1>1, <1>2, <1>3, <1>5, <2>3 DEF SchedInv, SchedTypeOK
<1>8. PastTimes'
  BY <1>1, <1>2, <1>3, <1>4, <1>6 DEF SchedInv, PastTimes
<1>9. /\ now \notin measured
      /\ \A k \in DOMAIN wakeup_times : wakeup_times[k].wakeup # now
      /\ \A d \in Tracing : tracing[d].now = now => d = c
  BY <1>1 DEF SchedInv, OwnTimes, now
<1>10. Unreported'
  BY <1>1, <1>4, <1>6, <1>9 DEF SchedInv, Unreported
<1>11. OwnTimes'
  BY <1>1, <1>2, <1>4, <1>6, <1>9 DEF SchedInv, OwnTimes
<1>12. ReportedOnce'
  BY <1>1 DEF SchedInv, ReportedOnce
<1> QED
  BY <1>7, <1>8, <1>10, <1>11, <1>12 DEF SchedInv

(* What a switch does to the map: it clears the wakeup of the task that gets *)
(* the CPU and leaves the other wakeups alone.                               *)
LEMMA SwitchEffect ==
  ASSUME SchedInv, NEW c \in Tracing, SwitchEnds(c)
  PROVE  /\ DOMAIN wakeup_times' = DOMAIN wakeup_times
         /\ wakeup_times' \in [DOMAIN wakeup_times -> WakeupInfo]
         /\ \A k \in DOMAIN wakeup_times :
              /\ wakeup_times'[k].wakeup \in {0, wakeup_times[k].wakeup}
              /\ k = tracing[c].task /\ k # Swapper => wakeup_times'[k].wakeup = 0
              /\ wakeup_times'[k].last_schedule \in {tracing[c].now, wakeup_times[k].last_schedule}
<1> DEFINE next == tracing[c].task
           now == tracing[c].now
           prev == running[c]
           map == SwitchOut(prev, now)
           due == next \in DOMAIN map \ {Swapper} /\ map[next].wakeup > 0
<1>1. now \in 1 .. clock /\ clock \in Nat /\ clock <= MaxClock
  BY SchedAssumption DEF SchedInv, PastTimes, SchedTypeOK
<1>2. \A k \in DOMAIN wakeup_times :
        wakeup_times[k] \in WakeupInfo /\ wakeup_times[k].last_schedule <= clock
  BY DEF SchedInv, SchedTypeOK, PastTimes
<1>3. wakeup_times' = IF due THEN SwitchIn(map, next, now) ELSE map
  BY DEF SwitchEnds
<1> HIDE DEF now, next, prev
<1>4. /\ DOMAIN map = DOMAIN wakeup_times
      /\ map \in [DOMAIN wakeup_times -> WakeupInfo]
      /\ \A k \in DOMAIN wakeup_times :
           /\ map[k].wakeup = wakeup_times[k].wakeup
           /\ map[k].last_schedule = wakeup_times[k].last_schedule
  <2>1. CASE prev \in DOMAIN wakeup_times \ {Swapper} /\ wakeup_times[prev].last_schedule > 0
    <3> DEFINE ran == Elapsed(now, wakeup_times[prev].last_schedule)
    <3>1. map = [wakeup_times EXCEPT ![prev].last_run = ran]
      BY <2>1 DEF SwitchOut
    <3>2. ran \in Nat
      BY <1>1, <1>2, <2>1, SchedAssumption DEF Elapsed, WakeupInfo
    <3> HIDE DEF ran
    <3> QED
      BY <1>2, <2>1, <3>1, <3>2 DEF SchedInv, SchedTypeOK, WakeupInfo
  <2>2. CASE ~(prev \in DOMAIN wakeup_times \ {Swapper} /\ wakeup_times[prev].last_schedule > 0)
    BY <2>2 DEF SwitchOut, SchedInv, SchedTypeOK
  <2> QED
    BY <2>1, <2>2
<1> HIDE DEF map
<1>5. CASE due
  <2>1. wakeup_times' = [map EXCEPT ![next].last_schedule = now, ![next].wakeup = 0]
    BY <1>3, <1>5 DEF SwitchIn
  <2> QED
    BY <1>1, <1>4, <1>5, <2>1 DEF WakeupInfo, now, next
<1>6. CASE ~due
  <2>1. wakeup_times' = map
    BY <1>3, <1>6
  <2>2. next \in DOMAIN map \ {Swapper} => map[next].wakeup = 0
    BY <1>4, <1>6 DEF WakeupInfo
  <2> QED
    BY <1>4, <2>1, <2>2 DEF next
<1> QED
  BY <1>5, <1>6

(* What a switch reports: the wakeup it clears, if that is before it.        *)
LEMMA SwitchReport ==
  ASSUME SchedInv, NEW c \in Tracing, SwitchEnds(c)
  PROVE  \/ /\ sample' = NoSample
            /\ UNCHANGED <<measured, samples>>
         \/ \E next \in DOMAIN wakeup_times :
              /\ next = tracing[c].task /\ next # Swapper
              /\ wakeup_times[next].wakeup # 0
              /\ sample' \in Sample /\ sample'.latency \in 1 .. MaxLatency - 1
              /\ measured' = measured \cup {wakeup_times[next].wakeup}
              /\ samples' = samples + 1
<1> DEFINE next == tracing[c].task
           now == tracing[c].now
           prev == running[c]
           map == SwitchOut(prev, now)
<1>1. /\ now \in 1 .. clock /\ clock \in Nat /\ clock <= MaxClock
      /\ \A k \in DOMAIN wakeup_times : wakeup_times[k].wakeup # now
  BY SchedAssumption DEF SchedInv, PastTimes, SchedTypeOK, OwnTimes
<1>2. /\ DOMAIN map = DOMAIN wakeup_times
      /\ \A k \in DOMAIN wakeup_times :
           /\ map[k].wakeup = wakeup_times[k].wakeup
           /\ map[k].last_run \in Nat
  <2>1. \A k \in DOMAIN wakeup_times :
          wakeup_times[k] \in WakeupInfo /\ wakeup_times[k].last_schedule <= clock
    BY DEF SchedInv, SchedTypeOK, PastTimes
  <2> HIDE DEF now, prev
  <2>2. CASE prev \in DOMAIN wakeup_times \ {Swapper} /\ wakeup_times[prev].last_schedule > 0
    <3> DEFINE ran == Elapsed(now, wakeup_times[prev].last_schedule)
    <3>1. map = [wakeup_times EXCEPT ![prev].last_run = ran]
      BY <2>2 DEF SwitchOut
    <3>2. ran \in Nat
      BY <1>1, <2>1, <2>2, SchedAssumption DEF Elapsed, WakeupInfo
    <3> HIDE DEF ran
    <3> QED
      BY <2>1, <3>1, <3>2 DEF WakeupInfo
  <2>3. CASE ~(prev \in DOMAIN wakeup_times \ {Swapper} /\ wakeup_times[prev].last_schedule > 0)
    BY <2>1, <2>3 DEF SwitchOut, WakeupInfo
  <2> QED
    BY <2>2, <2>3
<1>3. \/ sample' = NoSample /\ UNCHANGED <<measured, samples>>
      \/ /\ next \in DOMAIN map \ {Swapper} /\ map[next].wakeup > 0
         /\ Elapsed(now, map[next].wakeup) < MaxLatency
         /\ sample' = SampleOf(map[next], next, now)
         /\ measured' = measured \cup {map[next].wakeup} /\ samples' = samples + 1
  BY DEF SwitchEnds
<1>4. next \in Tasks
  BY DEF Tracing, Tracepoint, SchedInv, SchedTypeOK, Tasks
<1> HIDE DEF map, now
<1>5. CASE /\ next \in DOMAIN map \ {Swapper} /\ map[next].wakeup > 0
           /\ Elapsed(now, map[next].wakeup) < MaxLatency
           /\ sample' = SampleOf(map[next], next, now)
           /\ measured' = measured \cup {map[next].wakeup} /\ samples' = samples + 1
  <2> DEFINE start == wakeup_times[next].wakeup
  <2>1. /\ next \in Pids /\ next \in DOMAIN wakeup_times
        /\ start \in Nat /\ start <= clock /\ start # now /\ start # 0
        /\ map[next].wakeup = start /\ map[next].last_run \in Nat
    BY <1>1, <1>2, <1>4, <1>5 DEF SchedInv, SchedTypeOK, PastTimes, Tasks, WakeupInfo
  <2> HIDE DEF start, next
  <2>2. Elapsed(now, start) \in 1 .. MaxLatency - 1
    BY <1>1, <1>5, <2>1, SchedAssumption DEF Elapsed
  <2>3. sample' = [pid |-> next, wakeup |-> start, latency |-> Elapsed(now, start),
                   cpu_time |-> map[next].last_run]
    BY <1>5, <2>1 DEF SampleOf
  <2>4. sample' \in Sample /\ sample'.latency \in 1 .. MaxLatency - 1
    BY <2>1, <2>2, <2>3, SchedAssumption DEF Sample
  <2> QED
    BY <1>5, <2>1, <2>4 DEF start, next
<1> QED
  BY <1>3, <1>5

LEMMA SwitchEndsInv ==
  ASSUME SchedInv, NEW c \in Cpus, SwitchEnds(c)
  PROVE  SchedInv'
<1> DEFINE now == tracing[c].now
<1>1. c \in Tracing /\ tracing[c].event = "switch"
  BY DEF SwitchEnds, Tracing
<1>2. /\ tracing' \in [Cpus -> Tracepoint \cup {NoTracepoint}]
      /\ \A d \in Tracing' : d \in Tracing /\ d # c /\ tracing'[d] = tracing[d]
      /\ clock' = clock /\ clock \in Nat
      /\ tracing[c] \in Tracepoint
  BY <1>1, EndsLeaves DEF SwitchEnds
<1>3. now \in 1 .. clock /\ since[c] \in Nat /\ since[c] <= now /\ tracing[c].task \in Tasks
  BY <1>1, <1>2 DEF SchedInv, PastTimes, SchedTypeOK, Tracepoint, Tasks
<1>4. /\ DOMAIN wakeup_times' = DOMAIN wakeup_times
      /\ wakeup_times' \in [DOMAIN wakeup_times -> WakeupInfo]
      /\ \A k \in DOMAIN wakeup_times :
           /\ wakeup_times'[k].wakeup \in {0, wakeup_times[k].wakeup}
           /\ k = tracing[c].task /\ k # Swapper => wakeup_times'[k].wakeup = 0
           /\ wakeup_times'[k].last_schedule \in {now, wakeup_times[k].last_schedule}
  BY <1>1, SwitchEffect
<1>5. \/ sample' = NoSample /\ UNCHANGED <<measured, samples>>
      \/ \E next \in DOMAIN wakeup_times :
           /\ next = tracing[c].task /\ next # Swapper
           /\ wakeup_times[next].wakeup # 0
           /\ sample' \in Sample /\ sample'.latency \in 1 .. MaxLatency - 1
           /\ measured' = measured \cup {wakeup_times[next].wakeup}
           /\ samples' = samples + 1
  BY <1>1, SwitchReport
<1>6. /\ running' \in [Cpus -> Tasks] /\ queued_tasks' \subseteq Pids
      /\ woken' = woken /\ since' = [since EXCEPT ![c] = now]
      /\ last_ran' \in [Pids -> 0 .. clock]
  <2>1. /\ running' = [running EXCEPT ![c] = tracing[c].task]
        /\ queued_tasks' \subseteq queued_tasks \cup ({running[c]} \ {Swapper})
        /\ woken' = woken /\ since' = [since EXCEPT ![c] = now]
        /\ last_ran' = [p \in Pids |-> IF p = running[c] THEN now - since[c] ELSE last_ran[p]]
    BY DEF SwitchEnds, SwitchTasks
  <2>2. now - since[c] \in 0 .. clock
    BY <1>2, <1>3
  <2>3. running' \in [Cpus -> Tasks] /\ queued_tasks' \subseteq Pids
    BY <1>3, <2>1 DEF SchedInv, SchedTypeOK, Tasks
  <2> HIDE DEF now
  <2>4. last_ran' \in [Pids -> 0 .. clock]
    BY <2>1, <2>2 DEF SchedInv, SchedTypeOK
  <2> QED
    BY <2>1, <2>3, <2>4
<1> HIDE DEF now
<1>7. CASE sample' = NoSample /\ UNCHANGED <<measured, samples>>
  <2>1. SchedTypeOK'
    BY <1>2, <1>3, <1>4, <1>6, <1>7 DEF SchedInv, SchedTypeOK
  <2>2. PastTimes'
    BY <1>2, <1>3, <1>4, <1>6 DEF SchedInv, SchedTypeOK, PastTimes, WakeupInfo
  <2>3. 0 \notin measured
    BY DEF SchedInv, SchedTypeOK
  <2>4. Unreported'
    BY <1>4, <1>7, <2>3 DEF SchedInv, Unreported
  <2>5. OwnTimes'
    BY <1>2, <1>4, <1>7 DEF SchedInv, OwnTimes, PastTimes
  <2>6. ReportedOnce'
    BY <1>7 DEF SchedInv, ReportedOnce
  <2> QED
    BY <2>1, <2>2, <2>4, <2>5, <2>6 DEF SchedInv
<1>8. ASSUME NEW next \in DOMAIN wakeup_times,
             /\ next = tracing[c].task /\ next # Swapper
             /\ wakeup_times[next].wakeup # 0
             /\ sample' \in Sample /\ sample'.latency \in 1 .. MaxLatency - 1
             /\ measured' = measured \cup {wakeup_times[next].wakeup}
             /\ samples' = samples + 1
      PROVE  SchedInv'
  <2> DEFINE start == wakeup_times[next].wakeup
  <2>1. start \in 1 .. clock /\ start \notin measured /\ wakeup_times'[next].wakeup = 0
    BY <1>2, <1>4, <1>8 DEF SchedInv, SchedTypeOK, PastTimes, Unreported, WakeupInfo
  <2>2. SchedTypeOK'
    BY <1>2, <1>3, <1>4, <1>6, <1>8, <2>1 DEF SchedInv, SchedTypeOK
  <2>3. PastTimes'
    BY <1>2, <1>3, <1>4, <1>6 DEF SchedInv, SchedTypeOK, PastTimes, WakeupInfo
  <2>4. 0 \notin measured' /\ measured' = measured \cup {start}
    BY <1>8, <2>1 DEF SchedInv, SchedTypeOK
  <2>5. \A k \in DOMAIN wakeup_times : wakeup_times'[k].wakeup # start
    BY <1>4, <2>1, <1>8 DEF SchedInv, Unreported
  <2>6. Unreported'
    BY <1>4, <2>4, <2>5 DEF SchedInv, Unreported
  <2>7. OwnTimes'
    BY <1>2, <1>4, <2>4 DEF SchedInv, OwnTimes, PastTimes
  <2>8. ReportedOnce'
    <3>1. IsFiniteSet(measured)
      <4>1. IsFiniteSet(1 .. clock)
        BY <1>2, FS_Interval
      <4> QED
        BY <4>1, FS_Subset DEF SchedInv, SchedTypeOK
    <3>2. Cardinality(measured') = Cardinality(measured) + 1
      BY <2>1, <2>4, <3>1, FS_AddElement
    <3> QED
      BY <1>8, <3>2 DEF SchedInv, ReportedOnce
  <2> QED
    BY <2>2, <2>3, <2>6, <2>7, <2>8 DEF SchedInv
<1> QED
  BY <1>5, <1>7, <1>8

LEMMA SchedNextInv == SchedInv /\ [SchedNext]_schedVars => SchedInv'
<1> SUFFICES ASSUME SchedInv, [SchedNext]_schedVars PROVE SchedInv'
  OBVIOUS
<1>1. CASE UNCHANGED schedVars
  BY <1>1 DEF schedVars, past, SchedInv, SchedTypeOK, ReportedOnce, PastTimes, Unreported,
              OwnTimes, Tracing
<1> QED
  BY <1>1, WakeupStartsInv, SwitchStartsInv, WakeupEndsInv, SwitchEndsInv DEF SchedNext

(* The map of wakeups keeps to its size, and every difference of times in    *)
(* trace_sched_switch, wrapped or not, is a natural number.                  *)
THEOREM SchedTypeCorrect == SchedSpec => []SchedTypeOK
<1>1. SchedInv => SchedTypeOK
  BY DEF SchedInv
<1> QED
  BY <1>1, SchedInitInv, SchedNextInv, PTL DEF SchedSpec

(* For any names, tasks and CPUs: no wakeup is reported twice, and no        *)
(* difference that wraps is reported.                                        *)
THEOREM WakeupsReportedOnce == SchedSpec => []ReportedOnce
<1>1. SchedInv => ReportedOnce
  BY DEF SchedInv
<1> QED
  BY <1>1, SchedInitInv, SchedNextInv, PTL DEF SchedSpec

-----------------------------------------------------------------------------
(* Disk latency.                                                             *)

(* What the map of starts and the events are.                                *)
StartsOK ==
  /\ starts \in Nat
  /\ started \in [IoThreads -> 0 .. starts]
  /\ DOMAIN io_start_map \subseteq IoThreads
  /\ io_start_map \in [DOMAIN io_start_map -> 1 .. starts]
  /\ Cardinality(DOMAIN io_start_map) <= IoCap
  /\ timed \subseteq 1 .. starts
  /\ io_events \in Nat
  /\ io_event \in IoEvent \cup {NoIoEvent}

(* A start in the map is the thread's last and was not reported.             *)
LastStart ==
  \A t \in DOMAIN io_start_map :
    io_start_map[t] = started[t] /\ io_start_map[t] \notin timed

(* No two threads share a start.                                             *)
OwnStarts == \A t, u \in IoThreads : started[t] = started[u] /\ started[t] # 0 => t = u

StartInv == StartsOK /\ LastStart /\ OwnStarts

(* What the threads are at.                                                  *)
CallsOK ==
  /\ links \subseteq IoProbes
  /\ call \in [IoThreads -> Calls \cup {"none"}]
  /\ called \in [IoThreads -> 0 .. starts]
  /\ queue_depth \in 0 .. DepthMod - 1 \cup {NoDepth}
  /\ handler \in [IoThreads -> {"none", "creates", "subtracts"}]

Entered == \A c \in Calls : <<"enter", c>> \in links

(* The entry of a thread in a call was made in that call.                    *)
MadeInCall ==
  Entered =>
    \A t \in DOMAIN io_start_map : call[t] # "none" => io_start_map[t] > called[t]

DiskInv == StartInv /\ CallsOK /\ MadeInCall /\ CallNeverOverstated

LEMMA DiskInitInv == DiskInit => DiskInv
<1> SUFFICES ASSUME DiskInit PROVE DiskInv
  OBVIOUS
<1>1. DOMAIN io_start_map = {} /\ Cardinality({}) = 0
  BY FS_EmptySet DEF DiskInit, EmptyMap
<1>2. StartInv
  BY <1>1, DiskAssumption DEF DiskInit, StartInv, StartsOK, LastStart, OwnStarts
<1>3. CallsOK
  BY DiskAssumption, AttachmentsAssumption DEF DiskInit, CallsOK
<1> QED
  BY <1>1, <1>2, <1>3 DEF DiskInit, DiskInv, MadeInCall, CallNeverOverstated

(* A start has a number no other start has.                                  *)
LEMMA BeginKeeps ==
  ASSUME StartInv, NEW t \in IoThreads, Begin(t), NoIo
  PROVE  /\ StartInv'
         /\ starts' = starts + 1 /\ starts \in Nat /\ io_event' = NoIoEvent
         /\ \A u \in DOMAIN io_start_map' :
              \/ u = t /\ io_start_map'[u] = starts + 1
              \/ u # t /\ u \in DOMAIN io_start_map /\ io_start_map'[u] = io_start_map[u]
         /\ DiskWatch!Start(t)
<1> DEFINE n == starts + 1
<1>1. /\ starts \in Nat /\ n \in Nat /\ starts' = n /\ started' = [started EXCEPT ![t] = n]
      /\ io_start_map' = Update(io_start_map, IoCap, t, n)
      /\ io_event' = NoIoEvent /\ UNCHANGED <<timed, io_events>>
  BY DEF StartInv, StartsOK, Begin, NoIo
<1>2. /\ DOMAIN io_start_map' \subseteq DOMAIN io_start_map \cup {t}
      /\ \A u \in DOMAIN io_start_map' :
           io_start_map'[u] = IF u = t THEN n ELSE io_start_map[u]
      /\ Cardinality(DOMAIN io_start_map') <= IoCap
  <2>1. IsFiniteSet(DOMAIN io_start_map)
    BY DiskAssumption, FS_Subset DEF StartInv, StartsOK
  <2> QED
    BY <1>1, <2>1, DiskAssumption, UpdateEffect DEF StartInv, StartsOK
<1>3. \A u \in DOMAIN io_start_map' :
        \/ u = t /\ io_start_map'[u] = n
        \/ u # t /\ u \in DOMAIN io_start_map /\ io_start_map'[u] = io_start_map[u]
  BY <1>2
<1>4. started' \in [IoThreads -> 0 .. starts'] /\ timed' \subseteq 1 .. starts'
  BY <1>1 DEF StartInv, StartsOK
<1>5. io_start_map' \in [DOMAIN io_start_map' -> 1 .. starts']
  <2>1. io_start_map' = [u \in DOMAIN io_start_map' |-> io_start_map'[u]]
    BY <1>1, <1>2 DEF Update, Put, StartInv, StartsOK
  <2>2. \A u \in DOMAIN io_start_map' : io_start_map'[u] \in 1 .. starts'
    BY <1>1, <1>3 DEF StartInv, StartsOK
  <2> QED
    BY <2>1, <2>2
<1>6. StartsOK'
  BY <1>1, <1>2, <1>4, <1>5 DEF StartInv, StartsOK
<1>7. n \notin timed /\ \A u \in IoThreads : started[u] # n
  BY <1>1 DEF StartInv, StartsOK
<1>8. LastStart'
  BY <1>1, <1>3, <1>7 DEF StartInv, StartsOK, LastStart
<1>9. OwnStarts'
  BY <1>1, <1>7 DEF StartInv, StartsOK, OwnStarts
<1>10. DiskWatch!Start(t)
  <2>1. started'[t] = n /\ \A u \in IoThreads : started[u] < n
    BY <1>1 DEF StartInv, StartsOK
  <2> QED
    BY <1>1, <2>1 DEF DiskWatch!Start
<1> QED
  BY <1>1, <1>3, <1>6, <1>8, <1>9, <1>10 DEF StartInv

(* An entry that goes leaves the others as they are.                         *)
LEMMA DropKeeps ==
  ASSUME StartInv, NEW t \in DOMAIN io_start_map, Drop(t)
  PROVE  /\ DOMAIN io_start_map' = DOMAIN io_start_map \ {t}
         /\ \A u \in DOMAIN io_start_map' : io_start_map'[u] = io_start_map[u]
         /\ io_start_map' \in [DOMAIN io_start_map' -> 1 .. starts]
         /\ Cardinality(DOMAIN io_start_map') <= IoCap
<1>1. io_start_map' = [u \in DOMAIN io_start_map \ {t} |-> io_start_map[u]]
  BY DEF Drop, Delete
<1>2. IsFiniteSet(DOMAIN io_start_map)
  BY DiskAssumption, FS_Subset DEF StartInv, StartsOK
<1>3. Cardinality(DOMAIN io_start_map \ {t}) <= Cardinality(DOMAIN io_start_map)
  BY <1>2, FS_Subset
<1>4. Cardinality(DOMAIN io_start_map \ {t}) \in Nat /\ Cardinality(DOMAIN io_start_map) \in Nat
  BY <1>2, FS_Subset, FS_CardinalityType
<1> QED
  BY <1>1, <1>3, <1>4, DiskAssumption DEF StartInv, StartsOK

(* An event reports the thread's last start.                                 *)
LEMMA EndKeeps ==
  ASSUME StartInv, NEW t \in DOMAIN io_start_map, NEW of \in {"request", "call"}, End(t, of)
  PROVE  /\ StartInv'
         /\ UNCHANGED <<starts, started>>
         /\ DOMAIN io_start_map' \subseteq DOMAIN io_start_map
         /\ \A u \in DOMAIN io_start_map' : io_start_map'[u] = io_start_map[u]
         /\ io_event' = [thread |-> t, start |-> io_start_map[t], of |-> of]
         /\ DiskWatch!Report(t)
<1>1. /\ Drop(t) /\ timed' = timed \cup {io_start_map[t]} /\ io_events' = io_events + 1
      /\ io_event' = [thread |-> t, start |-> io_start_map[t], of |-> of]
      /\ UNCHANGED <<starts, started>>
  BY DEF End
<1>2. t \in IoThreads /\ io_start_map[t] \in 1 .. starts /\ starts \in Nat
  BY DEF StartInv, StartsOK
<1>3. StartsOK'
  <2>1. io_event' \in IoEvent
    BY <1>1, <1>2 DEF IoEvent
  <2>2. /\ DOMAIN io_start_map' \subseteq IoThreads
        /\ io_start_map' \in [DOMAIN io_start_map' -> 1 .. starts]
        /\ Cardinality(DOMAIN io_start_map') <= IoCap
    BY <1>1, DropKeeps DEF StartInv, StartsOK
  <2>3. timed' \subseteq 1 .. starts /\ io_events' \in Nat
    BY <1>1, <1>2 DEF StartInv, StartsOK
  <2>4. starts' = starts /\ started' \in [IoThreads -> 0 .. starts]
    BY <1>1 DEF StartInv, StartsOK
  <2> QED
    BY <1>2, <2>1, <2>2, <2>3, <2>4 DEF StartsOK
<1>4. io_start_map[t] = started[t] /\ io_start_map[t] \notin timed
  BY DEF StartInv, LastStart
<1>5. LastStart'
  <2> SUFFICES ASSUME NEW u \in DOMAIN io_start_map'
               PROVE  io_start_map'[u] = started'[u] /\ io_start_map'[u] \notin timed'
    BY DEF LastStart
  <2>1. u # t /\ u \in DOMAIN io_start_map /\ u \in IoThreads /\ io_start_map'[u] = io_start_map[u]
    BY <1>1, DropKeeps DEF StartInv, StartsOK
  <2>2. io_start_map[u] = started[u] /\ io_start_map[u] \notin timed /\ io_start_map[u] # 0
    BY <2>1 DEF StartInv, StartsOK, LastStart
  <2>3. io_start_map[u] # io_start_map[t]
    BY <1>2, <1>4, <2>1, <2>2 DEF StartInv, OwnStarts
  <2> QED
    BY <1>1, <2>1, <2>2, <2>3
<1>6. OwnStarts'
  BY <1>1 DEF StartInv, OwnStarts
<1>7. DiskWatch!Report(t)
  BY <1>1, <1>2, <1>4 DEF DiskWatch!Report
<1> QED
  BY <1>1, <1>3, <1>5, <1>6, <1>7, DropKeeps DEF StartInv

(* An entry that goes without an event.                                      *)
LEMMA EndUnseenKeeps ==
  ASSUME StartInv, NEW t \in DOMAIN io_start_map, EndUnseen(t)
  PROVE  /\ StartInv'
         /\ UNCHANGED <<starts, started, timed, io_events>> /\ io_event' = NoIoEvent
         /\ DOMAIN io_start_map' \subseteq DOMAIN io_start_map
         /\ \A u \in DOMAIN io_start_map' : io_start_map'[u] = io_start_map[u]
<1>1. /\ Drop(t) /\ io_event' = NoIoEvent
      /\ UNCHANGED <<starts, started, timed, io_events>>
  BY DEF EndUnseen, NoIo
<1> QED
  BY <1>1, DropKeeps DEF StartInv, StartsOK, LastStart, OwnStarts

(* No entry comes or goes.                                                   *)
LEMMA NotTimedKeeps ==
  ASSUME StartInv, UNCHANGED <<starts, started, io_start_map, timed, io_events>>,
         io_event' \in {NoIoEvent, io_event}
  PROVE  StartInv'
BY DEF StartInv, StartsOK, LastStart, OwnStarts

(* A step that adds no entry and enters no call.                             *)
LEMMA NoNewEntry ==
  ASSUME DiskInv, UNCHANGED <<links, called>>,
         \A t \in DOMAIN io_start_map : call'[t] # "none" => call'[t] = call[t],
         DOMAIN io_start_map' \subseteq DOMAIN io_start_map,
         \A t \in DOMAIN io_start_map' : io_start_map'[t] = io_start_map[t]
  PROVE  MadeInCall'
BY DEF DiskInv, MadeInCall, Entered

LEMMA EnterCallInv ==
  ASSUME DiskInv, NEW t \in IoThreads, NEW c \in Calls, EnterCall(t, c)
  PROVE  DiskInv'
<1>1. /\ call' = [call EXCEPT ![t] = c] /\ called' = [called EXCEPT ![t] = starts]
      /\ UNCHANGED <<links, queue_depth, handler>>
  BY DEF EnterCall, depthVars
<1>2. CASE <<"enter", c>> \in links
  <2>1. Begin(t) /\ NoIo
    BY <1>2 DEF EnterCall
  <2>2. /\ StartInv' /\ starts' = starts + 1 /\ starts \in Nat /\ io_event' = NoIoEvent
        /\ \A u \in DOMAIN io_start_map' :
              \/ u = t /\ io_start_map'[u] = starts + 1
              \/ u # t /\ u \in DOMAIN io_start_map /\ io_start_map'[u] = io_start_map[u]
    BY <2>1, BeginKeeps DEF DiskInv
  <2>3. CallsOK'
    BY <1>1, <2>2 DEF DiskInv, CallsOK
  <2>4. MadeInCall'
    BY <1>1, <2>2 DEF DiskInv, CallsOK, StartInv, StartsOK, MadeInCall, Entered
  <2> QED
    BY <2>2, <2>3, <2>4 DEF DiskInv, CallNeverOverstated
<1>3. CASE <<"enter", c>> \notin links
  <2>1. UNCHANGED <<starts, started, io_start_map, timed, io_events>> /\ io_event' = NoIoEvent
    BY <1>3 DEF EnterCall, NotTimed, NoIo, startVars
  <2>2. StartInv'
    BY <2>1, NotTimedKeeps DEF DiskInv
  <2>3. CallsOK'
    BY <1>1, <2>1 DEF DiskInv, StartInv, StartsOK, CallsOK
  <2> QED
    BY <1>1, <1>3, <2>1, <2>2, <2>3 DEF DiskInv, MadeInCall, Entered, CallNeverOverstated
<1> QED
  BY <1>2, <1>3

LEMMA ReturnCallInv ==
  ASSUME DiskInv, NEW t \in IoThreads, ReturnCall(t)
  PROVE  DiskInv'
<1>1. /\ call[t] # "none" /\ call' = [call EXCEPT ![t] = "none"]
      /\ UNCHANGED <<links, called, queue_depth, handler>>
  BY DEF ReturnCall, depthVars
<1>2. \A u \in DOMAIN io_start_map : call'[u] # "none" => call'[u] = call[u]
  BY <1>1 DEF DiskInv, CallsOK, StartInv, StartsOK
<1>3. CASE t \in DOMAIN io_start_map /\ End(t, "call")
  <2>1. /\ StartInv' /\ starts' = starts
        /\ DOMAIN io_start_map' \subseteq DOMAIN io_start_map
        /\ \A u \in DOMAIN io_start_map' : io_start_map'[u] = io_start_map[u]
        /\ io_event' = [thread |-> t, start |-> io_start_map[t], of |-> "call"]
    BY <1>3, EndKeeps DEF DiskInv
  <2>2. CallsOK' /\ MadeInCall'
    BY <1>1, <1>2, <2>1, NoNewEntry DEF DiskInv, CallsOK
  <2>3. CallNeverOverstated'
    BY <1>1, <1>3, <2>1 DEF DiskInv, MadeInCall, Entered, CallNeverOverstated
  <2> QED
    BY <2>1, <2>2, <2>3 DEF DiskInv
<1>4. CASE t \in DOMAIN io_start_map /\ EndUnseen(t)
  <2>1. /\ StartInv' /\ starts' = starts /\ io_event' = NoIoEvent
        /\ DOMAIN io_start_map' \subseteq DOMAIN io_start_map
        /\ \A u \in DOMAIN io_start_map' : io_start_map'[u] = io_start_map[u]
    BY <1>4, EndUnseenKeeps DEF DiskInv
  <2> QED
    BY <1>1, <1>2, <2>1, NoNewEntry DEF DiskInv, CallsOK, CallNeverOverstated
<1>5. CASE NotTimed(t)
  <2>1. UNCHANGED <<starts, started, io_start_map, timed, io_events>> /\ io_event' = NoIoEvent
    BY <1>5 DEF NotTimed, NoIo, startVars
  <2>2. StartInv'
    BY <2>1, NotTimedKeeps DEF DiskInv
  <2> QED
    BY <1>1, <1>2, <2>1, <2>2, NoNewEntry DEF DiskInv, CallsOK, CallNeverOverstated
<1> QED
  BY <1>3, <1>4, <1>5 DEF ReturnCall

LEMMA IssueRequestInv ==
  ASSUME DiskInv, NEW t \in IoThreads, IssueRequest(t)
  PROVE  DiskInv'
<1>1. Begin(t) /\ NoIo /\ UNCHANGED <<links, call, called>>
  BY DEF IssueRequest
<1>2. /\ StartInv' /\ starts' = starts + 1 /\ starts \in Nat /\ io_event' = NoIoEvent
      /\ \A u \in DOMAIN io_start_map' :
            \/ u = t /\ io_start_map'[u] = starts + 1
            \/ u # t /\ u \in DOMAIN io_start_map /\ io_start_map'[u] = io_start_map[u]
  BY <1>1, BeginKeeps DEF DiskInv
<1>3. CallsOK'
  <2>1. called' \in [IoThreads -> 0 .. starts']
    BY <1>1, <1>2 DEF DiskInv, CallsOK
  <2>2. queue_depth' \in 0 .. DepthMod - 1 \cup {NoDepth}
    BY DiskAssumption DEF IssueRequest, DiskInv, CallsOK
  <2>3. handler' \in [IoThreads -> {"none", "creates", "subtracts"}]
    BY DEF IssueRequest, DiskInv, CallsOK
  <2> QED
    BY <1>1, <2>1, <2>2, <2>3 DEF DiskInv, CallsOK
<1>4. MadeInCall'
  BY <1>1, <1>2 DEF DiskInv, CallsOK, StartInv, StartsOK, MadeInCall, Entered
<1> QED
  BY <1>2, <1>3, <1>4 DEF DiskInv, CallNeverOverstated

LEMMA CompleteRequestInv ==
  ASSUME DiskInv, NEW t \in IoThreads, CompleteRequest(t)
  PROVE  DiskInv'
<1>1. t \in DOMAIN io_start_map /\ UNCHANGED <<links, call, called, queue_depth>>
  BY DEF CompleteRequest
<1>2. handler' \in [IoThreads -> {"none", "creates", "subtracts"}]
  BY DEF CompleteRequest, DiskInv, CallsOK
<1>3. CASE End(t, "request")
  <2>1. /\ StartInv' /\ starts' = starts
        /\ DOMAIN io_start_map' \subseteq DOMAIN io_start_map
        /\ \A u \in DOMAIN io_start_map' : io_start_map'[u] = io_start_map[u]
        /\ io_event' = [thread |-> t, start |-> io_start_map[t], of |-> "request"]
    BY <1>1, <1>3, EndKeeps DEF DiskInv
  <2> QED
    BY <1>1, <1>2, <2>1, NoNewEntry DEF DiskInv, CallsOK, CallNeverOverstated
<1>4. CASE EndUnseen(t)
  <2>1. /\ StartInv' /\ starts' = starts /\ io_event' = NoIoEvent
        /\ DOMAIN io_start_map' \subseteq DOMAIN io_start_map
        /\ \A u \in DOMAIN io_start_map' : io_start_map'[u] = io_start_map[u]
    BY <1>1, <1>4, EndUnseenKeeps DEF DiskInv
  <2> QED
    BY <1>1, <1>2, <2>1, NoNewEntry DEF DiskInv, CallsOK, CallNeverOverstated
<1> QED
  BY <1>3, <1>4 DEF CompleteRequest

(* The second halves of the handlers of requests.                            *)
LEMMA DepthInv ==
  ASSUME DiskInv, NEW t \in IoThreads, CreateDepth(t) \/ SubtractDepth(t)
  PROVE  DiskInv'
<1>1. /\ UNCHANGED <<links, call, called, starts, started, io_start_map, timed, io_events>>
      /\ io_event' = NoIoEvent
      /\ handler' = [handler EXCEPT ![t] = "none"]
  BY DEF CreateDepth, SubtractDepth, NoIo, startVars
<1>2. StartInv'
  BY <1>1, NotTimedKeeps DEF DiskInv
<1>3. queue_depth' \in 0 .. DepthMod - 1 \cup {NoDepth}
  <2>1. CASE CreateDepth(t)
    BY <2>1, DiskAssumption DEF CreateDepth
  <2>2. CASE SubtractDepth(t)
    BY <2>2, DiskAssumption DEF SubtractDepth, DiskInv, CallsOK
  <2> QED
    BY <2>1, <2>2
<1> QED
  BY <1>1, <1>2, <1>3, NoNewEntry DEF DiskInv, CallsOK, CallNeverOverstated

LEMMA DiskNextInv == DiskInv /\ [DiskNext]_diskVars => DiskInv'
<1> SUFFICES ASSUME DiskInv, [DiskNext]_diskVars PROVE DiskInv'
  OBVIOUS
<1>1. CASE UNCHANGED diskVars
  BY <1>1 DEF diskVars, startVars, depthVars, eventVars, DiskInv, StartInv, StartsOK, LastStart,
              OwnStarts, CallsOK, MadeInCall, Entered, CallNeverOverstated
<1> QED
  BY <1>1, EnterCallInv, ReturnCallInv, IssueRequestInv, CompleteRequestInv, DepthInv DEF DiskNext

(* Six probes keep to the size of the map they share; the depth keeps to its *)
(* 64 bits because it wraps around.                                          *)
THEOREM DiskTypeCorrect == DiskSpec => []DiskTypeOK
<1>1. DiskInv => DiskTypeOK
  BY DEF DiskInv, StartInv, StartsOK, CallsOK, DiskTypeOK
<1> QED
  BY <1>1, DiskInitInv, DiskNextInv, PTL DEF DiskSpec

(* With the probes on the entry of both calls, and any others, the latency of *)
(* a VFS call never reaches back before the call, for any number of threads. *)
THEOREM CallsNotOverstated == DiskSpec => []CallNeverOverstated
<1>1. DiskInv => CallNeverOverstated
  BY DEF DiskInv
<1> QED
  BY <1>1, DiskInitInv, DiskNextInv, PTL DEF DiskSpec

(* Every step of the disk probes is a start, a report or neither.            *)
LEMMA DiskSimulates ==
  DiskInv /\ [DiskNext]_diskVars => [DiskWatch!Next]_<<started, timed, io_events>>
<1> SUFFICES ASSUME DiskInv, [DiskNext]_diskVars
             PROVE  DiskWatch!Next \/ UNCHANGED <<started, timed, io_events>>
  OBVIOUS
<1>1. ASSUME NEW t \in IoThreads, Begin(t) /\ NoIo PROVE DiskWatch!Next
  <2>1. DiskWatch!Start(t)
    BY <1>1, BeginKeeps DEF DiskInv
  <2> QED
    BY <2>1 DEF DiskWatch!Next
<1>2. ASSUME NEW t \in IoThreads, NEW of \in {"request", "call"},
             t \in DOMAIN io_start_map, End(t, of)
      PROVE  DiskWatch!Next
  <2>1. DiskWatch!Report(t)
    BY <1>2, EndKeeps DEF DiskInv
  <2> QED
    BY <1>2, <2>1 DEF DiskWatch!Next
<1>3. ASSUME NEW t \in IoThreads, NEW c \in Calls, EnterCall(t, c)
      PROVE  DiskWatch!Next \/ UNCHANGED <<started, timed, io_events>>
  BY <1>1, <1>3 DEF EnterCall, NotTimed, NoIo, startVars
<1>4. ASSUME NEW t \in IoThreads, ReturnCall(t) \/ CompleteRequest(t)
      PROVE  DiskWatch!Next \/ UNCHANGED <<started, timed, io_events>>
  BY <1>2, <1>4 DEF ReturnCall, CompleteRequest, EndUnseen, NotTimed, NoIo, startVars
<1>5. ASSUME NEW t \in IoThreads, IssueRequest(t) PROVE DiskWatch!Next
  BY <1>1, <1>5 DEF IssueRequest
<1>6. ASSUME NEW t \in IoThreads, CreateDepth(t) \/ SubtractDepth(t)
      PROVE  UNCHANGED <<started, timed, io_events>>
  BY <1>6 DEF CreateDepth, SubtractDepth, NoIo, startVars
<1>7. CASE UNCHANGED diskVars
  BY <1>7 DEF diskVars, startVars, eventVars
<1> QED
  BY <1>3, <1>4, <1>5, <1>6, <1>7 DEF DiskNext

(* The disk probes implement the stopwatch, for any threads and any probes   *)
(* attached, although they overwrite and delete each other's entries.        *)
THEOREM StartsAreMeasured == DiskSpec => MeasuresLastStart
<1>1. DiskInit => DiskWatch!Init
  BY DEF DiskInit, DiskWatch!Init
<1> QED
  BY <1>1, DiskInitInv, DiskNextInv, DiskSimulates, PTL
  DEF DiskSpec, MeasuresLastStart, DiskWatch!Spec

-----------------------------------------------------------------------------
(* TCP metrics.                                                              *)

(* Whatever numbers an entry of an own connection shows were measured on it. *)
TcpInv == TcpTypeOK /\ OwnNumbers

(* An entry that is written is well formed and shows own numbers.            *)
Honest(s, info) ==
  /\ info \in ConnInfo
  /\ ("connect" \in attached /\ s \in opened') =>
       /\ info.retrans <= retransmitted'[s]
       /\ info.srtt \in sampled'[s] \cup {0}
       /\ info.min_rtt \in sampled'[s] \cup {0}

(* What a step leaves of the kernel's state.                                 *)
KernelOK ==
  /\ state' \in [Sockets -> States]
  /\ orphan' \subseteq Sockets /\ opened' \subseteq Sockets
  /\ retransmitted' \in [Sockets -> Nat]
  /\ sampled' \in [Sockets -> SUBSET Rtts]

(* An own connection was one before and has measured no less since.          *)
Grows(s) ==
  ("connect" \in attached /\ s \in opened') =>
    /\ s \in opened
    /\ retransmitted[s] <= retransmitted'[s] /\ sampled[s] \subseteq sampled'[s]

(* A socket's entry after a step was there before, was written or is gone.   *)
LEMMA EntryInv ==
  ASSUME TcpInv, NEW s \in Sockets, attached' = attached, KernelOK,
         \A u \in Sockets \ {s} : Grows(u),
         \/ \E info : Honest(s, info) /\ connections' = Put(connections, s, info)
         \/ Grows(s) /\ UNCHANGED connections
         \/ s \notin DOMAIN connections' /\ connections' = Delete(connections, s)
  PROVE  TcpInv'
<1>1. DOMAIN connections' \subseteq DOMAIN connections \cup {s}
  BY DEF Put, Delete
<1>2. \A u \in DOMAIN connections' \ {s} : connections'[u] = connections[u]
  BY DEF Put, Delete
<1>3. connections' \in [DOMAIN connections' -> ConnInfo]
  BY DEF Put, Delete, Honest, TcpInv, TcpTypeOK
<1>4. TcpTypeOK'
  BY <1>1, <1>3 DEF TcpInv, TcpTypeOK, KernelOK
<1>5. ASSUME "connect" \in attached, NEW u \in opened' \cap DOMAIN connections'
      PROVE  /\ connections'[u].retrans <= retransmitted'[u]
             /\ connections'[u].srtt \in sampled'[u] \cup {0}
             /\ connections'[u].min_rtt \in sampled'[u] \cup {0}
  <2>1. CASE u \in DOMAIN connections /\ connections'[u] = connections[u] /\ Grows(u)
    <3>1. /\ connections[u].retrans <= retransmitted[u]
          /\ connections[u].srtt \in sampled[u] \cup {0}
          /\ connections[u].min_rtt \in sampled[u] \cup {0}
      BY <1>5, <2>1 DEF TcpInv, OwnNumbers, Grows
    <3>2. /\ connections[u].retrans \in Nat
          /\ retransmitted[u] \in Nat /\ retransmitted'[u] \in Nat
      BY <2>1 DEF TcpInv, TcpTypeOK, ConnInfo, KernelOK
    <3> QED
      BY <1>5, <2>1, <3>1, <3>2 DEF Grows
  <2>2. CASE u = s /\ Honest(s, connections'[u])
    BY <1>5, <2>2 DEF Honest
  <2>3. u \in Sockets
    BY <1>1 DEF TcpInv, TcpTypeOK
  <2> QED
    BY <1>1, <1>2, <1>5, <2>1, <2>2, <2>3 DEF Put
<1>6. OwnNumbers'
  BY <1>5 DEF OwnNumbers
<1> QED
  BY <1>4, <1>6 DEF TcpInv

(* Recording an honest entry, if it fits.                                    *)
LEMMA RecordInv ==
  ASSUME TcpInv, NEW s \in Sockets, attached' = attached, KernelOK,
         \A u \in Sockets : u = s \/ Grows(u),
         NEW info, Honest(s, info), Record(s, info)
  PROVE  TcpInv'
<1>1. CASE connections' = Put(connections, s, info)
  BY <1>1, EntryInv
<1>2. CASE s \notin DOMAIN connections /\ UNCHANGED connections
  <2>1. connections' = Delete(connections, s)
    BY <1>2 DEF Delete, TcpInv, TcpTypeOK
  <2> QED
    BY <1>2, <2>1, EntryInv
<1> QED
  BY <1>1, <1>2 DEF Record, Known

LEMMA TcpInitInv == TcpInit => TcpInv
BY LoadsAssumption DEF TcpInit, EmptyMap, TcpInv, TcpTypeOK, States, OwnNumbers

LEMMA ConnectInv ==
  ASSUME TcpInv, NEW s \in Sockets, Connect(s)
  PROVE  TcpInv'
<1>1. /\ state' = [state EXCEPT ![s] = "NEW"] /\ opened' = opened \cup {s}
      /\ retransmitted' = [retransmitted EXCEPT ![s] = 0]
      /\ sampled' = [sampled EXCEPT ![s] = {}]
      /\ UNCHANGED <<attached, orphan>>
  BY DEF Connect, Forget
<1>2. KernelOK
  BY <1>1 DEF KernelOK, TcpInv, TcpTypeOK, States
<1>3. \A u \in Sockets \ {s} : Grows(u)
  BY <1>1 DEF Grows, TcpInv, TcpTypeOK
<1>4. CASE "connect" \in attached
  <2>1. Record(s, Fresh("SYN_SENT", 0))
    BY <1>4 DEF Connect, Runs, ConnectProbe
  <2>2. Honest(s, Fresh("SYN_SENT", 0))
    BY <1>1 DEF Honest, Fresh, ConnInfo, States, TcpInv, TcpTypeOK
  <2> QED
    BY <1>1, <1>2, <1>3, <2>1, <2>2, RecordInv
<1>5. CASE "connect" \notin attached
  <2>1. UNCHANGED connections
    BY <1>5 DEF Connect, Runs, Idle
  <2>2. Grows(s)
    BY <1>5 DEF Grows
  <2> QED
    BY <1>1, <1>2, <1>3, <2>1, <2>2, EntryInv
<1> QED
  BY <1>4, <1>5

(* The entry of a known socket, before a step in which its counts and samples *)
(* do not go back, is honest after it.                                       *)
LEMMA OldHonest ==
  ASSUME TcpInv, NEW s \in DOMAIN connections, KernelOK, Grows(s)
  PROVE  Honest(s, connections[s])
<1>1. connections[s] \in ConnInfo /\ s \in Sockets
  BY DEF TcpInv, TcpTypeOK
<1>2. ASSUME "connect" \in attached, s \in opened'
      PROVE  /\ connections[s].retrans <= retransmitted'[s]
             /\ connections[s].srtt \in sampled'[s] \cup {0}
             /\ connections[s].min_rtt \in sampled'[s] \cup {0}
  <2>1. /\ connections[s].retrans \in Nat
        /\ retransmitted[s] \in Nat /\ retransmitted'[s] \in Nat
    BY <1>1 DEF TcpInv, TcpTypeOK, ConnInfo, KernelOK
  <2> QED
    BY <1>2, <2>1 DEF Grows, TcpInv, OwnNumbers
<1> QED
  BY <1>1, <1>2 DEF Honest

LEMMA SetStateInv ==
  ASSUME TcpInv, NEW s \in Sockets, NEW st \in States, SetState(s, st)
  PROVE  TcpInv'
<1>1. /\ state' = [state EXCEPT ![s] = st]
      /\ UNCHANGED <<attached, orphan, opened, retransmitted, sampled>>
  BY DEF SetState
<1>2. st \in States \ {"FREE", "NEW"}
  BY DEF SetState, AnyMoves, OwnedMoves, OrphanMoves, States
<1>3. KernelOK
  BY <1>1 DEF KernelOK, TcpInv, TcpTypeOK
<1>4. \A u \in Sockets : Grows(u)
  BY <1>1 DEF Grows, TcpInv, TcpTypeOK
<1>5. CASE "set_state" \notin attached
  BY <1>1, <1>3, <1>4, <1>5, EntryInv DEF SetState, Runs, Idle
<1>6. CASE "set_state" \in attached /\ Known(s)
  <2>1. Record(s, [connections[s] EXCEPT !.state = st])
    BY <1>6 DEF SetState, Runs, SetStateProbe
  <2>2. Honest(s, connections[s])
    BY <1>3, <1>4, <1>6, OldHonest DEF Known
  <2>3. Honest(s, [connections[s] EXCEPT !.state = st])
    BY <1>2, <2>2 DEF Honest, ConnInfo
  <2> QED
    BY <1>1, <1>3, <1>4, <2>1, <2>3, RecordInv
<1>7. CASE "set_state" \in attached /\ ~Known(s)
  <2>1. Record(s, Fresh(st, 0))
    BY <1>7 DEF SetState, Runs, SetStateProbe
  <2>2. retransmitted'[s] \in Nat
    BY <1>3 DEF KernelOK
  <2>3. Honest(s, Fresh(st, 0))
    BY <1>2, <2>2 DEF Honest, Fresh, ConnInfo
  <2> QED
    BY <1>1, <1>3, <1>4, <2>1, <2>3, RecordInv
<1> QED
  BY <1>5, <1>6, <1>7

LEMMA RetransmitInv ==
  ASSUME TcpInv, NEW s \in Sockets, Retransmit(s)
  PROVE  TcpInv'
<1>1. /\ retransmitted' = [retransmitted EXCEPT ![s] = @ + 1]
      /\ UNCHANGED <<attached, state, orphan, opened, sampled>>
  BY DEF Retransmit
<1>2. KernelOK /\ retransmitted[s] \in Nat /\ retransmitted'[s] = retransmitted[s] + 1
  BY <1>1 DEF KernelOK, TcpInv, TcpTypeOK
<1>3. \A u \in Sockets : Grows(u)
  BY <1>1 DEF Grows, TcpInv, TcpTypeOK
<1>4. CASE "retransmit" \in attached /\ Known(s)
  <2>1. Record(s, [connections[s] EXCEPT !.retrans = @ + 1])
    BY <1>4 DEF Retransmit, Runs, RetransmitProbe
  <2>2. Honest(s, connections[s]) /\ connections[s].retrans \in Nat
    BY <1>2, <1>3, <1>4, OldHonest DEF Known, TcpInv, TcpTypeOK, ConnInfo
  <2>3. ASSUME "connect" \in attached, s \in opened'
        PROVE  connections[s].retrans + 1 <= retransmitted'[s]
    <3>1. connections[s].retrans <= retransmitted[s]
      BY <1>1, <1>4, <2>3 DEF Known, TcpInv, OwnNumbers
    <3> QED
      BY <1>2, <2>2, <3>1
  <2>4. Honest(s, [connections[s] EXCEPT !.retrans = @ + 1])
    BY <2>2, <2>3 DEF Honest, ConnInfo
  <2> QED
    BY <1>1, <1>2, <1>3, <2>1, <2>4, RecordInv
<1>5. CASE "retransmit" \notin attached \/ ~Known(s)
  BY <1>1, <1>2, <1>3, <1>5, EntryInv DEF Retransmit, Runs, RetransmitProbe, Idle
<1> QED
  BY <1>4, <1>5

(* An update with samples of the step keeps an entry honest.                 *)
LEMMA UpdatedHonest ==
  ASSUME NEW s, NEW info, NEW srtt \in Nat, NEW min \in Nat, Honest(s, info),
         srtt \in sampled'[s], min \in sampled'[s]
  PROVE  Honest(s, Updated(info, srtt, min))
<1>1. info \in ConnInfo
  BY DEF Honest
<1>2. /\ Updated(info, srtt, min) \in ConnInfo
      /\ Updated(info, srtt, min).retrans = info.retrans
      /\ Updated(info, srtt, min).srtt \in {srtt, info.srtt}
      /\ Updated(info, srtt, min).min_rtt \in {min, info.min_rtt}
  BY <1>1 DEF Updated, ConnInfo
<1> QED
  BY <1>2 DEF Honest

LEMMA EstimateRttInv ==
  ASSUME TcpInv, NEW s \in Sockets, NEW mrtt \in Rtts, NEW srtt \in Rtts, NEW min \in Rtts,
         EstimateRtt(s, mrtt, srtt, min)
  PROVE  TcpInv'
<1> DEFINE info == IF Known(s) THEN connections[s] ELSE Fresh("ESTABLISHED", mrtt)
           new == Updated(info, OrSample(srtt, mrtt), OrSample(min, mrtt))
<1>1. /\ sampled' = [sampled EXCEPT ![s] = @ \cup {mrtt, srtt, min}]
      /\ UNCHANGED <<attached, state, orphan, opened, retransmitted>>
  BY DEF EstimateRtt
<1>2. KernelOK /\ {mrtt, srtt, min} \subseteq sampled'[s] /\ {mrtt, srtt, min} \subseteq Nat
  BY <1>1, TcpAssumption DEF KernelOK, TcpInv, TcpTypeOK
<1>3. \A u \in Sockets : Grows(u)
  BY <1>1 DEF Grows, TcpInv, TcpTypeOK
<1>4. CASE "rtt_estimator" \in attached
  <2>1. Record(s, new)
    BY <1>4 DEF EstimateRtt, Runs, RttProbe
  <2>2. Honest(s, info)
    <3>1. CASE Known(s)
      BY <1>2, <1>3, <3>1, OldHonest DEF Known
    <3>2. CASE ~Known(s)
      <4>1. retransmitted'[s] \in Nat
        BY <1>2 DEF KernelOK
      <4> QED
        BY <1>2, <3>2, <4>1 DEF Honest, Fresh, ConnInfo, States
    <3> QED
      BY <3>1, <3>2
  <2>3. OrSample(srtt, mrtt) \in {srtt, mrtt} /\ OrSample(min, mrtt) \in {min, mrtt}
    BY DEF OrSample
  <2> HIDE DEF info
  <2>4. Honest(s, new)
    BY <1>2, <2>2, <2>3, UpdatedHonest
  <2> HIDE DEF new
  <2> QED
    BY <1>1, <1>2, <1>3, <2>1, <2>4, RecordInv
<1>5. CASE "rtt_estimator" \notin attached
  BY <1>1, <1>2, <1>3, <1>5, EntryInv DEF EstimateRtt, Runs, Idle
<1> QED
  BY <1>4, <1>5

LEMMA CloseFreeInv ==
  ASSUME TcpInv, NEW s \in Sockets, Close(s) \/ Free(s)
  PROVE  TcpInv'
<1>1. /\ attached' = attached /\ KernelOK /\ \A u \in Sockets : Grows(u)
      /\ connections' = Delete(connections, s) \/ UNCHANGED connections
  <2>1. CASE Close(s)
    BY <2>1 DEF Close, Runs, CloseProbe, Idle, KernelOK, Grows, TcpInv, TcpTypeOK
  <2>2. CASE Free(s)
    BY <2>2 DEF Free, Forget, Idle, KernelOK, Grows, TcpInv, TcpTypeOK, States
  <2> QED
    BY <2>1, <2>2
<1>2. CASE connections' = Delete(connections, s)
  <2>1. s \notin DOMAIN connections'
    BY <1>2 DEF Delete
  <2> QED
    BY <1>1, <1>2, <2>1, EntryInv
<1>3. CASE UNCHANGED connections
  BY <1>1, <1>3, EntryInv
<1> QED
  BY <1>1, <1>2, <1>3

LEMMA TcpNextInv == TcpInv /\ [TcpNext]_tcpVars => TcpInv'
<1> SUFFICES ASSUME TcpInv, [TcpNext]_tcpVars PROVE TcpInv'
  OBVIOUS
<1>1. CASE UNCHANGED tcpVars
  BY <1>1 DEF tcpVars, socketVars, TcpInv, TcpTypeOK, OwnNumbers
<1> QED
  BY <1>1, ConnectInv, SetStateInv, RetransmitInv, EstimateRttInv, CloseFreeInv DEF TcpNext

(* The TCP probes only ever record what tcp_conn_info can hold.              *)
THEOREM TcpTypeCorrect == TcpSpec => []TcpTypeOK
<1>1. TcpInv => TcpTypeOK
  BY DEF TcpInv
<1> QED
  BY <1>1, TcpInitInv, TcpNextInv, PTL DEF TcpSpec

(* With the probe on tcp_v4_connect, whatever others are attached: nothing   *)
(* that is reported of a connection this node opened was measured on another *)
(* socket at the same address.                                               *)
THEOREM NumbersAreOwn == TcpSpec => []OwnNumbers
<1>1. TcpInv => OwnNumbers
  BY DEF TcpInv
<1> QED
  BY <1>1, TcpInitInv, TcpNextInv, PTL DEF TcpSpec

-----------------------------------------------------------------------------
(* Connection latency.                                                       *)

(* What holds of the notes, were they map: a note is of a connect of its     *)
(* socket that nothing was reported of, and no two are of the same.          *)
NotesOK(map) ==
  /\ map \in [DOMAIN map -> ConnectInfo]
  /\ IsFiniteSet(DOMAIN map) /\ Cardinality(DOMAIN map) <= ConnectCap
  /\ \A k \in DOMAIN map :
       /\ map[k].connect \in DOMAIN connects
       /\ connects[map[k].connect] = map[k].socket
       /\ \A i \in DOMAIN rtt_events : rtt_events[i].connect # map[k].connect
  /\ \A k, l \in DOMAIN map : map[k].connect = map[l].connect => k = l

(* What was reported began.                                                  *)
ReportsBegan == \A i \in DOMAIN rtt_events : rtt_events[i].connect \in DOMAIN connects

RttInv == RttTypeOK /\ NotesOK(tcp_connect_start) /\ ReportsBegan /\ ConnectsMeasuredOnce

LEMMA RttInitInv == RttInit => RttInv
<1> SUFFICES ASSUME RttInit PROVE RttInv
  OBVIOUS
<1>1. DOMAIN tcp_connect_start = {} /\ tcp_connect_start = EmptyMap
  BY DEF RttInit, EmptyMap
<1>2. IsFiniteSet({}) /\ Cardinality({}) = 0
  BY FS_EmptySet
<1>3. connects = <<>> /\ rtt_events = <<>> /\ DOMAIN rtt_events = {}
  BY DEF RttInit
<1>4. tcp_connect_start \in [DOMAIN tcp_connect_start -> ConnectInfo]
  BY <1>1 DEF EmptyMap
<1>5. RttTypeOK
  BY <1>1, <1>2, <1>3, <1>4, RttAssumption DEF RttInit, RttTypeOK
<1>6. NotesOK(tcp_connect_start)
  BY <1>1, <1>2, <1>4, RttAssumption DEF NotesOK
<1> QED
  BY <1>3, <1>5, <1>6 DEF RttInv, ReportsBegan, ConnectsMeasuredOnce

(* Removing a note leaves the others as they are.                            *)
LEMMA DeletedNotes ==
  ASSUME NEW map, NotesOK(map), NEW key
  PROVE  NotesOK(Delete(map, key)) /\ key \notin DOMAIN Delete(map, key)
<1> DEFINE new == Delete(map, key)
<1>1. /\ DOMAIN new = DOMAIN map \ {key}
      /\ \A k \in DOMAIN new : new[k] = map[k]
      /\ new \in [DOMAIN new -> ConnectInfo]
  BY DEF Delete, NotesOK
<1>2. IsFiniteSet(DOMAIN new) /\ Cardinality(DOMAIN new) <= Cardinality(DOMAIN map)
  BY <1>1, FS_Subset DEF NotesOK
<1>3. Cardinality(DOMAIN new) \in Nat /\ Cardinality(DOMAIN map) \in Nat
  BY <1>2, FS_CardinalityType DEF NotesOK
<1>4. Cardinality(DOMAIN new) <= ConnectCap
  BY <1>2, <1>3, RttAssumption DEF NotesOK
<1> HIDE DEF new
<1>5. NotesOK(new)
  BY <1>1, <1>2, <1>4 DEF NotesOK
<1> QED
  BY <1>1, <1>5 DEF new

(* So does noting a connect that no other note and no report is of.          *)
LEMMA UpdatedNotes ==
  ASSUME NEW map, NotesOK(map), NEW key, NEW info \in ConnectInfo,
         info.connect \in DOMAIN connects, connects[info.connect] = info.socket,
         \A i \in DOMAIN rtt_events : rtt_events[i].connect # info.connect,
         \A k \in DOMAIN map : map[k].connect # info.connect
  PROVE  NotesOK(Update(map, ConnectCap, key, info))
<1> DEFINE new == Update(map, ConnectCap, key, info)
<1>1. /\ DOMAIN new \subseteq DOMAIN map \cup {key}
      /\ \A k \in DOMAIN new : new[k] = IF k = key THEN info ELSE map[k]
      /\ IsFiniteSet(DOMAIN new)
      /\ Cardinality(DOMAIN new) <= ConnectCap
  BY RttAssumption, UpdateEffect DEF NotesOK
<1>2. new = [k \in DOMAIN new |-> new[k]]
  BY DEF Update, Put, NotesOK
<1> HIDE DEF new
<1>3. \A k \in DOMAIN new :
        \/ k = key /\ new[k] = info
        \/ k # key /\ k \in DOMAIN map /\ new[k] = map[k]
  BY <1>1
<1>4. new \in [DOMAIN new -> ConnectInfo]
  BY <1>2, <1>3 DEF NotesOK
<1>5. NotesOK(new)
  BY <1>1, <1>3, <1>4 DEF NotesOK
<1> QED
  BY <1>5 DEF new

(* A note that is moved to another key is no other note.                     *)
LEMMA MovedNotes ==
  ASSUME NotesOK(tcp_connect_start), NEW full, NEW bare
  PROVE  NotesOK(Moved(full, bare))
<1> DEFINE rest == Delete(tcp_connect_start, bare)
           info == tcp_connect_start[bare]
<1>1. CASE full \in DOMAIN tcp_connect_start \/ bare \notin DOMAIN tcp_connect_start
  BY <1>1 DEF Moved
<1>2. CASE full \notin DOMAIN tcp_connect_start /\ bare \in DOMAIN tcp_connect_start
  <2>1. NotesOK(rest)
    BY DeletedNotes
  <2>2. /\ info \in ConnectInfo
        /\ info.connect \in DOMAIN connects /\ connects[info.connect] = info.socket
        /\ \A i \in DOMAIN rtt_events : rtt_events[i].connect # info.connect
    BY <1>2 DEF NotesOK
  <2>3. \A k \in DOMAIN rest : rest[k].connect # info.connect
    BY <1>2 DEF NotesOK, Delete
  <2>4. Moved(full, bare) = Update(rest, ConnectCap, full, info)
    BY <1>2 DEF Moved
  <2> HIDE DEF rest, info
  <2> QED
    BY <2>1, <2>2, <2>3, <2>4, UpdatedNotes
<1> QED
  BY <1>1, <1>2

(* A connect has a number of its own, and notes it where there is room.      *)
LEMMA ConnectStartInv ==
  ASSUME RttInv, NEW s \in Socks, NEW pid \in Processes, NEW src \in Sources,
         NEW dst \in Targets, ConnectStart(s, pid, src, dst)
  PROVE  RttInv'
<1> DEFINE n == Len(connects) + 1
           info == [connect |-> n, socket |-> s]
<1>1. PICK key : tcp_connect_start' = Update(tcp_connect_start, ConnectCap, key, info)
  BY DEF ConnectStart
<1>2. /\ Len(connects) < MaxConnects /\ connects' = Append(connects, s)
      /\ connects \in Seq(Socks) /\ UNCHANGED rtt_events
  BY DEF ConnectStart, RttInv, RttTypeOK
<1>3. /\ n \in 1 .. MaxConnects /\ connects' \in Seq(Socks) /\ Len(connects') = n
      /\ n \in DOMAIN connects' /\ connects'[n] = s /\ n \notin DOMAIN connects
      /\ \A i \in DOMAIN connects : i \in DOMAIN connects' /\ connects'[i] = connects[i]
  BY <1>2, RttAssumption
<1>4. info \in ConnectInfo /\ info.connect = n /\ info.socket = s
  BY <1>3 DEF ConnectInfo
<1> HIDE DEF info, n
<1>5. NotesOK(tcp_connect_start)'
  <2>1. /\ DOMAIN tcp_connect_start' \subseteq DOMAIN tcp_connect_start \cup {key}
        /\ \A k \in DOMAIN tcp_connect_start' :
             tcp_connect_start'[k] = IF k = key THEN info ELSE tcp_connect_start[k]
        /\ IsFiniteSet(DOMAIN tcp_connect_start')
        /\ Cardinality(DOMAIN tcp_connect_start') <= ConnectCap
    BY <1>1, RttAssumption, UpdateEffect DEF RttInv, NotesOK
  <2>2. \A k \in DOMAIN tcp_connect_start' :
          \/ k = key /\ tcp_connect_start'[k] = info
          \/ k # key /\ k \in DOMAIN tcp_connect_start
             /\ tcp_connect_start'[k] = tcp_connect_start[k]
    BY <2>1
  <2>3. tcp_connect_start' = [k \in DOMAIN tcp_connect_start' |-> tcp_connect_start'[k]]
    BY <1>1 DEF Update, Put, RttInv, NotesOK
  <2>4. tcp_connect_start' \in [DOMAIN tcp_connect_start' -> ConnectInfo]
    BY <1>4, <2>2, <2>3 DEF RttInv, NotesOK
  <2>5. \A k \in DOMAIN tcp_connect_start' :
          /\ tcp_connect_start'[k].connect \in DOMAIN connects'
          /\ connects'[tcp_connect_start'[k].connect] = tcp_connect_start'[k].socket
          /\ \A i \in DOMAIN rtt_events' :
               rtt_events'[i].connect # tcp_connect_start'[k].connect
    BY <1>2, <1>3, <1>4, <2>2 DEF RttInv, NotesOK, ReportsBegan
  <2>6. \A k, l \in DOMAIN tcp_connect_start' :
          tcp_connect_start'[k].connect = tcp_connect_start'[l].connect => k = l
    BY <1>3, <1>4, <2>2 DEF RttInv, NotesOK
  <2> QED
    BY <2>1, <2>4, <2>5, <2>6 DEF NotesOK
<1>6. RttTypeOK'
  <2>1. /\ sock' \in [Socks -> {"free", "connecting", "done"}]
        /\ peer' \in [Socks -> (Sources \X Targets) \cup {<<Nowhere, Nowhere>>}]
    BY DEF ConnectStart, RttInv, RttTypeOK
  <2> QED
    BY <1>2, <1>3, <1>5, <2>1 DEF RttInv, RttTypeOK, NotesOK, n
<1>7. ReportsBegan' /\ ConnectsMeasuredOnce'
  BY <1>2, <1>3 DEF RttInv, ReportsBegan, ConnectsMeasuredOnce
<1> QED
  BY <1>5, <1>6, <1>7 DEF RttInv

(* Whatever the end of a connect does with a note, it is gone once reported. *)
LEMMA MeasureInv ==
  ASSUME RttInv, NEW map, NotesOK(map), NEW key \in DOMAIN map, NEW s \in Socks,
         UNCHANGED <<connects, peer>>,
         sock' \in [Socks -> {"free", "connecting", "done"}],
         \/ /\ tcp_connect_start' = Delete(map, key) /\ map[key].socket = s
            /\ Report(map[key], s)
         \/ tcp_connect_start' \in {map, Delete(map, key)} /\ UNCHANGED rtt_events
  PROVE  RttInv'
<1>1. CASE UNCHANGED rtt_events
  <2>1. NotesOK(tcp_connect_start')
    BY <1>1, DeletedNotes
  <2>2. NotesOK(tcp_connect_start)'
    BY <1>1, <2>1 DEF NotesOK
  <2> QED
    BY <1>1, <2>2 DEF RttInv, RttTypeOK, NotesOK, ReportsBegan, ConnectsMeasuredOnce
<1>2. CASE tcp_connect_start' = Delete(map, key) /\ map[key].socket = s /\ Report(map[key], s)
  <2> DEFINE event == [connect |-> map[key].connect, socket |-> s]
             n == Len(rtt_events) + 1
  <2>1. /\ map[key] \in ConnectInfo /\ map[key].connect \in DOMAIN connects
        /\ connects[map[key].connect] = s
        /\ \A i \in DOMAIN rtt_events : rtt_events[i].connect # map[key].connect
    BY <1>2 DEF NotesOK
  <2>2. event \in ConnectInfo /\ event.connect = map[key].connect /\ event.socket = s
    BY <2>1 DEF ConnectInfo
  <2>3. rtt_events \in Seq(ConnectInfo) /\ rtt_events' = Append(rtt_events, event)
    BY <1>2 DEF Report, RttInv, RttTypeOK
  <2> HIDE DEF event
  <2>4. /\ rtt_events' \in Seq(ConnectInfo)
        /\ \A i \in DOMAIN rtt_events' :
             \/ i = n /\ rtt_events'[i] = event
             \/ i # n /\ i \in DOMAIN rtt_events /\ rtt_events'[i] = rtt_events[i]
    BY <2>2, <2>3
  <2> HIDE DEF n
  <2>5. NotesOK(Delete(map, key)) /\ key \notin DOMAIN Delete(map, key)
    BY DeletedNotes
  <2>6. \A k \in DOMAIN tcp_connect_start' :
          tcp_connect_start'[k].connect # event.connect
    BY <1>2, <2>2 DEF NotesOK, Delete
  <2>7. NotesOK(tcp_connect_start)'
    BY <1>2, <2>4, <2>5, <2>6 DEF NotesOK
  <2>8. RttTypeOK'
    BY <2>4, <2>7 DEF RttInv, RttTypeOK, NotesOK
  <2>9. ReportsBegan' /\ ConnectsMeasuredOnce'
    BY <2>1, <2>2, <2>4 DEF RttInv, ReportsBegan, ConnectsMeasuredOnce
  <2> QED
    BY <2>7, <2>8, <2>9 DEF RttInv
<1> QED
  BY <1>1, <1>2

LEMMA FinishConnectInv ==
  ASSUME RttInv, NEW s \in Socks, NEW pid \in Processes, FinishConnect(s, pid)
  PROVE  RttInv'
<1> DEFINE full == ConnKey(peer[s][1], peer[s][2], pid)
           bare == ConnKey(Nowhere, peer[s][2], pid)
           map == IF peer[s][1][1] # 0 THEN Moved(full, bare) ELSE tcp_connect_start
<1>1. /\ UNCHANGED <<connects, peer>>
      /\ sock' \in [Socks -> {"free", "connecting", "done"}]
  BY DEF FinishConnect, RttInv, RttTypeOK
<1>2. NotesOK(map)
  BY MovedNotes DEF RttInv
<1>3. CASE full \notin DOMAIN map
  <2>1. UNCHANGED <<tcp_connect_start, rtt_events>>
    BY <1>3 DEF FinishConnect
  <2> QED
    BY <1>1, <2>1 DEF RttInv, RttTypeOK, NotesOK, ReportsBegan, ConnectsMeasuredOnce
<1>4. CASE full \in DOMAIN map
  <2>1. IF map[full].socket = s THEN Measure(map, full, s)
        ELSE tcp_connect_start' = Delete(map, full) /\ UNCHANGED rtt_events
    BY <1>4 DEF FinishConnect, Same
  <2> HIDE DEF map, full
  <2>2. \/ /\ tcp_connect_start' = Delete(map, full) /\ map[full].socket = s
           /\ Report(map[full], s)
        \/ tcp_connect_start' \in {map, Delete(map, full)} /\ UNCHANGED rtt_events
    BY <2>1 DEF Measure
  <2> QED
    BY <1>1, <1>2, <1>4, <2>2, MeasureInv
<1> QED
  BY <1>3, <1>4

LEMMA RttNextInv == RttInv /\ [RttNext]_rttVars => RttInv'
<1> SUFFICES ASSUME RttInv, [RttNext]_rttVars PROVE RttInv'
  OBVIOUS
<1>1. CASE UNCHANGED rttVars
  BY <1>1 DEF rttVars, RttInv, RttTypeOK, NotesOK, ReportsBegan, ConnectsMeasuredOnce
<1>2. ASSUME NEW s \in Socks, FreeSock(s) PROVE RttInv'
  BY <1>2 DEF FreeSock, RttInv, RttTypeOK, NotesOK, ReportsBegan, ConnectsMeasuredOnce
<1> QED
  BY <1>1, <1>2, ConnectStartInv, FinishConnectInv DEF RttNext

(* The RTT probes keep to their types and to the room of their map.          *)
THEOREM RttTypeCorrect == RttSpec => []RttTypeOK
<1>1. RttInv => RttTypeOK
  BY DEF RttInv
<1> QED
  BY <1>1, RttInitInv, RttNextInv, PTL DEF RttSpec

(* Whatever keys collide: a reported connect is one of the socket the report *)
(* names, and none is reported twice.                                        *)
THEOREM ConnectsAreMeasuredOnce == RttSpec => []ConnectsMeasuredOnce
<1>1. RttInv => ConnectsMeasuredOnce
  BY DEF RttInv
<1> QED
  BY <1>1, RttInitInv, RttNextInv, PTL DEF RttSpec

-----------------------------------------------------------------------------
(* The programs together.                                                    *)

LEMMA ProgramsStep ==
  [NodeNext]_nodeVars => [SchedNext]_schedVars /\ [TcpNext]_tcpVars
                           /\ [RttNext]_rttVars /\ [DiskNext]_diskVars
<1> SUFFICES ASSUME [NodeNext]_nodeVars
             PROVE  [SchedNext]_schedVars /\ [TcpNext]_tcpVars
                      /\ [RttNext]_rttVars /\ [DiskNext]_diskVars
  OBVIOUS
<1>1. CASE SchedStep
  BY <1>1 DEF SchedStep
<1>2. CASE TcpStep
  BY <1>2 DEF TcpStep
<1>3. CASE RttStep
  BY <1>3 DEF RttStep
<1>4. CASE DiskStep
  BY <1>4 DEF DiskStep
<1>5. CASE UNCHANGED nodeVars
  BY <1>5 DEF nodeVars
<1> QED
  BY <1>1, <1>2, <1>3, <1>4, <1>5 DEF NodeNext

(* Whatever a node does, each of its programs behaves as it does alone: none *)
(* can hinder another, nor make it do what it would not do.                  *)
THEOREM ProgramsAreApart == NodeSpec => SchedSpec /\ TcpSpec /\ RttSpec /\ DiskSpec
<1>1. NodeInit => SchedInit /\ TcpInit /\ RttInit /\ DiskInit
  BY DEF NodeInit
<1> QED
  BY <1>1, ProgramsStep, PTL DEF NodeSpec, SchedSpec, TcpSpec, RttSpec, DiskSpec

(* On a node, every program keeps to its types and no map holds more than it *)
(* has room for.                                                             *)
THEOREM NodeTypeCorrect == NodeSpec => []NodeTypeOK
<1>1. SchedTypeOK /\ TcpTypeOK /\ RttTypeOK /\ DiskTypeOK => NodeTypeOK
  BY DEF NodeTypeOK
<1> QED
  BY <1>1, ProgramsAreApart, SchedTypeCorrect, TcpTypeCorrect, RttTypeCorrect,
     DiskTypeCorrect, PTL

(* What each program promises by itself, a node promises too.                *)
THEOREM NodeKeepsPromises ==
  NodeSpec => /\ [](ReportedOnce /\ OwnNumbers /\ ConnectsMeasuredOnce /\ CallNeverOverstated)
              /\ MeasuresLastStart
BY ProgramsAreApart, WakeupsReportedOnce, NumbersAreOwn, ConnectsAreMeasuredOnce,
   CallsNotOverstated, StartsAreMeasured, PTL
=============================================================================
