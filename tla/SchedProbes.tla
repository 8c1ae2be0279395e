----------------------------- MODULE SchedProbes -----------------------------
(***************************************************************************)
(* Run queue latency (ebpf/component-1-daemon/sched_latency.c): a probe on   *)
(* sched_wakeup notes when a task was woken, one on sched_switch reports how *)
(* long the task that gets the CPU has waited for it.                       *)
(*                                                                          *)
(* The two do not agree on the key.  The switch looks up the PID.  The       *)
(* wakeup reads four bytes at ctx + 16, which by vmlinux.h is in the middle  *)
(* of comm, the name of the task; the PID is at 24.  What these bytes are as *)
(* a number depends on a name that a task chooses and changes: a short name  *)
(* gives 0, one of nine or ten letters a number that may be the PID of any   *)
(* task, a longer one a number above all PIDs.                              *)
(*                                                                          *)
(* A handler reads the clock when it starts and the map later, and others    *)
(* run on the other CPUs meanwhile.  The two halves of trace_sched_switch    *)
(* touch different entries and are one step: a wakeup between them touches   *)
(* one of the two at most, so it may as well come before or after both.  An  *)
(* entry that is replaced while a switch has it in hand takes what the       *)
(* switch writes with it, as if the switch had been first; that the kernel   *)
(* uses its memory for another entry before the switch is done is left out.  *)
(***************************************************************************)
EXTENDS BpfMap

CONSTANTS
  Pids,         \* the tasks
  Cpus,
  Swapper,      \* the idle task, PID 0
  NameKeys,     \* what the four bytes of a task's name may be
  WakeupCap,    \* max_entries of wakeup_times
  MaxLatency,   \* ten seconds
  TimeMod,      \* a __u64 wraps at this
  MaxClock,     \* bound on the tracepoints of a behaviour
  NoTracepoint, \* the CPU is in no tracepoint
  NoSample

ASSUME SchedAssumption ==
  /\ Swapper \notin Pids
  /\ IsFiniteSet(NameKeys)
  /\ WakeupCap \in Nat /\ MaxLatency \in Nat /\ MaxClock \in Nat
  /\ TimeMod \in Nat /\ MaxLatency + MaxClock <= TimeMod

VARIABLES
  clock,        \* bpf_ktime_get_ns, one per tracepoint
  wakeup_times, \* struct wakeup_info, by key
  tracing,      \* per CPU: the tracepoint it is in
  running,      \* per CPU: the task on it
  queued_tasks, \* the tasks that wait for a CPU
  samples,      \* how many samples there were; not in the code
  sample        \* the event of the last step, if any

VARIABLES       \* the past, not in the code
  woken,        \* per task: its latest wakeup, 0 for none
  since,        \* per CPU: when the task on it got it
  last_ran,     \* per task: how long it ran when it last ran, 0 for never
  measured      \* the wakeups reported so far

past == <<woken, since, last_ran, measured>>
schedVars == <<clock, wakeup_times, tracing, running, queued_tasks, samples, sample, past>>

(* struct wakeup_info; a time is 0 for none. *)
WakeupInfo == [wakeup : Nat, last_run : Nat, last_schedule : Nat]

Tasks == Pids \cup {Swapper}

(* A tracepoint that has read the clock and not yet the map; the task is the *)
(* one that is woken or gets the CPU.                                       *)
Tracepoint ==
  [event : {"wakeup"}, task : Pids, key : NameKeys, now : Nat]
    \cup [event : {"switch"}, task : Tasks, key : Tasks, now : Nat]

Sample == [pid : Pids, wakeup : Nat, latency : Nat, cpu_time : Nat]

SchedInit ==
  /\ clock = 0
  /\ wakeup_times = EmptyMap
  /\ tracing = [c \in Cpus |-> NoTracepoint]
  /\ running = [c \in Cpus |-> Swapper]
  /\ queued_tasks = {}
  /\ samples = 0
  /\ sample = NoSample
  /\ woken = [p \in Pids |-> 0]
  /\ since = [c \in Cpus |-> 0]
  /\ last_ran = [p \in Pids |-> 0]
  /\ measured = {}

-----------------------------------------------------------------------------
(* The scheduler holds the lock of a run queue around a tracepoint: a task   *)
(* is in one at a time, with interrupts off.                                *)
InTracepoint(p) ==
  \E c \in Cpus : /\ tracing[c] # NoTracepoint
                  /\ \/ tracing[c].task = p
                     \/ tracing[c].event = "switch" /\ running[c] = p

Starts(c, event, task, key) ==
  /\ tracing[c] = NoTracepoint
  /\ clock < MaxClock
  /\ clock' = clock + 1
  /\ tracing' = [tracing EXCEPT ![c] =
       [event |-> event, task |-> task, key |-> key, now |-> clock + 1]]
  /\ sample' = NoSample
  /\ UNCHANGED <<wakeup_times, running, samples, since, last_ran, measured>>

Ends(c) == tracing' = [tracing EXCEPT ![c] = NoTracepoint] /\ UNCHANGED clock

(* trace_sched_wakeup and trace_sched_wakeup_new on CPU c.  A task may be    *)
(* woken while it still runs or waits.                                      *)
WakeupStarts(c, p, key) ==
  /\ ~InTracepoint(p)
  /\ Starts(c, "wakeup", p, key)
  /\ woken' = [woken EXCEPT ![p] = clock + 1]
  /\ queued_tasks' = IF \E d \in Cpus : running[d] = p
                     THEN queued_tasks ELSE queued_tasks \cup {p}

(* The new entry replaces the whole of an old one. *)
Woken(now) == [wakeup |-> now, last_run |-> 0, last_schedule |-> 0]

WakeupEnds(c) ==
  /\ tracing[c] # NoTracepoint /\ tracing[c].event = "wakeup"
  /\ wakeup_times' = Update(wakeup_times, WakeupCap, tracing[c].key, Woken(tracing[c].now))
  /\ sample' = NoSample
  /\ Ends(c)
  /\ UNCHANGED <<running, queued_tasks, samples, past>>

(* trace_sched_switch on CPU c, where next is to get the CPU. *)
SwitchStarts(c, next) ==
  /\ next \in queued_tasks \cup {Swapper}
  /\ next # running[c]
  /\ \A p \in {next, running[c]} \ {Swapper} : ~InTracepoint(p)
  /\ Starts(c, "switch", next, next)
  /\ UNCHANGED <<queued_tasks, woken>>

(* A difference of two times, as a __u64. *)
Elapsed(now, then) == IF then <= now THEN now - then ELSE TimeMod + now - then

(* The first half: the task that leaves the CPU. *)
SwitchOut(prev, now) ==
  IF prev \in DOMAIN wakeup_times \ {Swapper} /\ wakeup_times[prev].last_schedule > 0
  THEN [wakeup_times EXCEPT ![prev].last_run = Elapsed(now, wakeup_times[prev].last_schedule)]
  ELSE wakeup_times

(* Faulty variant of SwitchIn: the wakeup time is not cleared. *)
SwitchInKeeps(map, next, now) == [map EXCEPT ![next].last_schedule = now]

(* The second half: the entry of the task that gets the CPU, reported or not.*)
SwitchIn(map, next, now) ==
  [map EXCEPT ![next].last_schedule = now, ![next].wakeup = 0]

(* The event of trace_sched_switch. *)
SampleOf(info, next, now) ==
  [pid |-> next, wakeup |-> info.wakeup,
   latency |-> Elapsed(now, info.wakeup), cpu_time |-> info.last_run]

(* prev waits again or sleeps. *)
SwitchTasks(c, prev, next, now) ==
  /\ running' = [running EXCEPT ![c] = next]
  /\ \/ queued_tasks' = queued_tasks \ {next}
     \/ prev # Swapper /\ queued_tasks' = (queued_tasks \ {next}) \cup {prev}
  /\ since' = [since EXCEPT ![c] = now]
  /\ last_ran' = [p \in Pids |-> IF p = prev THEN now - since[c] ELSE last_ran[p]]
  /\ UNCHANGED woken

SwitchEnds(c) ==
  LET next == tracing[c].task
      now == tracing[c].now
      map == SwitchOut(running[c], now)
      due == next \in DOMAIN map \ {Swapper} /\ map[next].wakeup > 0
  IN /\ tracing[c] # NoTracepoint /\ tracing[c].event = "switch"
     /\ Ends(c)
     /\ SwitchTasks(c, running[c], next, now)
     /\ wakeup_times' = IF due THEN SwitchIn(map, next, now) ELSE map
     /\ \/ /\ due
           /\ Elapsed(now, map[next].wakeup) < MaxLatency
           /\ sample' = SampleOf(map[next], next, now)
           /\ measured' = measured \cup {map[next].wakeup}
           /\ samples' = samples + 1
        \/ /\ sample' = NoSample      \* nothing due, too old, or a full ring
           /\ UNCHANGED <<measured, samples>>

SchedNext == \E c \in Cpus :
  \/ \E p \in Pids, key \in NameKeys : WakeupStarts(c, p, key)
  \/ \E next \in Tasks : SwitchStarts(c, next)
  \/ WakeupEnds(c) \/ SwitchEnds(c)

SchedSpec == SchedInit /\ [][SchedNext]_schedVars

-----------------------------------------------------------------------------
SchedTypeOK ==
  /\ clock \in 0 .. MaxClock
  /\ DOMAIN wakeup_times \subseteq NameKeys
  /\ wakeup_times \in [DOMAIN wakeup_times -> WakeupInfo]
  /\ Cardinality(DOMAIN wakeup_times) <= WakeupCap
  /\ tracing \in [Cpus -> Tracepoint \cup {NoTracepoint}]
  /\ running \in [Cpus -> Tasks]
  /\ queued_tasks \subseteq Pids
  /\ woken \in [Pids -> 0 .. clock]
  /\ since \in [Cpus -> 0 .. clock]
  /\ last_ran \in [Pids -> 0 .. clock]
  /\ measured \subseteq 1 .. clock
  /\ samples \in Nat
  /\ sample \in Sample \cup {NoSample}

(* Whoever's wakeups the entries hold, and although they are replaced while  *)
(* a switch is on its way and a newer wakeup by an older one: no wakeup is   *)
(* reported twice, and a switch that read the clock before the wakeup did,   *)
(* so that the difference wraps, reports nothing.                           *)
ReportedOnce ==
  /\ Cardinality(measured) = samples
  /\ sample # NoSample => sample.latency \in 1 .. MaxLatency - 1

(* What sched_latency.c says of itself, "Measures how long processes wait in *)
(* the CPU run queue": a sample of a task is measured from its own latest    *)
(* wakeup.                                                                  *)
WaitIsMeasured == sample # NoSample => sample.wakeup = woken[sample.pid]

(* What the comment on cpu_time_ns says, "Actual CPU execution time (from    *)
(* previous run)": a sample of a task that has run carries how long it ran.  *)
CpuTimeIsMeasured ==
  sample # NoSample /\ last_ran[sample.pid] > 0
    => sample.cpu_time = last_ran[sample.pid]
=============================================================================
