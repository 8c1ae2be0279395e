----------------------------- MODULE DiskProbes -----------------------------
(***************************************************************************)
(* Disk latency (ebpf/component-1-daemon/disk_io.c).  Six probes share one   *)
(* map of start times by thread: kprobes and kretprobes on vfs_read and      *)
(* vfs_write, and tracepoints on the issue and the completion of a request   *)
(* to a block device, which also count the requests in flight.  A request    *)
(* completes in an interrupt, on whatever thread is running there.           *)
(*                                                                          *)
(* AttachDiskIOProbes (pkg/telemetry/disk_io_collector.go) goes on without   *)
(* the probes it cannot attach.  A start is known by its number, which       *)
(* stands for its time stamp.  The probes on vfs_open and filp_close send an *)
(* event each and keep nothing; they are left out.                          *)
(***************************************************************************)
EXTENDS BpfMap

CONSTANTS
  IoThreads,
  Attachments,  \* the sets of probes that may come up
  IoCap,        \* max_entries of io_start_map
  DepthMod,     \* a depth has 64 bits: 2^64
  MaxStarts,    \* bound on the starts of a behaviour
  NoDepth, NoIoEvent

ASSUME DiskAssumption ==
  /\ IsFiniteSet(IoThreads)
  /\ IoCap \in Nat /\ MaxStarts \in Nat
  /\ DepthMod \in Nat \ {0, 1}
  /\ NoDepth \notin Nat

VARIABLES
  links,        \* diskIOLinks: the probes attached
  call,         \* per thread: the VFS call it is in, or "none"
  called,       \* per thread: starts before that call; not in the code
  starts,       \* starts so far
  started,      \* per thread: its last start; not in the code
  io_start_map, \* per thread: struct io_start
  queue_depth,  \* queue_depth_map[0]
  handler,      \* per thread: where a handler is that it interrupts
  timed,        \* the starts reported so far; not in the code
  io_events,    \* how many events there were; not in the code
  io_event      \* the event of the last step, if any

startVars == <<starts, started, io_start_map>>
depthVars == <<queue_depth, handler>>
eventVars == <<timed, io_events, io_event>>
diskVars == <<links, call, called, startVars, depthVars, eventVars>>

Calls == {"read", "write"}
IoProbes == ({"enter", "return"} \X Calls) \cup ({"issue", "complete"} \X {"request"})

ASSUME AttachmentsAssumption == Attachments \subseteq SUBSET IoProbes

IoEvent == [thread : IoThreads, start : Nat, of : {"request", "call"}]

DiskInit ==
  /\ links \in Attachments
  /\ call = [t \in IoThreads |-> "none"]
  /\ called = [t \in IoThreads |-> 0]
  /\ starts = 0
  /\ started = [t \in IoThreads |-> 0]
  /\ io_start_map = EmptyMap
  /\ queue_depth = NoDepth
  /\ handler = [t \in IoThreads |-> "none"]
  /\ timed = {}
  /\ io_events = 0
  /\ io_event = NoIoEvent

-----------------------------------------------------------------------------
(* What the handlers share.                                                 *)

(* Faulty variant of Begin: a start that is there is kept. *)
BeginOnce(t) ==
  /\ starts < MaxStarts
  /\ starts' = starts + 1
  /\ started' = [started EXCEPT ![t] = starts + 1]
  /\ io_start_map' = UpdateNew(io_start_map, IoCap, t, starts + 1)

Begin(t) ==
  /\ starts < MaxStarts
  /\ starts' = starts + 1
  /\ started' = [started EXCEPT ![t] = starts + 1]
  /\ io_start_map' = Update(io_start_map, IoCap, t, starts + 1)

(* Faulty variant of Drop: the entry outlives its event. *)
DropNot(t) == UNCHANGED io_start_map

Drop(t) == io_start_map' = Delete(io_start_map, t)

NoIo == io_event' = NoIoEvent /\ UNCHANGED <<timed, io_events>>

(* An event on the thread's entry, which goes with it. *)
End(t, of) ==
  /\ Drop(t)
  /\ timed' = timed \cup {io_start_map[t]}
  /\ io_events' = io_events + 1
  /\ io_event' = [thread |-> t, start |-> io_start_map[t], of |-> of]
  /\ UNCHANGED <<starts, started>>

(* A full ring: the entry goes without an event. *)
EndUnseen(t) == Drop(t) /\ NoIo /\ UNCHANGED <<starts, started>>

NotTimed(t) == NoIo /\ UNCHANGED startVars

-----------------------------------------------------------------------------
(* The VFS calls of a thread, which cannot go on while it is interrupted.    *)

Uninterrupted(t) == handler[t] = "none"

(* kprobe_vfs_read and kprobe_vfs_write. *)
EnterCall(t, c) ==
  /\ Uninterrupted(t)
  /\ call[t] = "none"
  /\ call' = [call EXCEPT ![t] = c]
  /\ called' = [called EXCEPT ![t] = starts]
  /\ IF <<"enter", c>> \in links THEN Begin(t) /\ NoIo ELSE NotTimed(t)
  /\ UNCHANGED <<links, depthVars>>

(* kretprobe_vfs_read and kretprobe_vfs_write, which the kernel skips when   *)
(* too many calls are under way.                                            *)
ReturnCall(t) ==
  /\ Uninterrupted(t)
  /\ call[t] # "none"
  /\ call' = [call EXCEPT ![t] = "none"]
  /\ \/ /\ <<"return", call[t]>> \in links
        /\ t \in DOMAIN io_start_map
        /\ End(t, "call") \/ EndUnseen(t)
     \/ NotTimed(t)
  /\ UNCHANGED <<links, called, depthVars>>

-----------------------------------------------------------------------------
(* The requests.                                                            *)

(* trace_block_rq_issue up to its look at the depth. *)
IssueRequest(t) ==
  /\ <<"issue", "request">> \in links
  /\ Uninterrupted(t)
  /\ Begin(t)
  /\ IF queue_depth = NoDepth
     THEN handler' = [handler EXCEPT ![t] = "creates"] /\ UNCHANGED queue_depth
     ELSE queue_depth' = (queue_depth + 1) % DepthMod /\ UNCHANGED handler
  /\ NoIo
  /\ UNCHANGED <<links, call, called>>

(* Its end, when there was no depth. *)
CreateDepth(t) ==
  /\ handler[t] = "creates"
  /\ queue_depth' = 1
  /\ handler' = [handler EXCEPT ![t] = "none"]
  /\ NoIo
  /\ UNCHANGED <<links, call, called, startVars>>

(* trace_block_rq_complete up to its look at the depth, on a thread that has *)
(* an entry of whatever kind.  A full ring ends it before that.             *)
CompleteRequest(t) ==
  /\ <<"complete", "request">> \in links
  /\ Uninterrupted(t)
  /\ t \in DOMAIN io_start_map
  /\ \/ /\ End(t, "request")
        /\ handler' = IF queue_depth \notin {NoDepth, 0}
                      THEN [handler EXCEPT ![t] = "subtracts"] ELSE handler
     \/ EndUnseen(t) /\ UNCHANGED handler
  /\ UNCHANGED <<links, call, called, queue_depth>>

(* Its end, when the depth was not zero. *)
SubtractDepth(t) ==
  /\ handler[t] = "subtracts"
  /\ queue_depth' = (queue_depth + DepthMod - 1) % DepthMod
  /\ handler' = [handler EXCEPT ![t] = "none"]
  /\ NoIo
  /\ UNCHANGED <<links, call, called, startVars>>

DiskNext == \E t \in IoThreads :
  \/ \E c \in Calls : EnterCall(t, c)
  \/ ReturnCall(t) \/ IssueRequest(t) \/ CreateDepth(t)
  \/ CompleteRequest(t) \/ SubtractDepth(t)

DiskSpec == DiskInit /\ [][DiskNext]_diskVars

-----------------------------------------------------------------------------
DiskTypeOK ==
  /\ links \subseteq IoProbes
  /\ call \in [IoThreads -> Calls \cup {"none"}]
  /\ called \in [IoThreads -> Nat]
  /\ starts \in Nat
  /\ started \in [IoThreads -> 0 .. starts]
  /\ DOMAIN io_start_map \subseteq IoThreads
  /\ io_start_map \in [DOMAIN io_start_map -> 1 .. starts]
  /\ Cardinality(DOMAIN io_start_map) <= IoCap
  /\ queue_depth \in 0 .. DepthMod - 1 \cup {NoDepth}
  /\ handler \in [IoThreads -> {"none", "creates", "subtracts"}]
  /\ timed \subseteq 1 .. starts
  /\ io_events \in Nat
  /\ io_event \in IoEvent \cup {NoIoEvent}

(* Whatever requests are issued in a call, completed on its thread or missed *)
(* by a probe: the latency of a VFS call never reaches back before the call, *)
(* provided the probe on its entry is attached.                             *)
CallNeverOverstated ==
  io_event # NoIoEvent /\ io_event.of = "call" /\ (\A c \in Calls : <<"enter", c>> \in links) =>
    io_event.start > called[io_event.thread]

(* Six probes that overwrite and delete each other's entries, in any         *)
(* combination of those attached: an event measures from the thread's last   *)
(* start, and no start is measured twice.                                   *)
DiskWatch == INSTANCE Stopwatch WITH
  Keys <- IoThreads,
  started <- started,
  reported <- timed,
  reports <- io_events

MeasuresLastStart == DiskWatch!Spec
=============================================================================
