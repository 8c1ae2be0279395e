------------------------------ MODULE Stopwatch ------------------------------
(***************************************************************************)
(* What a latency probe promises, with no maps, no rings and no limits: a    *)
(* report measures from the latest start of its key, and no start is         *)
(* reported twice.  It need not report every start.  Starts are numbered in  *)
(* the order they are made; the number stands for the time stamp.            *)
(***************************************************************************)
EXTENDS Naturals

CONSTANT Keys   \* what is measured: threads, tasks

VARIABLES
  started,      \* per key: its latest start, 0 for none
  reported,     \* the starts reported so far
  reports       \* how many reports there were

Init ==
  /\ started = [k \in Keys |-> 0]
  /\ reported = {}
  /\ reports = 0

Start(k) ==
  /\ started'[k] \in Nat
  /\ \A j \in Keys : started[j] < started'[k]
  /\ started' = [started EXCEPT ![k] = started'[k]]
  /\ UNCHANGED <<reported, reports>>

Report(k) ==
  /\ started[k] # 0
  /\ started[k] \notin reported
  /\ reported' = reported \cup {started[k]}
  /\ reports' = reports + 1
  /\ UNCHANGED started

Next == \E k \in Keys : Start(k) \/ Report(k)

Spec == Init /\ [][Next]_<<started, reported, reports>>
=============================================================================
