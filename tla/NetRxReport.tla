---------------------------- MODULE NetRxReport ----------------------------
(***************************************************************************)
(* What the net_rx_action monitor promises, without its mechanism: the     *)
(* kernel counts events into latency buckets, and each report prints, per  *)
(* bucket, some number of the events not reported yet, so that every event *)
(* is printed at most once and the printed numbers never exceed what       *)
(* happened.  How the counts are read (a copy of a BPF map, differences    *)
(* against the previous copy, modular arithmetic) is not visible here.     *)
(***************************************************************************)
EXTENDS Naturals

CONSTANT Bkts

VARIABLES unreported,   \* events per bucket that no report has printed yet
          report        \* the numbers the last report printed

vars == <<unreported, report>>

Init ==
    /\ unreported = [b \in Bkts |-> 0]
    /\ report = [b \in Bkts |-> 0]

\* The kernel records one event in bucket b.
Event(b) ==
    /\ unreported' = [unreported EXCEPT ![b] = @ + 1]
    /\ UNCHANGED report

\* A report prints, for every bucket, a part of its unreported events (the
\* events of the bucket up to the moment the bucket was read).
Report ==
    /\ report' \in [Bkts -> Nat]
    /\ \A b \in Bkts : report'[b] <= unreported[b]
    /\ unreported' = [b \in Bkts |-> unreported[b] - report'[b]]

Next == (\E b \in Bkts : Event(b)) \/ Report

Spec == Init /\ [][Next]_vars

=============================================================================
