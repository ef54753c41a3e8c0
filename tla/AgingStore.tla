---------------------------- MODULE AgingStore -----------------------------
(***************************************************************************)
(* What the aging of pktdrop's two stores promises, without the __u8      *)
(* credit that implements it: an entry exists for every key that dropped   *)
(* packets recently, counts the drops of the current cycle, and is evicted *)
(* by the third consecutive report in which it counted no drop, or by the  *)
(* first report after it was marked dead.  idle is the number of reports   *)
(* without a drop since the last one with drops.                           *)
(***************************************************************************)
EXTENDS Naturals

CONSTANT Keys

VARIABLE store      \* partial function: key -> [count, idle, dead]

vars == store

\* The number of idle reports after which an entry is evicted.
IdleLimit == 3

Init == store = [k \in {} |-> [count |-> 0, idle |-> 0, dead |-> FALSE]]

\* A drop at key k: counted in its entry, which is created when absent.
\* The entry may also fail to be created (an allocation failure): then
\* nothing changes, which is a stuttering step.
Hit(k) ==
    store' = [x \in DOMAIN store \cup {k} |->
                IF x # k THEN store[x]
                ELSE IF k \in DOMAIN store
                     THEN [store[k] EXCEPT !.count = @ + 1]
                     ELSE [count |-> 1, idle |-> 0, dead |-> FALSE]]

\* The key has gone away (a network namespace exited): its entry is marked
\* and goes at the next report.
Kill(k) ==
    /\ k \in DOMAIN store
    /\ store' = [store EXCEPT ![k].dead = TRUE]

\* A report: an entry that counted drops starts a new idle run, any other
\* entry has one more idle report, and the entries that reach the limit or
\* are marked dead are evicted.  Every count restarts at 0.
Survives(e) == ~e.dead /\ (e.count > 0 \/ e.idle + 1 < IdleLimit)

Report ==
    store' = [x \in {y \in DOMAIN store : Survives(store[y])} |->
                [count |-> 0,
                 idle  |-> IF store[x].count > 0 THEN 0 ELSE store[x].idle + 1,
                 dead  |-> FALSE]]

Next == (\E k \in Keys : Hit(k) \/ Kill(k)) \/ Report

Spec == Init /\ [][Next]_vars

=============================================================================
