---------------------------- MODULE NetRxAction ----------------------------
(***************************************************************************)
(* The user-space loop of net_rx_action.c.  A BPF kprobe pair (outside     *)
(* src/) counts net_rx_action run times into the buckets of one array map  *)
(* entry.  Every display_rate seconds main copies the entry with           *)
(* bpf_map_lookup_elem and dump_buckets prints, per bucket, the u64        *)
(* difference against the copy kept from the previous dump.  The copy is   *)
(* not atomic with respect to the kprobes: the kernel copies the buckets   *)
(* one at a time while other CPUs keep counting, so the model copies one   *)
(* bucket per step.  The u64 arithmetic is kept as arithmetic modulo       *)
(* 2^Width.                                                                *)
(*                                                                         *)
(* unread and shown are history variables, not program state: the events  *)
(* of a bucket since it was last copied, and the events the current copy   *)
(* holds that no dump has printed yet.                                     *)
(***************************************************************************)
EXTENDS Naturals, Integers

CONSTANTS Bkts,         \* the NET_RX_NUM_BKTS buckets, the error bucket included
          Width,        \* bits of a bucket counter (64 in the code)
          Wrap,         \* 2^Width, the modulus of __u64 arithmetic
          MaxUnread,    \* bound on the events a bucket sees between two copies
          CanFail       \* whether the map lookup and the kprobe attach may fail

ASSUME BktsAssumption == Bkts # {}
ASSUME WidthAssumption == Width \in Nat \ {0} /\ Wrap = 2 ^ Width
ASSUME WrapAssumption == Wrap \in Nat \ {0}
\* More events between two reads than a counter can hold cannot be told
\* apart from fewer; 2^64 net_rx_action runs in one interval cannot happen.
ASSUME UnreadAssumption == MaxUnread \in Nat /\ MaxUnread < Wrap
ASSUME FailAssumption == CanFail \in BOOLEAN

VARIABLES kmap,     \* the buckets of net_rx_map[0], written by the kprobes
          val,      \* struct net_rx_hist_val val, the copy being taken
          copied,   \* the buckets bpf_map_lookup_elem has copied so far
          prev,     \* static prev_buckets of net_rx_dump_hist
          diff,     \* the differences the last dump printed
          pc,       \* where main is
          done,     \* set by sig_handler
          rc,       \* main's return code
          histErr,  \* net_rx_dump_hist returned 1
          unread,   \* history: events per bucket since its last copy
          shown     \* history: events copied into val, not yet printed

vars == <<kmap, val, copied, prev, diff, pc, done, rc, histErr, unread, shown>>

Counter == 0 .. Wrap - 1
Zero == [b \in Bkts |-> 0]

\* The kprobes are attached from kprobe_init until kprobe_cleanup.
Attached == pc \in {"check", "lookup", "dump", "out"} /\ rc = 0

-----------------------------------------------------------------------------

\* main up to the loop: the map is found and its entry 0 is made to exist
\* (an array map already holds zeros), rc = 1, kprobe_init, rc = 0.  A
\* missing map returns 1 at once; a failed kprobe_init goes to out with 1.
Setup ==
    /\ pc = "setup"
    /\ \/ /\ pc' = "check"
          /\ rc' = 0
       \/ /\ CanFail
          /\ pc' \in {"out", "exit"}
          /\ rc' = 1
    /\ UNCHANGED <<kmap, val, copied, prev, diff, done, histErr, unread, shown>>

\* A variant with a plausible bug: the loop condition forgets done.
LoopCheckIgnoreDone ==
    /\ pc = "check"
    /\ pc' = "lookup"
    /\ copied' = {}
    /\ UNCHANGED <<kmap, val, prev, diff, done, rc, histErr, unread, shown>>

\* while (!done) { sleep(display_rate); net_rx_dump_hist(...) }: the sleep
\* is the time between this step and the copy.
LoopCheck ==
    /\ pc = "check"
    /\ pc' = IF done THEN "out" ELSE "lookup"
    /\ copied' = {}
    /\ UNCHANGED <<kmap, val, prev, diff, done, rc, histErr, unread, shown>>

\* bpf_map_lookup_elem copies bucket b of the entry into val.
CopyBucket(b) ==
    /\ pc = "lookup"
    /\ b \notin copied
    /\ val' = [val EXCEPT ![b] = kmap[b]]
    /\ copied' = copied \cup {b}
    /\ shown' = [shown EXCEPT ![b] = unread[b]]
    /\ unread' = [unread EXCEPT ![b] = 0]
    /\ pc' = IF copied' = Bkts THEN "dump" ELSE "lookup"
    /\ UNCHANGED <<kmap, prev, diff, done, rc, histErr>>

\* bpf_map_lookup_elem fails: "Failed to get hist values", return 1, and
\* the loop breaks.  rc was set to 0 before the loop and stays 0.
LookupFail ==
    /\ pc = "lookup"
    /\ CanFail
    /\ copied = {}
    /\ pc' = "out"
    /\ histErr' = TRUE
    /\ UNCHANGED <<kmap, val, copied, prev, diff, done, rc, unread, shown>>

\* Variants with a plausible bug: the difference taken without the u64
\* wrap, and the new sample not saved as the old one.
BucketDiffNoWrap(cur, old) == cur - old
DumpKeepPrev(v, p) == p

\* diff[i] = buckets[i] - prev_buckets[i] in __u64.
BucketDiff(cur, old) == (cur - old) % Wrap

\* prev_buckets[i] = buckets[i].
SavePrev(v, p) == v

\* dump_buckets: print the differences and keep the copy for next time.
Dump ==
    /\ pc = "dump"
    /\ diff' = [b \in Bkts |-> BucketDiff(val[b], prev[b])]
    /\ prev' = SavePrev(val, prev)
    /\ shown' = Zero
    /\ pc' = "check"
    /\ UNCHANGED <<kmap, val, copied, done, rc, histErr, unread>>

\* out: kprobe_cleanup, then main returns rc.
Cleanup ==
    /\ pc = "out"
    /\ pc' = "exit"
    /\ UNCHANGED <<kmap, val, copied, prev, diff, done, rc, histErr, unread, shown>>

\* sig_handler, registered before the object is loaded.
SigHandler ==
    /\ pc # "exit"
    /\ ~done
    /\ done' = TRUE
    /\ UNCHANGED <<kmap, val, copied, prev, diff, pc, rc, histErr, unread, shown>>

\* The kprobe pair records one run of net_rx_action in bucket b.  The BPF
\* program is not under src/: it is modelled as an increment of one bucket
\* with u64 wrap.
KernelEvent(b) ==
    /\ Attached
    /\ unread[b] < MaxUnread
    /\ kmap' = [kmap EXCEPT ![b] = (@ + 1) % Wrap]
    /\ unread' = [unread EXCEPT ![b] = @ + 1]
    /\ UNCHANGED <<val, copied, prev, diff, pc, done, rc, histErr, shown>>

-----------------------------------------------------------------------------

\* The map is created zeroed; prev_buckets is a zeroed static array.
Init ==
    /\ kmap = Zero
    /\ val = Zero
    /\ copied = {}
    /\ prev = Zero
    /\ diff = Zero
    /\ pc = "setup"
    /\ done = FALSE
    /\ rc = -1
    /\ histErr = FALSE
    /\ unread = Zero
    /\ shown = Zero

Next ==
    \/ Setup
    \/ LoopCheck
    \/ \E b \in Bkts : CopyBucket(b)
    \/ LookupFail
    \/ Dump
    \/ Cleanup
    \/ SigHandler
    \/ \E b \in Bkts : KernelEvent(b)

\* main runs whenever it is not asleep, and sleep() returns: its own steps
\* are weakly fair.  Signals and kernel events come from outside.
Fairness ==
    /\ WF_vars(Setup)
    /\ WF_vars(LoopCheck)
    /\ WF_vars(\E b \in Bkts : CopyBucket(b))
    /\ WF_vars(Dump)
    /\ WF_vars(Cleanup)

Spec == Init /\ [][Next]_vars /\ Fairness

-----------------------------------------------------------------------------
(* Properties                                                              *)

\* The type invariant.
TypeOK ==
    /\ kmap \in [Bkts -> Counter]
    /\ val \in [Bkts -> Counter]
    /\ copied \subseteq Bkts
    /\ prev \in [Bkts -> Counter]
    /\ diff \in [Bkts -> Counter]
    /\ pc \in {"setup", "check", "lookup", "dump", "out", "exit"}
    /\ done \in BOOLEAN
    /\ rc \in {-1, 0, 1}
    /\ histErr \in BOOLEAN
    /\ unread \in [Bkts -> 0 .. MaxUnread]
    /\ shown \in [Bkts -> 0 .. MaxUnread]

\* The abstract monitor: a bucket's unreported events are those since its
\* last copy and those of the copy not printed yet; the printed numbers
\* are dump_buckets' differences.
Abs == INSTANCE NetRxReport WITH
           unreported <- [b \in Bkts |-> unread[b] + shown[b]],
           report <- diff

\* Every dump prints, for each bucket, exactly the events counted since
\* the previous read of that bucket, across u64 wrap-around of the kernel
\* counter and whatever the kprobes count while the copy is in progress:
\* the loop implements the abstract monitor.
Refinement == Abs!Spec

\* A signal ends the program: once sig_handler has run, main leaves the
\* loop, runs kprobe_cleanup and returns.
StopHonoured == done ~> pc = "exit"

\* A failed read of the histogram map makes main return an error code, as
\* every other failure path of main does.
FailureReported == (pc = "exit" /\ histErr) => rc # 0

=============================================================================
