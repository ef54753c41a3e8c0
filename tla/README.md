# Formal model of `pktdrop` and `net_rx_action` (bpf-progs)

This directory holds TLA+ models of the user-space side of two programs:
`pktdrop` (`src/src/pktdrop.c`) and `net_rx_action` (`src/src/net_rx_action.c`).
It contains:
- TLC configurations that model-check the models on small instances;
- TLAPS proofs of their main invariants for every value of the constants.

## The system

`pktdrop` attaches a BPF program to the `skb:kfree_skb` tracepoint. It receives
one perf event per dropped packet and, in histogram mode, aggregates the
events in user space. Every display interval it prints the aggregates and ages
them. The user-space parts and how they interact:

| Part | Code | Role |
|------|------|------|
| location store | `new_dropl`, `insert_dropl`, `find_dropl`, `remove_dropl` (264-334) | rb-tree of drop locations, each with a per-cycle count and an aging credit |
| histogram store | `new_droph`, `insert_droph`, `find_droph`, `remove_droph` (152-262) | rb-tree of groups keyed by namespace, MAC or IPv4 address (`-n/-d/-s/-D/-S/-F`) |
| classifier | `process_arp/ipv4/ipv6/transport/tcp` (539-593) | the protocol buckets a parsed packet increments |
| flow dedup | `process_flow` (595-621) | in `-F` mode, the list of distinct flows per destination MAC, capped at `MAX_FLOW_ENTRIES` |
| sample path | `process_event`, `process_packet`, `do_histogram`, `process_exit` (623-726, 802-825) | filters a sample, counts it globally, by type and by location, then in its group |
| report | `show_hist` and helpers (346-537) | prints, zeroes the per-cycle counters, ages every entry and removes the dead ones |
| loop | `sig_handler`, `pktdrop_complete`, `drop_monitor` (827-1017) | the perf loop runs until a signal sets `done` |

The sample path and the report share all state. They run in one thread, one
perf callback at a time, so each handler is atomic with respect to the others.
What makes the program hard is the order of these steps:
- samples, allocation failures, namespace exits and reports interleave in any order;
- the aging credit is a `__u8`;
- entries are removed by a restart loop after they are marked dead;
- the counts are kept in several places that must agree.

## Modules

- **`PktDrop.tla`**: the whole histogram mode.
  - **State.**
    - `locs` and `hist` are the two trees, as partial functions from key to entry record.
    - `totalDrops`, `totalUnix` and `byType` are the globals.
    - `done` is the signal flag.
    - `status` is `"run"`, `"exit"` or `"crash"`.
  - **Constants.** The command-line options become CONSTANTS: `Mode`, `DropThresh`, `SkipUnix`, `SkipTcp` and `SkipOvs`.
  - **Inputs.** The collaborators outside `src/` become CONSTANTS:
    - `SymOf` is `find_ksym`, with `NoSym` for NULL;
    - `Flows`, with `ParseError`, is `parse_pkt`;
    - `Alloc` is a failing `calloc`/`malloc`, which applies when `AllocCanFail`.
  - **Actions:**
    - `ProcessPacket` is one `EVENT_SAMPLE` through `process_event`, `process_packet`, `find_dropl` and `do_histogram`, with `process_flow` or the classifier;
    - `SampleCrash` is the NULL `sym` dereference in `process_event`;
    - `ProcessExit` is `process_exit`;
    - `ShowHist` is all of `show_hist`, including `show_loc_entries`, `show_flow_buckets` or `show_hist_buckets`, and `cleanup_hist_buckets`;
    - `SigHandler` and `Complete`.
  - **Left out.** Printing and sorting are left out. The `__u8` aging keeps its width: `(aging - 1) % 256`.
- **`MCPktDrop.tla`**: the TLC instance.
  - Model values for locations, namespaces, MACs and addresses.
  - A symbol table with a plain, a unix-socket and an unresolved location.
  - Four parsed flows chosen so that ARP, IPv4/TCP with FIN+SYN, IPv6/UDP and RST occur.
  - The two properties that need sums (`SumFunction`, `MapThenSumSet`).
- **`AgingStore.tla`**: what the aging of pktdrop's two stores promises,
  without the `__u8` credit. An entry per recently dropping key holds
  `count` (drops this cycle), `idle` (reports without drops since the
  last one with drops) and `dead`. `Hit(k)` counts a drop, creating the
  entry. `Kill(k)` marks an entry dead. `Report` restarts every count and
  evicts the dead entries and those whose third consecutive idle report
  this is.
- `PktDrop.tla` instantiates it twice, as `LocAging` over the location
  store and `HistAging` over the histogram store. Both map an entry `e` to
  `AgingView(e) = [count |-> e.total, idle |-> IdleOf(e.aging), dead |-> e.dead]`,
  where `IdleOf(0) = 0` and `IdleOf(a) = 3 - a` otherwise.
  `LocAgingRefined` is `LocAging!Spec`; `HistAgingRefined` is `HistAging!Spec`.
- **`PktDropProofs.tla`**: the TLAPS proofs of the type, credit and
  flow-uniqueness invariants.
- **`PktDropReportProofs.tla`**: the TLAPS proofs about reports: the sweep
  and the bucket balance.
- **`PktDropAgingProofs.tla`**: the TLAPS proofs that both stores refine
  `AgingStore`.
- **`NetRxReport.tla`**: what the `net_rx_action` monitor promises. The
  kernel records events per bucket; a report prints, per bucket, some of the
  events not reported yet and removes them from the unreported ones.
- **`NetRxAction.tla`**: all of `net_rx_action.c`.
  - The kprobe pair (a BPF program outside `src/`) counts into the buckets of
    map entry 0 (`kmap`). It is `KernelEvent`, enabled while the probes are
    attached, with `__u64` wrap kept as arithmetic modulo `Wrap = 2^Width`.
  - `bpf_map_lookup_elem` copies the buckets into `val` one at a time
    (`CopyBucket`), and kernel events interleave with the copy: the kernel
    does not take a snapshot of an array map entry.
  - `Dump` is `dump_buckets`: `diff = (val - prev) % Wrap` per bucket, then
    `prev = val`.
  - `Setup` is `main` up to the loop, with its early returns and the failed
    `kprobe_init`. `LoopCheck`, `LookupFail` and `Cleanup` are the loop,
    the failed read with its `break`, and `out:`. `SigHandler` sets `done`.
  - `unread` and `shown` are history variables (events since a bucket was
    last copied, and events copied but not yet printed). They exist only for
    the refinement mapping `unreported = unread + shown`, `report = diff`.
  - `Wrap` is a constant tied to `Width` by an assumption, rather than a
    definition, so that the SMT prover treats it as an opaque positive modulus.
- **`NetRxProofs.tla`**: the TLAPS proofs about `NetRxAction`.

`PROJECT.json` maps every definition to the lines it translates.

## Runs

| Run | cfg | Expect | What it shows |
|-----|-----|--------|---------------|
| netns_core | `MCPktDrop_netns.cfg` | pass (130,845 states) | grouping by namespace; see below |
| flow_core | `MCPktDrop_flow.cfg` | pass (258,696 states) | grouping by flow; see below |
| flow_capacity | `MCPktDrop_flowcap.cfg` | violation | `FlowBucketBounded` fails |
| thresh_buckets | `MCPktDrop_thresh.cfg` | violation | `BucketsMatchTotal` fails with `-t 2` |
| skipunix_crash | `MCPktDrop_skipunix.cfg` | violation | `NoCrash` fails with `-U` |
| flags_sticky | `MCPktDrop_flags.cfg` | violation | `FlagsClearedByReport` fails: the failures flag outlives its report |
| netrx_core | `NetRxAction.cfg` | pass (51,864 states) | `TypeOK`, `Refinement`, `StopHonoured` |
| netrx_fail | `NetRxAction_fail.cfg` | violation | `FailureReported` fails: a failed read returns 0 |

**netrx_core**:
- `Refinement` is `NetRxReport!Spec` under the mapping above. It says that
  every dump prints exactly the events each bucket received since it was
  last copied, with no event lost or printed twice. This holds across
  counter wrap and across kernel events between the copies of two buckets.
- `StopHonoured` (`done ~> pc = "exit"`): after a signal the program leaves the loop and returns.
- Bounds: two buckets, so one can be copied while the other counts.
  `Width = 2` makes every counter wrap after 4 events. `MaxUnread = 2`
  events per bucket between two reads. So wrap within an interval, wrap
  between intervals and events during a copy all occur. Both failure
  paths are enabled.

**netns_core** checks `TypeOK`, `CreditBounded`, `BucketsMatchTotal`,
`CountsConsistent`, `SweepEvictsExactly`, `IdleEntriesEvicted`,
`LocAgingRefined` and `HistAgingRefined`.

**flow_core** checks `TypeOK`, `CreditBounded`, `FlowHitsWithinTotal`,
`FlowsUnique` and `HistAgingRefined`.

The properties:
- `CreditBounded`: no entry holds an aging credit that the `__u8` decrement would wrap.
- `BucketsMatchTotal`: the protocol buckets of a group add up to its total, and the sub-buckets stay within their parents.
- `CountsConsistent`: the global total equals the sum by packet type. It bounds the location total and the unix count plus the group totals.
- `SweepEvictsExactly`: a report removes exactly the dead groups. It never removes an entry that saw drops in the cycle.
- `IdleEntriesEvicted`: an entry without drops is eventually removed, unless new drops arrive or the loop stops.
- `FlowHitsWithinTotal`: the hits of a group's flows never exceed its total.
- `LocAgingRefined`: the location store implements `AgingStore`. Every drop is
  counted in its entry, and an entry is evicted exactly at its third
  consecutive report without drops, neither earlier nor later.
- `HistAgingRefined`: the histogram store implements `AgingStore`. A counted
  sample is a `Hit` of its group, `process_exit` is a `Kill`, and a report
  evicts exactly the dead groups and those at their third idle report. In
  flow mode the flows' own aging is below this abstraction.
- `FlowsUnique`: no group holds two flow entries for the same flow.
  `process_flow` walks the list and stops at the first `memcmp` match
  (`pktdrop.c:600-605`); the model increments every record with that flow.
  The two agree only because there is never a second one, so this property
  is what makes the model's set of flow records a faithful abstraction of the list.

**Bounds.**
- At most `MaxDrops = 2` samples per cycle, with any number of cycles: two samples are enough for two groups, a hit after an insert, and a failure next to a success.
- The netns run has three locations, so the plain, the unix and the crashing path all fire.
- It has two namespaces, so exits and live groups coexist.
- The aging needs 3 idle reports to expire. The runs go through unbounded reports, so creation, refresh, expiry and removal all happen.
- Allocation failure is enabled in both passing runs.

Each property of a passing run has a mutant in `PROJECT.json`: a plausible bug
in the definition it depends on, which TLC then reports.

## Findings

1. **The flow cap is never enforced** (`pktdrop.c:608`).
   - `flow_count` is compared to `MAX_FLOW_ENTRIES` but never incremented.
   - With `MaxFlowEntries = 1`, TLC adds a third distinct flow to a group.
   - Even a maintained counter would allow 26 entries, because the check is `>` rather than `>=`.
2. **Buckets of groups below the threshold are never reset** (`pktdrop.c:437`).
   - `goto do_aging` skips the zeroing loop at line 459, while the total is still reset.
   - After one ARP sample and one report with `-t 2`, the group has total 0 and ARP bucket 1.
3. **NULL symbol dereference** (`pktdrop.c:811`, `:813`).
   - With `-U` or `-T`, a drop at a location that `find_ksym` cannot resolve crashes the monitor.
   - `process_packet` itself allows a NULL `sym`.

4. **The flow warning flags are never cleared** (`pktdrop.c:409`).
   - `show_flow_buckets` prints the `failures`/`overflow` warning, but nothing resets the flags.
   - The spec says they are cleared each cycle. TLC shows a report after which `failures` is still set.
   - (`overflow` is never set at all, because of finding 1.)
5. **A failed map read exits with status 0** (`net_rx_action.c:168`).
   - `net_rx_dump_hist` returns 1 after "Failed to get hist values" and the loop breaks.
   - `rc` was set to 0 before the loop, so `main` returns 0. Every other failure path returns 1.

Also noted, not checked (see `hazards` in `PROJECT.json`): the
use-after-free write `fl_entry->hits = 0` after `free` (`pktdrop.c:407`).

## Fairness

`Spec` assumes only `WF_vars(ShowHist)`. While the loop runs,
`pktdrop_complete` is called after every batch of events, and after a poll
timeout. It calls `show_hist` once the display interval has passed. So a report
that stays enabled eventually happens. Samples, exits and signals come from
outside and get no fairness.

`CHECK_DEADLOCK FALSE` is used because the program really stops: after a
signal (`status = "exit"`) or a crash.

`NetRxAction` assumes weak fairness of `main`'s own steps (`Setup`,
`LoopCheck`, the copy, `Dump`, `Cleanup`): `main` is a single thread that
is never blocked except in `sleep`, which returns. Kernel events and
signals come from outside and get no fairness. The program ends at `exit`,
so these runs also say `CHECK_DEADLOCK FALSE`.

## Proofs

**`PktDropProofs.tla`**:

- **`TypeCorrect`**: `Spec => []TypeOK`.
  - One step per action.
  - It rests on lemmas that each store helper (`Upsert`, `Live`, `FindDroplInc`, `DoHistogram`, `ProcessFlow`, `ShowLocEntries`, `AgeFlows`, ...) preserves the store type.
- **`CreditInvariant`**: `Spec => []CreditBounded`.
  - `CreditBounded` is not inductive on its own. It is proved inductive relative to `TypeOK`, which `TypeCorrect` gives as `[]TypeOK`.
  - The argument:
    - a hit on a valid credit (0..3) keeps it valid, because the count becomes positive (`HitCredit`);
    - a report either resets the credit to 3 or decrements a credit in 1..3 that does not expire, which leaves it in 1..2 (`AgeCredit`);
    - a new entry has aging 0 but count 1.
  - So `aging = 0` only ever goes together with a positive count, and the decrement never wraps.

Both theorems hold for every mode, threshold, flow set and allocation behaviour.
They use only the `ASSUME`s of `PktDrop`.

**`NetRxProofs.tla`**, for every bucket set, width and bound
(`Wrap > 0`, `MaxUnread < Wrap`):
- **`TypeCorrect`**: `Spec => []TypeOK`.
- **`Refines`**: `Spec => Refinement`. Initial states map to the abstract
  initial state. A kernel event maps to `Event`; copying a bucket is a
  stutter, because it moves events from `unread` to `shown`; a dump maps to
  `Report`; every other step is a stutter.
- Both rest on the inductive invariant `Inv`. For each bucket:
  `kmap = (prev + shown + unread) % Wrap`. A copied bucket has
  `val = (prev + shown) % Wrap`, and an uncopied one has `shown = 0`.
  Outside a read, `shown` is zero.
- `Inv` is needed because `TypeOK` alone says nothing about how the
  kernel counter, the copy and the old copy are related.
- The key lemma `DumpPrintsShown` says that a dump prints exactly `shown`.
  It follows from `ModDiff`: `((p + s) % W - p) % W = s` for `p, s < W`.
- The modular lemmas `ModRange`, `ModAdd`, `ModDiff` and `ModCounter`
  are proved by splitting on the quotient.

**`PktDropReportProofs.tla`**:

- **`LocsAliveInvariant`**: `Spec => []LocsAlive`. No location entry is ever
  marked dead: only histogram entries are, by `process_exit`. Several lemmas
  below need it to know that the sweep of `show_loc_entries` evicts by aging alone.
- **`SweepCorrect`**: `Spec => SweepEvictsExactly`, an action property.
  - The step lemma `SweepStep` shows it for one `ShowHist` step from any
    state satisfying `TypeOK` and `LocsAlive`.
  - The temporal step combines it with `[]TypeOK` and `[]LocsAlive`.
- **`BucketsBalancedDefault`**: `Spec => []BucketsMatchTotal`, under the
  hypothesis `DropThresh = 1`.
  - 1 is the default `drop_thresh` (`pktdrop.c:35`). With a larger `-t`,
    the `goto do_aging` at `pktdrop.c:437` skips the bucket reset and the
    property fails (run `thresh_buckets`). So the hypothesis is what makes
    the theorem true, not a convenience.
  - `Balanced(b, t)` is the property for one group. `ZeroBalanced`: the zero
    buckets with total 0 are balanced. `ClassifyBalanced`: classifying one
    packet adds 1 to the total and keeps the balance. `HistHitBalanced` and
    `DoHistogramBalanced` lift this to the store.
  - `ShowBucketEntryBalanced`: under `DropThresh = 1`, a report resets both
    the buckets and the total of every kept group.
  - The invariant `BalanceInv` is stated for the non-flow modes, like
    `BucketsMatchTotal`: in flow mode the buckets are not used.

**`PktDropProofs.tla`** also proves **`FlowsUniqueInvariant`**:
`Spec => []FlowsUnique`, inductive relative to `TypeOK`. `ProcessFlowUnique`:
a new flow record is added only when no record has that flow; a hit maps
records one to one. `AgeFlowsUnique`: a report keeps a subset of the records
with their flows unchanged. `DoHistogramUnique` and `ShowHistEntryUnique`
lift these to the store.

**`PktDropAgingProofs.tla`**:

- Generic lemmas about `AbsOf(M)`, the image of a store under `AgingView`:
  `ViewHitPresent`, `ViewHitNew`, `ViewKill` and `ViewReport` say which
  concrete update of one entry, or of every entry at a report, maps to
  `Hit`, `Kill` or `Report` of the abstract store.
- The key lemma `AgingStep` says that, for a credit allowed by
  `CreditBounded`, the `__u8` credit expires exactly when the abstract
  entry is at its third idle report, and the new credit maps to the new
  idle count. That is why both refinements rest on `CreditInvariant`: with
  an aging of 0 and a count of 0, the decrement would wrap to 255 and the
  mapping would break.
- **`LocAgingRefinement`**: `Spec => LocAgingRefined`. The initial store maps
  to the empty abstract store. `FindDroplIncView`: a sample maps to `Hit(l)`,
  or to a stutter when the entry cannot be allocated. `ShowLocEntriesView`: a
  report maps to `Report`. Every other action leaves `locs` unchanged.
- **`HistAgingRefinement`**: `Spec => HistAgingRefined`. `DoHistogramView`: a
  counted sample maps to `Hit` of its group (the key is never `NoKey`,
  lemma `NoKeyOutside`), or to a stutter when the sample is filtered or the
  group cannot be allocated. `ProcessExit`, enabled only when the
  namespace has a group (otherwise `process_exit` changes nothing), maps to `Kill`. `ShowHistView`: a
  report maps to `Report`, the dead groups being evicted whatever their
  credit. Every other action leaves `hist` unchanged.

**Left to TLC:**
- liveness (`IdleEntriesEvicted`, `StopHonoured`): TLAPS cannot reason about
  `ENABLED` and fairness here;
- the sum-based properties in `MCPktDrop` (`CountsConsistent`,
  `FlowHitsWithinTotal`): they relate a global counter to a sum over a
  store. Proving them needs facts about a fold over a changing finite
  domain, and those facts need induction over data, which the provers
  cannot instantiate;
- `BucketsMatchTotal` with `DropThresh > 1`, where it does not hold
  (`thresh_buckets`);
- `FlowBucketBounded`, `NoCrash`, `FlagsClearedByReport` and
  `FailureReported`, which fail (see Findings).

## Not modelled

- `show_packet` (no histogram): it only prints.
- `hist_disable_non_ipv4` and `check_sort_arg`: they only affect display.
- The printing of `dump_buckets` and the option parsing of `net_rx_action`: only the early returns are kept.
- The BPF programs, the perf channel, `find_ksym` and `parse_pkt`: outside `src/`. They enter as inputs.

## Plan

1. Add a DIP/SIP run, where non-IPv4 packets get no group.
2. Prove `IdleOf` maps every reachable location entry into `0..2`, and state
   it as an invariant of `AgingStore`.
