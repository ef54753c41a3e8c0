------------------------------ MODULE PktDrop ------------------------------
(***************************************************************************)
(* The histogram engine of the "drop" command of src/src/pktdrop.c: the    *)
(* per-sample handler process_event / process_packet / do_histogram, the   *)
(* exit handler process_exit, the per-cycle report show_hist (which ages,  *)
(* zeroes and evicts the entries of both rb-tree stores) and the control   *)
(* loop callback pktdrop_complete with the signal handler.                 *)
(*                                                                         *)
(* The two rb-trees all_drop_loc and all_drop_hists are partial functions  *)
(* from their key to the entry record; the in-order walk of the tree is    *)
(* irrelevant to the state because every entry is treated independently.  *)
(* Names, formatting and printing are left out.                            *)
(***************************************************************************)
EXTENDS Naturals, FiniteSets

CONSTANTS
    Mode,            \* do_hist, set once by check_sort_arg (-s)
    Locs,            \* drop locations (data->location)
    Netns,           \* network namespace ids (data->netns)
    Macs,            \* MAC addresses a parsed flow may carry
    IPs,             \* IPv4 addresses a parsed flow may carry
    Flows,           \* the struct flow values parse_pkt can produce
    ParseError,      \* parse_pkt failed
    SymOf,           \* find_ksym(location): a symbol or NoSym
    NoSym,           \* find_ksym returned NULL
    NoKey,           \* do_histogram returned before choosing a key
    PktTypes,        \* values of data->pkt_type
    SkipOvs,         \* -O
    SkipUnix,        \* -U
    SkipTcp,         \* -T
    DropThresh,      \* drop_thresh (-t)
    MaxFlowEntries,  \* MAX_FLOW_ENTRIES
    AllocCanFail,    \* whether calloc may return NULL in this model
    MaxDrops         \* model bound: samples handled per display cycle

\* The histogram modes of the enum at pktdrop.c:46; HIST_BY_NONE runs
\* show_packet instead and is not part of this engine.
HistModes == {"NETNS", "DMAC", "SMAC", "DIP", "SIP", "FLOW"}

\* The buckets of the enum at pktdrop.c:56.
BucketNames == {"LLDP", "ARP", "ARP_REQ", "ARP_REPLY", "ARP_OTHER", "IPV4",
                "IPV6", "TCP", "TCP_SYN", "TCP_RST", "TCP_FIN", "UDP",
                "VRRP", "OTHER"}

\* What find_ksym tells the handler about a location.
Syms == [unix : BOOLEAN, tcp : BOOLEAN, ovs : BOOLEAN]

\* The fields of struct flow that the engine reads.
FlowRec == [dmac : Macs, smac : Macs, saddr : IPs, daddr : IPs,
            proto : {"ARP", "IP", "IPV6", "LLDP", "OTHER"},
            arpop : {"REQUEST", "REPLY", "OTHER"},
            trans : {"TCP", "UDP", "VRRP", "OTHER"},
            fin : BOOLEAN, rst : BOOLEAN, syn : BOOLEAN]

ASSUME ModeAssumption == Mode \in HistModes
ASSUME FlowsAssumption == Flows \subseteq FlowRec /\ ParseError \notin Flows
ASSUME SymAssumption == SymOf \in [Locs -> Syms \cup {NoSym}] /\ NoSym \notin Syms
ASSUME KeyAssumption == NoKey \notin Netns \cup Macs \cup IPs
ASSUME PktTypeAssumption == PktTypes \subseteq 0..255
ASSUME FlagAssumption == {SkipOvs, SkipUnix, SkipTcp, AllocCanFail} \subseteq BOOLEAN
ASSUME ThreshAssumption == DropThresh \in Nat \ {0}
ASSUME BoundAssumption == MaxFlowEntries \in Nat /\ MaxDrops \in Nat

VARIABLES
    locs,        \* all_drop_loc: location -> struct drop_loc
    hist,        \* all_drop_hists: key -> struct drop_hist
    totalDrops,  \* total_drops
    totalUnix,   \* total_drops_unix
    byType,      \* total_drops_by_type
    done,        \* done, set by sig_handler
    status       \* "run" while perf_event_loop runs, then "exit" or "crash"

vars == <<locs, hist, totalDrops, totalUnix, byType, done, status>>

\* The aging field is a __u8.
Credit == 0..255

\* Indices of total_drops_by_type (PKT_TYPE_MAX + 1 entries).
PktTypeIdx == 0..7

\* The keys do_histogram can produce in each mode.
KeySpace == CASE Mode = "NETNS" -> Netns
              [] Mode \in {"DMAC", "SMAC", "FLOW"} -> Macs
              [] Mode \in {"DIP", "SIP"} -> IPs

LocEntry == [total : Nat, aging : Credit, dead : BOOLEAN]
FlowEntry == [flow : Flows, hits : Nat, aging : Credit]
HistEntry == [total : Nat, aging : Credit, dead : BOOLEAN,
              buckets : [BucketNames -> Nat],
              flows : SUBSET FlowEntry, flow_count : Credit,
              overflow : BOOLEAN, failures : BOOLEAN]

\* A store: a partial function from keys in D to entries in T.
IsStore(f, D, T) == DOMAIN f \subseteq D /\ f \in [DOMAIN f -> T]

\* f with the entry at k set to v, whether or not k was present.
Upsert(f, k, v) == [x \in DOMAIN f \cup {k} |-> IF x = k THEN v ELSE f[x]]

\* The entries of a store whose dead flag is clear.
Live(f) == [x \in {y \in DOMAIN f : ~f[y].dead} |-> f[x]]

ZeroBuckets == [b \in BucketNames |-> 0]

\* An empty rb-tree (RB_ROOT).
EmptyStore == [x \in {} |-> 0]

-----------------------------------------------------------------------------
(* Store entries: the calloc'd structs of new_dropl and new_droph.         *)

NewDropl == [total |-> 0, aging |-> 0, dead |-> FALSE]

NewDroph == [total |-> 0, aging |-> 0, dead |-> FALSE, buckets |-> ZeroBuckets,
             flows |-> {}, flow_count |-> 0,
             overflow |-> FALSE, failures |-> FALSE]

\* find_dropl(addr, name) followed by dropl->total_drops++: the entry is
\* created when absent; when calloc fails (ok = FALSE) the store is unchanged.
FindDroplInc(L, l, ok) ==
    IF l \in DOMAIN L THEN [L EXCEPT ![l].total = @ + 1]
    ELSE IF ok THEN Upsert(L, l, [NewDropl EXCEPT !.total = 1])
    ELSE L

-----------------------------------------------------------------------------
(* The protocol bucket classifier: process_arp, process_ipv4/6,            *)
(* process_transport and process_tcp as the set of buckets one sample      *)
(* increments.                                                             *)

\* Variant with a plausible bug: the flag tests without the else chain, so
\* a FIN+SYN segment counts in both buckets.
TcpBucketsAllFlags(fl) == (IF fl.fin THEN {"TCP_FIN"} ELSE {})
                          \cup (IF fl.rst THEN {"TCP_RST"} ELSE {})
                          \cup (IF fl.syn THEN {"TCP_SYN"} ELSE {})

TcpBuckets(fl) == IF fl.fin THEN {"TCP_FIN"}
                  ELSE IF fl.rst THEN {"TCP_RST"}
                  ELSE IF fl.syn THEN {"TCP_SYN"}
                  ELSE {}

TransportBuckets(fl) == CASE fl.trans = "TCP"  -> {"TCP"} \cup TcpBuckets(fl)
                          [] fl.trans = "UDP"  -> {"UDP"}
                          [] fl.trans = "VRRP" -> {"VRRP"}
                          [] OTHER             -> {}

ArpBuckets(fl) == {"ARP", CASE fl.arpop = "REQUEST" -> "ARP_REQ"
                            [] fl.arpop = "REPLY"   -> "ARP_REPLY"
                            [] OTHER                -> "ARP_OTHER"}

ProtoBuckets(fl) == CASE fl.proto = "ARP"  -> ArpBuckets(fl)
                      [] fl.proto = "IP"   -> {"IPV4"} \cup TransportBuckets(fl)
                      [] fl.proto = "IPV6" -> {"IPV6"} \cup TransportBuckets(fl)
                      [] fl.proto = "LLDP" -> {"LLDP"}
                      [] OTHER             -> {"OTHER"}

Classify(b, fl) == [x \in BucketNames |-> b[x] + IF x \in ProtoBuckets(fl) THEN 1 ELSE 0]

-----------------------------------------------------------------------------
(* The flow deduplication bucket: process_flow.  The list is the set of   *)
(* its struct flow_entry records (list order only affects printing), and   *)
(* memcmp equality is equality of the flow records.  flow_count is read by *)
(* the capacity check and written by nothing.                              *)

\* The flows that have an entry in the list.
FlowsOf(F) == {r.flow : r \in F}

\* Variant with a plausible bug: the list walk is skipped, so every sample
\* gets a new entry.
ProcessFlowNoLookup(e, fl, ok) ==
    IF e.flow_count > MaxFlowEntries THEN [e EXCEPT !.overflow = TRUE]
    ELSE IF ~ok THEN [e EXCEPT !.failures = TRUE]
    ELSE [e EXCEPT !.flows = @ \cup {[flow |-> fl, hits |-> 1, aging |-> 0]}]

\* The list walk of process_flow and the hit on the entry found or added.
ProcessFlow(e, fl, ok) ==
    IF fl \in FlowsOf(e.flows)
    THEN [e EXCEPT !.flows = {IF r.flow = fl THEN [r EXCEPT !.hits = @ + 1] ELSE r
                              : r \in @}]
    ELSE IF e.flow_count > MaxFlowEntries THEN [e EXCEPT !.overflow = TRUE]
    ELSE IF ~ok THEN [e EXCEPT !.failures = TRUE]
    ELSE [e EXCEPT !.flows = @ \cup {[flow |-> fl, hits |-> 1, aging |-> 0]}]

-----------------------------------------------------------------------------
(* do_histogram                                                            *)

\* Variants with a plausible bug: a case of the switch placed under the
\* wrong label (namespace falling through to the MAC, flow keyed by netns).
HistKeyNetnsFallthrough(fl, ns) ==
    CASE Mode \in {"NETNS", "FLOW", "DMAC"} -> fl.dmac
      [] Mode = "SMAC" -> fl.smac
      [] Mode \in {"DIP", "SIP"} ->
            IF fl.proto # "IP" THEN NoKey
            ELSE IF Mode = "DIP" THEN fl.daddr ELSE fl.saddr

HistKeyFlowByNetns(fl, ns) ==
    CASE Mode \in {"NETNS", "FLOW"} -> ns
      [] Mode = "DMAC" -> fl.dmac
      [] Mode = "SMAC" -> fl.smac
      [] Mode \in {"DIP", "SIP"} ->
            IF fl.proto # "IP" THEN NoKey
            ELSE IF Mode = "DIP" THEN fl.daddr ELSE fl.saddr

\* The key of the histogram entry; the MAC bytes are packed reversed into
\* an unsigned long, an injective encoding, so the key is the MAC itself.
HistKey(fl, ns) ==
    CASE Mode = "NETNS" -> ns
      [] Mode \in {"FLOW", "DMAC"} -> fl.dmac
      [] Mode = "SMAC" -> fl.smac
      [] Mode \in {"DIP", "SIP"} ->
            IF fl.proto # "IP" THEN NoKey
            ELSE IF Mode = "DIP" THEN fl.daddr ELSE fl.saddr

\* The entry after one sample: total_drops++, then the flow bucket or the
\* protocol buckets.
HistHit(e, fl, okFlow) ==
    LET e1 == [e EXCEPT !.total = @ + 1]
    IN  IF Mode = "FLOW" THEN ProcessFlow(e1, fl, okFlow)
        ELSE [e1 EXCEPT !.buckets = Classify(@, fl)]

\* find_droph(addr, true) and the rest of do_histogram.
DoHistogram(H, fl, ns, okHist, okFlow) ==
    LET k == HistKey(fl, ns)
    IN  IF k = NoKey THEN H
        ELSE IF k \in DOMAIN H THEN [H EXCEPT ![k] = HistHit(@, fl, okFlow)]
        ELSE IF okHist THEN Upsert(H, k, HistHit(NewDroph, fl, okFlow))
        ELSE H

-----------------------------------------------------------------------------
(* Handlers                                                                *)

\* The checks of process_event that dereference sym: a NULL sym crashes.
NullDeref(sym) == sym = NoSym /\ (SkipUnix \/ SkipTcp)

\* The checks of process_event that drop the sample before process_packet.
Filtered(sym) ==
    /\ sym # NoSym
    /\ \/ SkipOvs /\ sym.ovs
       \/ SkipUnix /\ sym.unix
       \/ SkipTcp /\ sym.tcp

Alloc == IF AllocCanFail THEN BOOLEAN ELSE {TRUE}

\* process_event(EVENT_SAMPLE) -> process_packet -> do_histogram.  A
\* filtered sample changes nothing and is a stuttering step.
ProcessPacket(l, pt, ns, fl) ==
    LET sym == SymOf[l] IN
    /\ status = "run"
    /\ totalDrops < MaxDrops
    /\ ~NullDeref(sym)
    /\ ~Filtered(sym)
    /\ \E okLoc, okHist, okFlow \in Alloc :
        /\ totalDrops' = totalDrops + 1
        /\ byType' = [byType EXCEPT ![pt % 8] = @ + 1]
        /\ locs' = FindDroplInc(locs, l, okLoc)
        /\ IF sym # NoSym /\ sym.unix
              THEN /\ totalUnix' = totalUnix + 1
                   /\ UNCHANGED hist
              ELSE /\ UNCHANGED totalUnix
                   /\ hist' = IF fl = ParseError THEN hist
                              ELSE DoHistogram(hist, fl, ns, okHist, okFlow)
    /\ UNCHANGED <<done, status>>

\* process_event(EVENT_SAMPLE) when find_ksym returned NULL and -U or -T
\* is set: sym->is_unix or sym->is_tcp reads through a NULL pointer.
SampleCrash(l) ==
    /\ status = "run"
    /\ NullDeref(SymOf[l])
    /\ status' = "crash"
    /\ UNCHANGED <<locs, hist, totalDrops, totalUnix, byType, done>>

\* process_exit: the fib_net_exit kprobe is attached only when grouping by
\* namespace, so exit events exist only in that mode.
ProcessExit(ns) ==
    /\ status = "run"
    /\ Mode = "NETNS"
    /\ ns \in DOMAIN hist
    /\ hist' = [hist EXCEPT ![ns].dead = TRUE]
    /\ UNCHANGED <<locs, totalDrops, totalUnix, byType, done, status>>

-----------------------------------------------------------------------------
(* show_hist: report, age, zero and evict                                  *)

\* Variants with a plausible bug: the reset to 3 dropped, or the decrement
\* dropped.
AgedCreditNoReset(count, aging) == (aging - 1) % 256

AgedCreditNoDecrement(count, aging) == IF count # 0 THEN 3 ELSE aging

\* The aging rule of every store: 3 after a cycle with drops, else --aging
\* on a __u8; reaching 0 kills the entry.
AgedCredit(count, aging) == IF count # 0 THEN 3 ELSE (aging - 1) % 256

Expires(count, aging) == count = 0 /\ (aging - 1) % 256 = 0

\* Variant with a plausible bug: dropl->total_drops is not reset.
ShowLocEntriesNoZero(L) ==
    Live([l \in DOMAIN L |->
            [total |-> L[l].total,
             aging |-> AgedCredit(L[l].total, L[l].aging),
             dead  |-> L[l].dead \/ Expires(L[l].total, L[l].aging)]])

\* show_loc_entries: age every entry, zero it, then remove the dead ones.
ShowLocEntries(L) ==
    Live([l \in DOMAIN L |->
            [total |-> 0,
             aging |-> AgedCredit(L[l].total, L[l].aging),
             dead  |-> L[l].dead \/ Expires(L[l].total, L[l].aging)]])

\* Variants with a plausible bug: the flow credit is never reset to 3, or
\* fl_entry->hits is not reset.
AgeFlowsNoReset(F) ==
    {[r EXCEPT !.hits = 0, !.aging = (r.aging - 1) % 256]
        : r \in {g \in F : ~Expires(g.hits, g.aging)}}

AgeFlowsKeepHits(F) ==
    {[r EXCEPT !.aging = AgedCredit(r.hits, r.aging)]
        : r \in {g \in F : ~Expires(g.hits, g.aging)}}

\* The flow list walk of show_flow_buckets: expired entries are unlinked.
AgeFlows(F) ==
    {[r EXCEPT !.hits = 0, !.aging = AgedCredit(r.hits, r.aging)]
        : r \in {g \in F : ~Expires(g.hits, g.aging)}}

\* One droph in show_flow_buckets.
ShowFlowEntry(e) ==
    [e EXCEPT !.flows = AgeFlows(@),
              !.total = 0,
              !.aging = AgedCredit(e.total, e.aging),
              !.dead  = @ \/ Expires(e.total, e.aging)]

\* Variant with a plausible bug: the dead flag is recomputed by the aging
\* test, forgetting a process_exit mark.
ShowBucketEntryOverwriteDead(e) ==
    [e EXCEPT !.buckets = IF e.total < DropThresh THEN @ ELSE ZeroBuckets,
              !.total = 0,
              !.aging = AgedCredit(e.total, e.aging),
              !.dead  = Expires(e.total, e.aging)]

\* Variant with a plausible bug: a group with drops gets a credit of 2
\* instead of 3.
ShowBucketEntryShortCredit(e) ==
    [e EXCEPT !.buckets = IF e.total < DropThresh THEN @ ELSE ZeroBuckets,
              !.total = 0,
              !.aging = IF e.total # 0 THEN 2 ELSE (e.aging - 1) % 256,
              !.dead  = @ \/ Expires(e.total, e.aging)]

\* One droph in show_hist_buckets: a row below drop_thresh jumps to
\* do_aging and keeps its buckets.
ShowBucketEntry(e) ==
    [e EXCEPT !.buckets = IF e.total < DropThresh THEN @ ELSE ZeroBuckets,
              !.total = 0,
              !.aging = AgedCredit(e.total, e.aging),
              !.dead  = @ \/ Expires(e.total, e.aging)]

ShowHistEntry(e) == IF Mode = "FLOW" THEN ShowFlowEntry(e) ELSE ShowBucketEntry(e)

\* pktdrop_complete when the display interval has elapsed: show_hist,
\* which zeroes the global counters, ages both stores and finally removes
\* the dead histogram entries (cleanup_hist_buckets).
ShowHist ==
    /\ status = "run"
    /\ totalDrops' = 0
    /\ totalUnix' = 0
    /\ byType' = [t \in PktTypeIdx |-> 0]
    /\ locs' = ShowLocEntries(locs)
    /\ hist' = Live([k \in DOMAIN hist |-> ShowHistEntry(hist[k])])
    /\ UNCHANGED <<done, status>>

\* sig_handler
SigHandler ==
    /\ status = "run"
    /\ ~done
    /\ done' = TRUE
    /\ UNCHANGED <<locs, hist, totalDrops, totalUnix, byType, status>>

\* pktdrop_complete returns done and perf_event_loop stops.
Complete ==
    /\ status = "run"
    /\ done
    /\ status' = "exit"
    /\ UNCHANGED <<locs, hist, totalDrops, totalUnix, byType, done>>

-----------------------------------------------------------------------------

Init ==
    /\ locs = EmptyStore
    /\ hist = EmptyStore
    /\ totalDrops = 0
    /\ totalUnix = 0
    /\ byType = [t \in PktTypeIdx |-> 0]
    /\ done = FALSE
    /\ status = "run"

Next ==
    \/ \E l \in Locs, pt \in PktTypes, ns \in Netns, fl \in Flows \cup {ParseError} :
          ProcessPacket(l, pt, ns, fl)
    \/ \E l \in Locs : SampleCrash(l)
    \/ \E ns \in Netns : ProcessExit(ns)
    \/ ShowHist
    \/ SigHandler
    \/ Complete

\* The report runs whenever the loop is running and time passes.
Spec == Init /\ [][Next]_vars /\ WF_vars(ShowHist)

-----------------------------------------------------------------------------
(* Properties                                                              *)

\* The type invariant: both stores hold well-formed entries under keys of
\* the kind the active mode produces.
TypeOK ==
    /\ IsStore(locs, Locs, LocEntry)
    /\ IsStore(hist, KeySpace, HistEntry)
    /\ totalDrops \in Nat
    /\ totalUnix \in Nat
    /\ byType \in [PktTypeIdx -> Nat]
    /\ done \in BOOLEAN
    /\ status \in {"run", "exit", "crash"}

\* An aging credit is 1..3, or 0 only on an entry created in this cycle,
\* whose counter is then non-zero.
CreditOK(count, aging) == aging \in 1..3 \/ (aging = 0 /\ count > 0)

\* The same for a histogram entry and every flow entry of its list.
HistCreditOK(e) == CreditOK(e.total, e.aging) /\ \A r \in e.flows : CreditOK(r.hits, r.aging)

\* No location, histogram or flow entry ever reaches a report with credit 0
\* and no drops, so the __u8 --aging in show_loc_entries, show_hist_buckets
\* and show_flow_buckets never wraps to 255 and keeps a dead entry alive.
CreditBounded ==
    /\ \A l \in DOMAIN locs : CreditOK(locs[l].total, locs[l].aging)
    /\ \A k \in DOMAIN hist : HistCreditOK(hist[k])

\* In the protocol-bucket modes, the buckets of a histogram entry count the
\* samples of the current cycle exactly as its total does: each sample
\* increments one top-level bucket (process_arp / ipv4 / ipv6 / LLDP /
\* other), ARP exactly one sub-bucket, and TCP at most one flag bucket.
\* show_hist_buckets must reset the buckets whenever it resets the total.
BucketsMatchTotal ==
    Mode # "FLOW" =>
      \A k \in DOMAIN hist :
        LET b == hist[k].buckets IN
        /\ b["LLDP"] + b["ARP"] + b["IPV4"] + b["IPV6"] + b["OTHER"] = hist[k].total
        /\ b["ARP"] = b["ARP_REQ"] + b["ARP_REPLY"] + b["ARP_OTHER"]
        /\ b["TCP_SYN"] + b["TCP_RST"] + b["TCP_FIN"] <= b["TCP"]
        /\ b["TCP"] + b["UDP"] + b["VRRP"] <= b["IPV4"] + b["IPV6"]

\* The eviction contract of show_hist: a histogram entry marked dead by
\* process_exit never survives the next report, even with drops in the
\* cycle, and an entry (location or histogram) that saw drops in the cycle
\* and was not marked dead survives it.
SweepEvictsExactly ==
    [][ShowHist =>
          /\ \A k \in DOMAIN hist :
                /\ hist[k].dead => k \notin DOMAIN hist'
                /\ (hist[k].total > 0 /\ ~hist[k].dead) => k \in DOMAIN hist'
          /\ \A l \in DOMAIN locs : locs[l].total > 0 => l \in DOMAIN locs'
      ]_vars

\* An entry that sees no more drops is eventually evicted by the periodic
\* report (or the program stops): idle state does not leak.
IdleEntriesEvicted ==
    /\ \A l \in Locs :
          (l \in DOMAIN locs /\ locs[l].total = 0)
            ~> (l \notin DOMAIN locs \/ locs[l].total > 0 \/ status # "run")
    /\ \A k \in KeySpace :
          (k \in DOMAIN hist /\ hist[k].total = 0)
            ~> (k \notin DOMAIN hist \/ hist[k].total > 0 \/ status # "run")

\* The histogram-by-flow bucket holds at most MAX_FLOW_ENTRIES flows
\* (pktdrop.c:81 and the check in process_flow).
FlowBucketBounded ==
    \A k \in DOMAIN hist : Cardinality(hist[k].flows) <= MaxFlowEntries + 1

\* process_flow finds a repeated flow by its list walk (memcmp) and counts
\* it in the entry found, so no flow is ever listed twice in a group: the
\* hits of one flow are never split over two entries, and the walk, which
\* stops at the first match, always finds the only entry of the flow.
FlowsUnique ==
    \A k \in DOMAIN hist :
        \A r1, r2 \in hist[k].flows : r1.flow = r2.flow => r1 = r2

\* The handler never crashes the process on a sample.
NoCrash == status # "crash"

\* A report clears the sticky overflow and failures flags of every flow
\* group, so that a warning printed by show_flow_buckets is about the
\* cycle it reports (the flags are "cleared/re-derived each cycle").
FlagsClearedByReport ==
    [][ShowHist => \A k \in DOMAIN hist' : ~hist'[k].overflow /\ ~hist'[k].failures]_vars


\* The idle reports a location entry has seen since it last counted drops:
\* show_loc_entries resets the credit to 3 and takes one per idle report,
\* and a new entry (credit 0, with drops) has seen none.
IdleOf(aging) == IF aging = 0 THEN 0 ELSE 3 - aging

\* An entry of either store seen as an entry of the abstract aging store.
AgingView(e) == [count |-> e.total, idle |-> IdleOf(e.aging), dead |-> e.dead]

\* The location store seen as the abstract aging store.
LocAging == INSTANCE AgingStore WITH
                Keys <- Locs,
                store <- [l \in DOMAIN locs |-> AgingView(locs[l])]

\* The histogram store seen as the abstract aging store.
HistAging == INSTANCE AgingStore WITH
                Keys <- KeySpace,
                store <- [k \in DOMAIN hist |-> AgingView(hist[k])]

\* The drop-location store implements the abstract aging store
\* (LocAgingRefined): find_dropl counts each drop in the entry of its
\* location, and show_loc_entries evicts an entry exactly at the third
\* consecutive report without drops, never earlier and never later, across
\* the __u8 credit arithmetic and the restart loop of remove_dropl.
LocAgingRefined == LocAging!Spec

\* The histogram store implements the same abstract aging store
\* (HistAgingRefined): do_histogram counts each drop in the entry of its
\* key, process_exit marks a namespace entry, and show_hist_buckets or
\* show_flow_buckets with cleanup_hist_buckets evicts an entry at the first
\* report after its mark, or at the third consecutive report without drops.
HistAgingRefined == HistAging!Spec

=============================================================================
