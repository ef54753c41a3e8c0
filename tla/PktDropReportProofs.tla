------------------------ MODULE PktDropReportProofs ------------------------
(***************************************************************************)
(* Proofs about what a report (show_hist) does to the two stores, for      *)
(* every value of the constants: the eviction contract of the sweep, and   *)
(* the agreement of the protocol buckets of a group with its total under   *)
(* the default drop_thresh.                                                *)
(***************************************************************************)
EXTENDS PktDropProofs

-----------------------------------------------------------------------------
(* The location store holds no dead entry between two steps.               *)

\* show_loc_entries marks an entry dead and removes it in the same walk
\* (remove_dropl), and find_dropl only creates live entries: the dead flag
\* of a location entry is never seen outside show_hist.
LocsAlive == \A l \in DOMAIN locs : ~locs[l].dead

\* The dead flag of an entry after show_hist has aged it: the process_exit
\* mark, or the expiry of its credit.
LEMMA ShowHistEntryDead ==
    ASSUME NEW e \in HistEntry
    PROVE  ShowHistEntry(e).dead = (e.dead \/ Expires(e.total, e.aging))
<1>1. CASE Mode = "FLOW"
  BY <1>1 DEF ShowHistEntry, ShowFlowEntry, HistEntry
<1>2. CASE Mode # "FLOW"
  BY <1>2 DEF ShowHistEntry, ShowBucketEntry, HistEntry
<1>3. QED
  BY <1>1, <1>2

\* An entry that counted drops in the cycle does not expire.
LEMMA ActiveNotExpired ==
    ASSUME NEW c \in Nat, NEW a, c > 0
    PROVE  ~Expires(c, a)
BY DEF Expires

\* Live keeps exactly the entries that are not marked dead.
LEMMA LiveDomain ==
    ASSUME NEW f, NEW k \in DOMAIN f
    PROVE  k \in DOMAIN Live(f) <=> ~f[k].dead
BY DEF Live

LEMMA LocsAliveInit == Init => LocsAlive
BY DEF Init, LocsAlive, EmptyStore

LEMMA LocsAliveNext == TypeOK /\ LocsAlive /\ [Next]_vars => LocsAlive'
<1> SUFFICES ASSUME TypeOK, LocsAlive, [Next]_vars PROVE LocsAlive'
  OBVIOUS
<1>1. ASSUME NEW l \in Locs, NEW pt \in PktTypes, NEW ns \in Netns,
             NEW fl \in Flows \cup {ParseError}, ProcessPacket(l, pt, ns, fl)
      PROVE  LocsAlive'
  <2>1. PICK ok \in Alloc : locs' = FindDroplInc(locs, l, ok)
    BY <1>1 DEF ProcessPacket
  <2>2. IsStore(locs, Locs, LocEntry)
    BY DEF TypeOK
  <2>3. CASE l \in DOMAIN locs
    BY <2>1, <2>2, <2>3 DEF FindDroplInc, LocsAlive, IsStore, LocEntry
  <2>4. CASE l \notin DOMAIN locs
    BY <2>1, <2>4 DEF FindDroplInc, LocsAlive, Upsert, NewDropl
  <2>5. QED
    BY <2>3, <2>4
<1>2. CASE ShowHist
  BY <1>2 DEF ShowHist, ShowLocEntries, Live, LocsAlive
<1>3. ASSUME NEW l \in Locs, SampleCrash(l) PROVE LocsAlive'
  BY <1>3 DEF SampleCrash, LocsAlive
<1>4. ASSUME NEW ns \in Netns, ProcessExit(ns) PROVE LocsAlive'
  BY <1>4 DEF ProcessExit, LocsAlive
<1>5. CASE SigHandler \/ Complete \/ UNCHANGED vars
  BY <1>5 DEF SigHandler, Complete, vars, LocsAlive
<1>6. QED
  BY <1>1, <1>2, <1>3, <1>4, <1>5 DEF Next

LEMMA LocsAliveInvariant == Spec => []LocsAlive
BY LocsAliveInit, LocsAliveNext, TypeCorrect, PTL DEF Spec

-----------------------------------------------------------------------------
(* The eviction contract of show_hist.                                     *)

\* One report, from a state whose location entries are all live, evicts
\* every group marked dead and keeps every entry that counted drops.
LEMMA SweepStep ==
    ASSUME TypeOK, LocsAlive, ShowHist
    PROVE  /\ \A k \in DOMAIN hist :
                 /\ hist[k].dead => k \notin DOMAIN hist'
                 /\ (hist[k].total > 0 /\ ~hist[k].dead) => k \in DOMAIN hist'
           /\ \A l \in DOMAIN locs : locs[l].total > 0 => l \in DOMAIN locs'
<1> DEFINE g == [k \in DOMAIN hist |-> ShowHistEntry(hist[k])]
<1>1. hist' = Live(g)
  BY DEF ShowHist
<1>2. ASSUME NEW k \in DOMAIN hist
      PROVE  /\ hist[k].dead => k \notin DOMAIN hist'
             /\ (hist[k].total > 0 /\ ~hist[k].dead) => k \in DOMAIN hist'
  <2>1. hist[k] \in HistEntry
    BY DEF TypeOK, IsStore
  <2>2. g[k].dead = (hist[k].dead \/ Expires(hist[k].total, hist[k].aging))
    BY <2>1, ShowHistEntryDead
  <2>3. hist[k].total > 0 => ~Expires(hist[k].total, hist[k].aging)
    BY <2>1, ActiveNotExpired DEF HistEntry
  <2>4. k \in DOMAIN hist' <=> ~g[k].dead
    BY <1>1, LiveDomain
  <2>5. QED
    BY <2>2, <2>3, <2>4
<1>3. ASSUME NEW l \in DOMAIN locs, locs[l].total > 0
      PROVE  l \in DOMAIN locs'
  <2>1. locs[l] \in LocEntry /\ ~locs[l].dead
    BY DEF TypeOK, IsStore, LocsAlive
  <2>2. ~Expires(locs[l].total, locs[l].aging)
    BY <1>3, <2>1, ActiveNotExpired DEF LocEntry
  <2>3. QED
    BY <2>1, <2>2 DEF ShowHist, ShowLocEntries, Live
<1>4. QED
  BY <1>2, <1>3

\* The eviction contract of show_hist (SweepEvictsExactly): a group marked
\* dead by process_exit never survives the next report, and no entry that
\* counted drops in the cycle is removed by it.
THEOREM SweepCorrect == Spec => SweepEvictsExactly
<1>1. TypeOK /\ LocsAlive => [ShowHist => /\ \A k \in DOMAIN hist :
                                                /\ hist[k].dead => k \notin DOMAIN hist'
                                                /\ (hist[k].total > 0 /\ ~hist[k].dead)
                                                     => k \in DOMAIN hist'
                                          /\ \A l \in DOMAIN locs :
                                                locs[l].total > 0 => l \in DOMAIN locs'
                             ]_vars
  BY SweepStep
<1>2. QED
  BY <1>1, TypeCorrect, LocsAliveInvariant, PTL DEF SweepEvictsExactly

-----------------------------------------------------------------------------
(* The protocol buckets of a group agree with its total.                   *)

\* The bucket balance of one entry: the top-level buckets add up to the
\* total, the ARP sub-buckets to the ARP bucket, the TCP flags stay within
\* TCP, and the transports within IPv4 and IPv6.
Balanced(b, t) ==
    /\ b["LLDP"] + b["ARP"] + b["IPV4"] + b["IPV6"] + b["OTHER"] = t
    /\ b["ARP"] = b["ARP_REQ"] + b["ARP_REPLY"] + b["ARP_OTHER"]
    /\ b["TCP_SYN"] + b["TCP_RST"] + b["TCP_FIN"] <= b["TCP"]
    /\ b["TCP"] + b["UDP"] + b["VRRP"] <= b["IPV4"] + b["IPV6"]

\* Every group of the store is balanced.
StoreBalanced(H) == \A k \in DOMAIN H : Balanced(H[k].buckets, H[k].total)

LEMMA BucketsMatchTotalDef ==
    BucketsMatchTotal <=> (Mode # "FLOW" => StoreBalanced(hist))
BY DEF BucketsMatchTotal, StoreBalanced, Balanced

\* A freshly calloc'd group is balanced.
LEMMA ZeroBalanced == Balanced(ZeroBuckets, 0)
BY DEF Balanced, ZeroBuckets, BucketNames

\* The classifier increments exactly one top-level bucket, one ARP
\* sub-bucket for ARP, at most one flag bucket for TCP, and at most one
\* transport bucket, only under IPv4 or IPv6.
LEMMA ClassifyBalanced ==
    ASSUME NEW b \in [BucketNames -> Nat], NEW t \in Nat, NEW fl \in Flows,
           Balanced(b, t)
    PROVE  Balanced(Classify(b, fl), t + 1)
<1>1. fl \in FlowRec
  BY FlowsAssumption
<1>2. CASE fl.proto = "ARP"
  BY <1>1, <1>2 DEF Balanced, Classify, ProtoBuckets, ArpBuckets, BucketNames
<1>3. CASE fl.proto \in {"IP", "IPV6"}
  BY <1>1, <1>3 DEF Balanced, Classify, ProtoBuckets, TransportBuckets,
                    TcpBuckets, BucketNames
<1>4. CASE fl.proto \in {"LLDP", "OTHER"}
  BY <1>1, <1>4 DEF Balanced, Classify, ProtoBuckets, BucketNames
<1>5. QED
  BY <1>1, <1>2, <1>3, <1>4 DEF FlowRec

\* One sample in a protocol-bucket mode keeps its group balanced.
LEMMA HistHitBalanced ==
    ASSUME Mode # "FLOW", NEW e \in HistEntry, NEW fl \in Flows, NEW ok,
           Balanced(e.buckets, e.total)
    PROVE  Balanced(HistHit(e, fl, ok).buckets, HistHit(e, fl, ok).total)
<1>1. HistHit(e, fl, ok) = [e EXCEPT !.total = @ + 1, !.buckets = Classify(@, fl)]
  BY DEF HistHit
<1>2. Balanced(Classify(e.buckets, fl), e.total + 1)
  BY ClassifyBalanced DEF HistEntry
<1>3. QED
  BY <1>1, <1>2 DEF HistEntry

\* do_histogram keeps every group balanced in a protocol-bucket mode.
LEMMA DoHistogramBalanced ==
    ASSUME Mode # "FLOW", NEW H, IsStore(H, KeySpace, HistEntry), StoreBalanced(H),
           NEW fl \in Flows, NEW ns \in Netns, NEW okH, NEW okF
    PROVE  StoreBalanced(DoHistogram(H, fl, ns, okH, okF))
<1> DEFINE k == HistKey(fl, ns)
<1>1. CASE k = NoKey
  BY <1>1 DEF DoHistogram
<1>2. CASE k # NoKey /\ k \in DOMAIN H
  <2>1. Balanced(HistHit(H[k], fl, okF).buckets, HistHit(H[k], fl, okF).total)
    BY <1>2, HistHitBalanced DEF IsStore, StoreBalanced
  <2>2. QED
    BY <1>2, <2>1 DEF DoHistogram, StoreBalanced
<1>3. CASE k # NoKey /\ k \notin DOMAIN H /\ okH
  <2>1. Balanced(NewDroph.buckets, NewDroph.total)
    BY ZeroBalanced DEF NewDroph
  <2>2. Balanced(HistHit(NewDroph, fl, okF).buckets, HistHit(NewDroph, fl, okF).total)
    BY <2>1, NewDrophType, HistHitBalanced
  <2>3. QED
    BY <1>3, <2>2 DEF DoHistogram, StoreBalanced, Upsert
<1>4. CASE k # NoKey /\ k \notin DOMAIN H /\ ~okH
  BY <1>4 DEF DoHistogram
<1>5. QED
  BY <1>1, <1>2, <1>3, <1>4

\* With the default drop_thresh of 1, a report leaves every group balanced:
\* a group below the threshold has total 0 and keeps balanced buckets, any
\* other group has its buckets zeroed with its total.
LEMMA ShowBucketEntryBalanced ==
    ASSUME DropThresh = 1, NEW e \in HistEntry, Balanced(e.buckets, e.total)
    PROVE  Balanced(ShowBucketEntry(e).buckets, ShowBucketEntry(e).total)
<1>1. CASE e.total < DropThresh
  <2>1. e.total = 0
    BY <1>1 DEF HistEntry
  <2>2. QED
    BY <1>1, <2>1 DEF ShowBucketEntry, HistEntry
<1>2. CASE ~(e.total < DropThresh)
  BY <1>2, ZeroBalanced DEF ShowBucketEntry, HistEntry
<1>3. QED
  BY <1>1, <1>2

\* In a protocol-bucket mode every group is balanced; it is inductive
\* relative to TypeOK.
BalanceInv == Mode # "FLOW" => StoreBalanced(hist)

LEMMA BalanceInit == Init => BalanceInv
BY DEF Init, EmptyStore, StoreBalanced, BalanceInv

LEMMA BalanceNext ==
    ASSUME DropThresh = 1
    PROVE  TypeOK /\ BalanceInv /\ [Next]_vars => BalanceInv'
<1> SUFFICES ASSUME TypeOK, BalanceInv, [Next]_vars, Mode # "FLOW"
             PROVE  StoreBalanced(hist')
  BY DEF BalanceInv
<1>0. TypeOK /\ StoreBalanced(hist)
  BY DEF BalanceInv
<1>1. ASSUME NEW l \in Locs, NEW pt \in PktTypes, NEW ns \in Netns,
             NEW fl \in Flows \cup {ParseError}, ProcessPacket(l, pt, ns, fl)
      PROVE  StoreBalanced(hist')
  <2>1. PICK okHist, okFlow \in Alloc :
          \/ hist' = hist
          \/ fl # ParseError /\ hist' = DoHistogram(hist, fl, ns, okHist, okFlow)
    BY <1>1 DEF ProcessPacket
  <2>2. CASE hist' = hist
    BY <1>0, <2>2
  <2>3. CASE fl # ParseError /\ hist' = DoHistogram(hist, fl, ns, okHist, okFlow)
    <3>1. fl \in Flows
      BY <2>3
    <3>2. QED
      BY <1>0, <2>3, <3>1, DoHistogramBalanced DEF TypeOK
  <2>4. QED
    BY <2>1, <2>2, <2>3
<1>2. ASSUME NEW ns \in Netns, ProcessExit(ns) PROVE StoreBalanced(hist')
  BY <1>0, <1>2 DEF ProcessExit, StoreBalanced
<1>3. CASE ShowHist
  <2> DEFINE g == [k \in DOMAIN hist |-> ShowHistEntry(hist[k])]
  <2>1. hist' = Live(g)
    BY <1>3 DEF ShowHist
  <2>2. ASSUME NEW k \in DOMAIN hist PROVE Balanced(g[k].buckets, g[k].total)
    <3>1. hist[k] \in HistEntry /\ Balanced(hist[k].buckets, hist[k].total)
      BY <1>0 DEF TypeOK, IsStore, StoreBalanced
    <3>2. g[k] = ShowBucketEntry(hist[k])
      BY DEF ShowHistEntry
    <3>3. QED
      BY <3>1, <3>2, ShowBucketEntryBalanced
  <2>3. QED
    BY <2>1, <2>2 DEF Live, StoreBalanced
<1>4. CASE \/ \E l \in Locs : SampleCrash(l)
           \/ SigHandler \/ Complete \/ UNCHANGED vars
  BY <1>0, <1>4 DEF SampleCrash, SigHandler, Complete, vars
<1>5. QED
  BY <1>1, <1>2, <1>3, <1>4 DEF Next

\* Under the default drop_thresh of 1, the protocol buckets of every group
\* count the samples of the current cycle exactly as its total does
\* (BucketsMatchTotal): do_histogram increments one top-level bucket per
\* sample and show_hist_buckets zeroes the buckets with the total.  With a
\* larger -t the goto do_aging at pktdrop.c:437 breaks it (run thresh_buckets).
THEOREM BucketsBalancedDefault ==
    ASSUME DropThresh = 1
    PROVE  Spec => []BucketsMatchTotal
<1>1. Init => BalanceInv
  BY BalanceInit
<1>2. TypeOK /\ BalanceInv /\ [Next]_vars => BalanceInv'
  BY BalanceNext
<1>3. BalanceInv => BucketsMatchTotal
  BY BucketsMatchTotalDef DEF BalanceInv
<1>4. QED
  BY <1>1, <1>2, <1>3, TypeCorrect, PTL DEF Spec

=============================================================================
