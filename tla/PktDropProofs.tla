--------------------------- MODULE PktDropProofs ---------------------------
(***************************************************************************)
(* Proofs about PktDrop for every value of the constants: the type         *)
(* invariant, that no entry ever reaches a report with an aging credit     *)
(* that the __u8 decrement would wrap, and that no group ever holds two    *)
(* flow entries for the same flow.                                         *)
(***************************************************************************)
EXTENDS PktDrop, TLAPS

USE ModeAssumption, FlowsAssumption, SymAssumption, KeyAssumption,
    PktTypeAssumption, FlagAssumption, ThreshAssumption, BoundAssumption

-----------------------------------------------------------------------------
(* Lemmas about the helpers on stores.                                     *)

\* Upserting a well-typed entry under a well-typed key keeps a store typed.
LEMMA UpsertStore ==
    ASSUME NEW f, NEW D, NEW T, IsStore(f, D, T),
           NEW k \in D, NEW v \in T
    PROVE  IsStore(Upsert(f, k, v), D, T)
BY DEF IsStore, Upsert

\* Updating the entry under a present key keeps a store typed.
LEMMA UpdateStore ==
    ASSUME NEW f, NEW D, NEW T, IsStore(f, D, T),
           NEW k \in DOMAIN f, NEW v \in T
    PROVE  IsStore([f EXCEPT ![k] = v], D, T)
BY DEF IsStore

\* Removing the dead entries keeps a store typed.
LEMMA LiveStore ==
    ASSUME NEW f, NEW D, NEW T, IsStore(f, D, T)
    PROVE  IsStore(Live(f), D, T)
BY DEF IsStore, Live

\* A function over the keys of a store whose values are typed is a store.
LEMMA MapStore ==
    ASSUME NEW f, NEW D, NEW T, IsStore(f, D, T), NEW U, NEW g,
           g = [k \in DOMAIN f |-> g[k]], \A k \in DOMAIN f : g[k] \in U
    PROVE  IsStore(g, D, U)
BY DEF IsStore

\* The __u8 aging arithmetic stays in range.
LEMMA AgedCreditType ==
    ASSUME NEW c \in Nat, NEW a \in Credit
    PROVE  AgedCredit(c, a) \in Credit
BY DEF AgedCredit, Credit

-----------------------------------------------------------------------------
(* Lemmas about the handlers' helpers.                                     *)

LEMMA HistKeyType ==
    ASSUME NEW fl \in Flows, NEW ns \in Netns
    PROVE  HistKey(fl, ns) \in KeySpace \cup {NoKey}
<1>1. fl \in FlowRec
  BY FlowsAssumption
<1>2. QED
  BY <1>1 DEF HistKey, KeySpace, HistModes, FlowRec

LEMMA ClassifyType ==
    ASSUME NEW b \in [BucketNames -> Nat], NEW fl \in Flows
    PROVE  Classify(b, fl) \in [BucketNames -> Nat]
BY DEF Classify

LEMMA ProcessFlowType ==
    ASSUME NEW e \in HistEntry, NEW fl \in Flows, NEW ok \in BOOLEAN
    PROVE  ProcessFlow(e, fl, ok) \in HistEntry
<1>1. CASE fl \in FlowsOf(e.flows)
  <2>1. {IF r.flow = fl THEN [r EXCEPT !.hits = @ + 1] ELSE r : r \in e.flows}
          \subseteq FlowEntry
    BY DEF HistEntry, FlowEntry
  <2>2. QED
    BY <1>1, <2>1 DEF ProcessFlow, HistEntry
<1>2. CASE fl \notin FlowsOf(e.flows) /\ e.flow_count > MaxFlowEntries
  BY <1>2 DEF ProcessFlow, HistEntry
<1>3. CASE fl \notin FlowsOf(e.flows) /\ ~(e.flow_count > MaxFlowEntries) /\ ~ok
  BY <1>3 DEF ProcessFlow, HistEntry
<1>4. CASE fl \notin FlowsOf(e.flows) /\ ~(e.flow_count > MaxFlowEntries) /\ ok
  <2>1. [flow |-> fl, hits |-> 1, aging |-> 0] \in FlowEntry
    BY DEF FlowEntry, Credit
  <2>2. e.flows \cup {[flow |-> fl, hits |-> 1, aging |-> 0]} \in SUBSET FlowEntry
    BY <2>1 DEF HistEntry
  <2>3. QED
    BY <1>4, <2>2 DEF ProcessFlow, HistEntry
<1>5. QED
  BY <1>1, <1>2, <1>3, <1>4

LEMMA HistHitType ==
    ASSUME NEW e \in HistEntry, NEW fl \in Flows, NEW ok \in BOOLEAN
    PROVE  HistHit(e, fl, ok) \in HistEntry
<1> DEFINE e1 == [e EXCEPT !.total = @ + 1]
<1>1. e1 \in HistEntry
  BY DEF HistEntry
<1>2. [e1 EXCEPT !.buckets = Classify(@, fl)] \in HistEntry
  BY <1>1, ClassifyType DEF HistEntry
<1>3. QED
  BY <1>1, <1>2, ProcessFlowType DEF HistHit

LEMMA NewDrophType == NewDroph \in HistEntry
BY DEF NewDroph, HistEntry, ZeroBuckets, Credit

LEMMA DoHistogramType ==
    ASSUME NEW H, IsStore(H, KeySpace, HistEntry),
           NEW fl \in Flows, NEW ns \in Netns, NEW okH \in BOOLEAN,
           NEW okF \in BOOLEAN
    PROVE  IsStore(DoHistogram(H, fl, ns, okH, okF), KeySpace, HistEntry)
<1> DEFINE k == HistKey(fl, ns)
<1>1. k \in KeySpace \cup {NoKey}
  BY HistKeyType
<1>2. CASE k \in DOMAIN H
  <2>1. HistHit(H[k], fl, okF) \in HistEntry
    BY <1>2, HistHitType DEF IsStore
  <2>2. IsStore([H EXCEPT ![k] = HistHit(H[k], fl, okF)], KeySpace, HistEntry)
    BY <1>2, <2>1, UpdateStore
  <2>3. k # NoKey
    BY <1>2, KeyAssumption DEF IsStore, KeySpace, HistModes
  <2>4. QED
    BY <1>2, <2>2, <2>3 DEF DoHistogram
<1>3. CASE k \notin DOMAIN H /\ k \in KeySpace
  <2>1. HistHit(NewDroph, fl, okF) \in HistEntry
    BY NewDrophType, HistHitType
  <2>2. k # NoKey
    BY <1>3, KeyAssumption DEF KeySpace, HistModes
  <2>3. QED
    BY <1>3, <2>1, <2>2, UpsertStore DEF DoHistogram
<1>4. CASE k = NoKey
  BY <1>4 DEF DoHistogram
<1>5. QED
  BY <1>1, <1>2, <1>3, <1>4

LEMMA FindDroplIncType ==
    ASSUME NEW L, IsStore(L, Locs, LocEntry), NEW l \in Locs, NEW ok \in BOOLEAN
    PROVE  IsStore(FindDroplInc(L, l, ok), Locs, LocEntry)
<1>1. CASE l \in DOMAIN L
  <2>1. [L[l] EXCEPT !.total = @ + 1] \in LocEntry
    BY <1>1 DEF IsStore, LocEntry
  <2>2. QED
    BY <1>1, <2>1, UpdateStore DEF FindDroplInc
<1>2. CASE l \notin DOMAIN L
  <2>1. NewDropl \in LocEntry
    BY DEF NewDropl, LocEntry, Credit
  <2>2. [NewDropl EXCEPT !.total = 1] \in LocEntry
    BY <2>1 DEF LocEntry
  <2>3. QED
    BY <1>2, <2>2, UpsertStore DEF FindDroplInc
<1>3. QED
  BY <1>1, <1>2

LEMMA ShowLocEntriesType ==
    ASSUME NEW L, IsStore(L, Locs, LocEntry)
    PROVE  IsStore(ShowLocEntries(L), Locs, LocEntry)
<1> DEFINE G(x) == [total |-> 0, aging |-> AgedCredit(x.total, x.aging),
                    dead |-> x.dead \/ Expires(x.total, x.aging)]
<1>1. \A x \in LocEntry : G(x) \in LocEntry
  BY AgedCreditType DEF LocEntry
<1>2. IsStore([l \in DOMAIN L |-> G(L[l])], Locs, LocEntry)
  BY <1>1 DEF IsStore
<1>3. QED
  BY <1>2, LiveStore DEF ShowLocEntries

LEMMA AgeFlowsType ==
    ASSUME NEW F \in SUBSET FlowEntry
    PROVE  AgeFlows(F) \in SUBSET FlowEntry
<1> SUFFICES ASSUME NEW r \in F
             PROVE  [r EXCEPT !.hits = 0, !.aging = AgedCredit(r.hits, r.aging)]
                      \in FlowEntry
  BY DEF AgeFlows
<1>1. AgedCredit(r.hits, r.aging) \in Credit
  BY AgedCreditType DEF FlowEntry
<1>2. QED
  BY <1>1 DEF FlowEntry

LEMMA ShowHistEntryType ==
    ASSUME NEW e \in HistEntry
    PROVE  ShowHistEntry(e) \in HistEntry
<1>1. AgedCredit(e.total, e.aging) \in Credit
  BY AgedCreditType DEF HistEntry
<1>2. AgeFlows(e.flows) \in SUBSET FlowEntry
  BY AgeFlowsType DEF HistEntry
<1>3. ShowFlowEntry(e) \in HistEntry
  BY <1>1, <1>2 DEF ShowFlowEntry, HistEntry
<1>4. ShowBucketEntry(e) \in HistEntry
  BY <1>1 DEF ShowBucketEntry, HistEntry, ZeroBuckets
<1>5. QED
  BY <1>3, <1>4 DEF ShowHistEntry

-----------------------------------------------------------------------------

\* TypeOK holds in every reachable state, whatever the mode and bounds.
THEOREM TypeCorrect == Spec => []TypeOK
<1>1. Init => TypeOK
  <2> SUFFICES ASSUME Init PROVE TypeOK
    OBVIOUS
  <2>1. IsStore(EmptyStore, Locs, LocEntry) /\ IsStore(EmptyStore, KeySpace, HistEntry)
    BY DEF IsStore, EmptyStore
  <2>2. [t \in PktTypeIdx |-> 0] \in [PktTypeIdx -> Nat]
    OBVIOUS
  <2>3. QED
    BY <2>1, <2>2, Zenon DEF Init, TypeOK
<1>2. TypeOK /\ [Next]_vars => TypeOK'
  <2> SUFFICES ASSUME TypeOK, [Next]_vars PROVE TypeOK'
    OBVIOUS
  <2>1. ASSUME NEW l \in Locs, NEW pt \in PktTypes, NEW ns \in Netns,
               NEW fl \in Flows \cup {ParseError}, ProcessPacket(l, pt, ns, fl)
        PROVE  TypeOK'
    <3> DEFINE sym == SymOf[l]
    <3>1. PICK okLoc, okHist, okFlow \in Alloc :
            /\ totalDrops' = totalDrops + 1
            /\ byType' = [byType EXCEPT ![pt % 8] = @ + 1]
            /\ locs' = FindDroplInc(locs, l, okLoc)
            /\ IF sym # NoSym /\ sym.unix
                  THEN totalUnix' = totalUnix + 1 /\ UNCHANGED hist
                  ELSE /\ UNCHANGED totalUnix
                       /\ hist' = IF fl = ParseError THEN hist
                                  ELSE DoHistogram(hist, fl, ns, okHist, okFlow)
      BY <2>1 DEF ProcessPacket
    <3>2. Alloc \subseteq BOOLEAN
      BY DEF Alloc
    <3>3. IsStore(locs', Locs, LocEntry)
      BY <3>1, <3>2, FindDroplIncType DEF TypeOK
    <3>4. IsStore(hist', KeySpace, HistEntry)
      <4>1. CASE sym # NoSym /\ sym.unix
        BY <3>1, <4>1 DEF TypeOK
      <4>2. CASE ~(sym # NoSym /\ sym.unix) /\ fl = ParseError
        BY <3>1, <4>2 DEF TypeOK
      <4>3. CASE ~(sym # NoSym /\ sym.unix) /\ fl # ParseError
        BY <3>1, <3>2, <4>3, DoHistogramType DEF TypeOK
      <4>4. QED
        BY <4>1, <4>2, <4>3
    <3>5. totalUnix' \in Nat
      BY <3>1 DEF TypeOK
    <3>6. byType' \in [PktTypeIdx -> Nat]
      BY <3>1 DEF TypeOK, PktTypeIdx
    <3>7. QED
      BY <2>1, <3>1, <3>3, <3>4, <3>5, <3>6 DEF TypeOK, ProcessPacket
  <2>2. ASSUME NEW l \in Locs, SampleCrash(l) PROVE TypeOK'
    BY <2>2 DEF SampleCrash, TypeOK
  <2>3. ASSUME NEW ns \in Netns, ProcessExit(ns) PROVE TypeOK'
    <3>1. hist[ns] \in HistEntry
      BY <2>3 DEF ProcessExit, TypeOK, IsStore
    <3>2. [hist[ns] EXCEPT !.dead = TRUE] \in HistEntry
      BY <3>1 DEF HistEntry
    <3>3. QED
      BY <2>3, <3>2, UpdateStore DEF ProcessExit, TypeOK
  <2>4. CASE ShowHist
    <3>1. IsStore(locs', Locs, LocEntry)
      BY <2>4, ShowLocEntriesType DEF ShowHist, TypeOK
    <3>2. IsStore([k \in DOMAIN hist |-> ShowHistEntry(hist[k])], KeySpace, HistEntry)
      BY ShowHistEntryType DEF TypeOK, IsStore
    <3>3. IsStore(hist', KeySpace, HistEntry)
      BY <2>4, <3>2, LiveStore DEF ShowHist
    <3>4. QED
      BY <2>4, <3>1, <3>3 DEF ShowHist, TypeOK, PktTypeIdx
  <2>5. CASE SigHandler
    BY <2>5 DEF SigHandler, TypeOK
  <2>6. CASE Complete
    BY <2>6 DEF Complete, TypeOK
  <2>7. CASE UNCHANGED vars
    BY <2>7 DEF vars, TypeOK
  <2>8. QED
    BY <2>1, <2>2, <2>3, <2>4, <2>5, <2>6, <2>7 DEF Next
<1>3. QED
  BY <1>1, <1>2, PTL DEF Spec

-----------------------------------------------------------------------------
(* The aging credit never wraps.                                           *)

\* One hit on an entry whose credit is at most 3 leaves its credit valid.
LEMMA HitCredit ==
    ASSUME NEW c \in Nat, NEW a \in 0..3
    PROVE  CreditOK(c + 1, a)
BY DEF CreditOK

\* The credit an entry keeps through a report when it does not expire.
LEMMA AgeCredit ==
    ASSUME NEW c \in Nat, NEW a \in Credit, CreditOK(c, a), ~Expires(c, a)
    PROVE  CreditOK(0, AgedCredit(c, a))
BY DEF CreditOK, Expires, AgedCredit, Credit

\* A valid credit is at most 3.
LEMMA CreditSmall ==
    ASSUME NEW c \in Nat, NEW a \in Credit, CreditOK(c, a)
    PROVE  a \in 0..3
BY DEF CreditOK, Credit

LEMMA ProcessFlowCredit ==
    ASSUME NEW e \in HistEntry, NEW fl \in Flows, NEW ok \in BOOLEAN,
           \A r \in e.flows : CreditOK(r.hits, r.aging)
    PROVE  \A r \in ProcessFlow(e, fl, ok).flows : CreditOK(r.hits, r.aging)
<1>1. CASE fl \in FlowsOf(e.flows)
  <2> SUFFICES ASSUME NEW q \in ProcessFlow(e, fl, ok).flows
               PROVE  CreditOK(q.hits, q.aging)
    OBVIOUS
  <2>1. PICK r \in e.flows : q = IF r.flow = fl THEN [r EXCEPT !.hits = @ + 1] ELSE r
    BY <1>1 DEF ProcessFlow
  <2>2. r \in FlowEntry /\ CreditOK(r.hits, r.aging)
    BY DEF HistEntry
  <2>3. r.aging \in 0..3
    BY <2>2, CreditSmall DEF FlowEntry
  <2>4. CASE r.flow = fl
    BY <2>1, <2>2, <2>3, <2>4, HitCredit DEF FlowEntry
  <2>5. CASE r.flow # fl
    BY <2>1, <2>2, <2>5
  <2>6. QED
    BY <2>4, <2>5
<1>2. CASE fl \notin FlowsOf(e.flows)
  <2>1. CreditOK(1, 0)
    BY DEF CreditOK
  <2>2. QED
    BY <1>2, <2>1 DEF ProcessFlow
<1>3. QED
  BY <1>1, <1>2

LEMMA HistHitCredit ==
    ASSUME NEW e \in HistEntry, NEW fl \in Flows, NEW ok \in BOOLEAN,
           e.aging \in 0..3, \A r \in e.flows : CreditOK(r.hits, r.aging)
    PROVE  HistCreditOK(HistHit(e, fl, ok))
<1> DEFINE e1 == [e EXCEPT !.total = @ + 1]
<1>1. e1 \in HistEntry /\ e1.aging = e.aging /\ e1.total = e.total + 1 /\ e1.flows = e.flows
  BY DEF HistEntry
<1>2. CreditOK(e1.total, e1.aging)
  BY <1>1, HitCredit DEF HistEntry
<1>3. CASE Mode = "FLOW"
  <2>1. \A r \in ProcessFlow(e1, fl, ok).flows : CreditOK(r.hits, r.aging)
    BY <1>1, ProcessFlowCredit
  <2>2. LET p == ProcessFlow(e1, fl, ok) IN p.total = e1.total /\ p.aging = e1.aging
    BY DEF ProcessFlow
  <2>3. QED
    BY <1>2, <1>3, <2>1, <2>2 DEF HistHit, HistCreditOK
<1>4. CASE Mode # "FLOW"
  BY <1>1, <1>2, <1>4 DEF HistHit, HistCreditOK
<1>5. QED
  BY <1>3, <1>4

LEMMA DoHistogramCredit ==
    ASSUME NEW H, IsStore(H, KeySpace, HistEntry),
           \A k \in DOMAIN H : HistCreditOK(H[k]),
           NEW fl \in Flows, NEW ns \in Netns, NEW okH \in BOOLEAN,
           NEW okF \in BOOLEAN
    PROVE  LET H2 == DoHistogram(H, fl, ns, okH, okF)
           IN  \A k \in DOMAIN H2 : HistCreditOK(H2[k])
<1> DEFINE k == HistKey(fl, ns)
<1>1. CASE k \in DOMAIN H
  <2>1. H[k] \in HistEntry /\ HistCreditOK(H[k])
    BY <1>1 DEF IsStore
  <2>2. H[k].aging \in 0..3
    BY <2>1, CreditSmall DEF HistEntry, HistCreditOK
  <2>3. HistCreditOK(HistHit(H[k], fl, okF))
    BY <2>1, <2>2, HistHitCredit DEF HistCreditOK
  <2>4. k # NoKey
    BY <1>1, KeyAssumption DEF IsStore, KeySpace, HistModes
  <2>5. QED
    BY <1>1, <2>3, <2>4 DEF DoHistogram
<1>2. CASE k \notin DOMAIN H
  <2>1. NewDroph \in HistEntry /\ NewDroph.aging = 0 /\ NewDroph.flows = {}
    BY NewDrophType DEF NewDroph
  <2>2. HistCreditOK(HistHit(NewDroph, fl, okF))
    BY <2>1, HistHitCredit
  <2>3. QED
    BY <1>2, <2>2 DEF DoHistogram, Upsert
<1>3. QED
  BY <1>1, <1>2

\* No entry of either store, nor any flow entry, ever holds a credit that
\* the __u8 decrement of the report would wrap (CreditBounded).
THEOREM CreditInvariant == Spec => []CreditBounded
<1>1. Init => CreditBounded
  BY DEF Init, CreditBounded, EmptyStore
<1>2. TypeOK /\ CreditBounded /\ [Next]_vars => CreditBounded'
  <2> SUFFICES ASSUME TypeOK, CreditBounded, [Next]_vars PROVE CreditBounded'
    OBVIOUS
  <2>1. ASSUME NEW l \in Locs, NEW pt \in PktTypes, NEW ns \in Netns,
               NEW fl \in Flows \cup {ParseError}, ProcessPacket(l, pt, ns, fl)
        PROVE  CreditBounded'
    <3> DEFINE sym == SymOf[l]
    <3>1. PICK okLoc, okHist, okFlow \in Alloc :
            /\ locs' = FindDroplInc(locs, l, okLoc)
            /\ IF sym # NoSym /\ sym.unix
                  THEN UNCHANGED hist
                  ELSE hist' = IF fl = ParseError THEN hist
                               ELSE DoHistogram(hist, fl, ns, okHist, okFlow)
      BY <2>1 DEF ProcessPacket
    <3>2. Alloc \subseteq BOOLEAN
      BY DEF Alloc
    <3>3. \A x \in DOMAIN locs' : CreditOK(locs'[x].total, locs'[x].aging)
      <4> SUFFICES ASSUME NEW x \in DOMAIN locs'
                   PROVE  CreditOK(locs'[x].total, locs'[x].aging)
        OBVIOUS
      <4>1. CASE x = l /\ l \in DOMAIN locs
        <5>1. locs[l] \in LocEntry /\ CreditOK(locs[l].total, locs[l].aging)
          BY <4>1 DEF TypeOK, IsStore, CreditBounded
        <5>2. locs[l].aging \in 0..3
          BY <5>1, CreditSmall DEF LocEntry
        <5>3. locs'[x] = [locs[l] EXCEPT !.total = @ + 1]
          BY <3>1, <4>1 DEF FindDroplInc
        <5>4. QED
          BY <5>1, <5>2, <5>3, HitCredit DEF LocEntry
      <4>2. CASE x = l /\ l \notin DOMAIN locs
        <5>1. locs'[x] = [NewDropl EXCEPT !.total = 1]
          BY <3>1, <4>2 DEF FindDroplInc, Upsert
        <5>2. QED
          BY <5>1 DEF NewDropl, CreditOK
      <4>3. CASE x # l
        <5>1. x \in DOMAIN locs /\ locs'[x] = locs[x]
          BY <3>1, <4>3 DEF FindDroplInc, Upsert
        <5>2. QED
          BY <5>1 DEF CreditBounded
      <4>4. QED
        BY <4>1, <4>2, <4>3
    <3>4. \A k \in DOMAIN hist' : HistCreditOK(hist'[k])
      <4>1. CASE (sym # NoSym /\ sym.unix) \/ fl = ParseError
        BY <3>1, <4>1 DEF CreditBounded
      <4>2. CASE ~(sym # NoSym /\ sym.unix) /\ fl # ParseError
        BY <3>1, <3>2, <4>2, DoHistogramCredit DEF TypeOK, CreditBounded
      <4>3. QED
        BY <4>1, <4>2
    <3>5. QED
      BY <3>3, <3>4 DEF CreditBounded
  <2>2. ASSUME NEW l \in Locs, SampleCrash(l) PROVE CreditBounded'
    BY <2>2 DEF SampleCrash, CreditBounded
  <2>3. ASSUME NEW ns \in Netns, ProcessExit(ns) PROVE CreditBounded'
    <3>1. \A k \in DOMAIN hist' : HistCreditOK(hist'[k])
      BY <2>3 DEF ProcessExit, CreditBounded, HistCreditOK
    <3>2. QED
      BY <2>3, <3>1 DEF ProcessExit, CreditBounded
  <2>4. CASE ShowHist
    <3>1. \A x \in DOMAIN locs' : CreditOK(locs'[x].total, locs'[x].aging)
      <4> SUFFICES ASSUME NEW x \in DOMAIN locs'
                   PROVE  CreditOK(locs'[x].total, locs'[x].aging)
        OBVIOUS
      <4>1. x \in DOMAIN locs /\ locs[x] \in LocEntry
              /\ CreditOK(locs[x].total, locs[x].aging)
        BY <2>4 DEF ShowHist, ShowLocEntries, Live, TypeOK, IsStore, CreditBounded
      <4>2. ~Expires(locs[x].total, locs[x].aging)
        BY <2>4, <4>1 DEF ShowHist, ShowLocEntries, Live
      <4>3. locs'[x].total = 0 /\ locs'[x].aging = AgedCredit(locs[x].total, locs[x].aging)
        BY <2>4, <4>1 DEF ShowHist, ShowLocEntries, Live
      <4>4. QED
        BY <4>1, <4>2, <4>3, AgeCredit DEF LocEntry
    <3>2. \A k \in DOMAIN hist' : HistCreditOK(hist'[k])
      <4> SUFFICES ASSUME NEW k \in DOMAIN hist'
                   PROVE  HistCreditOK(hist'[k])
        OBVIOUS
      <4> DEFINE e == hist[k]
      <4>1. k \in DOMAIN hist /\ e \in HistEntry /\ HistCreditOK(e)
        BY <2>4 DEF ShowHist, Live, TypeOK, IsStore, CreditBounded
      <4>2. hist'[k] = ShowHistEntry(e) /\ ~ShowHistEntry(e).dead
        BY <2>4, <4>1 DEF ShowHist, Live
      <4>3. ~Expires(e.total, e.aging)
        BY <4>1, <4>2 DEF ShowHistEntry, ShowFlowEntry, ShowBucketEntry, HistEntry
      <4>4. CreditOK(0, AgedCredit(e.total, e.aging))
        BY <4>1, <4>3, AgeCredit DEF HistEntry, HistCreditOK
      <4>5. \A r \in AgeFlows(e.flows) : CreditOK(r.hits, r.aging)
        <5> SUFFICES ASSUME NEW q \in AgeFlows(e.flows)
                     PROVE  CreditOK(q.hits, q.aging)
          OBVIOUS
        <5>1. PICK r \in e.flows : ~Expires(r.hits, r.aging)
                /\ q = [r EXCEPT !.hits = 0, !.aging = AgedCredit(r.hits, r.aging)]
          BY DEF AgeFlows
        <5>2. r \in FlowEntry /\ CreditOK(r.hits, r.aging)
          BY <4>1 DEF HistEntry, HistCreditOK
        <5>3. q.hits = 0 /\ q.aging = AgedCredit(r.hits, r.aging)
          BY <5>1, <5>2 DEF FlowEntry
        <5>4. QED
          BY <5>1, <5>2, <5>3, AgeCredit DEF FlowEntry
      <4>6. CASE Mode = "FLOW"
        BY <4>1, <4>2, <4>4, <4>5, <4>6 DEF ShowHistEntry, ShowFlowEntry, HistCreditOK, HistEntry
      <4>7. CASE Mode # "FLOW"
        BY <4>1, <4>2, <4>4, <4>7 DEF ShowHistEntry, ShowBucketEntry, HistCreditOK, HistEntry
      <4>8. QED
        BY <4>6, <4>7
    <3>3. QED
      BY <3>1, <3>2 DEF CreditBounded
  <2>5. CASE SigHandler
    BY <2>5 DEF SigHandler, CreditBounded
  <2>6. CASE Complete
    BY <2>6 DEF Complete, CreditBounded
  <2>7. CASE UNCHANGED vars
    BY <2>7 DEF vars, CreditBounded
  <2>8. QED
    BY <2>1, <2>2, <2>3, <2>4, <2>5, <2>6, <2>7 DEF Next
<1>3. QED
  BY <1>1, <1>2, TypeCorrect, PTL DEF Spec


-----------------------------------------------------------------------------
(* No flow is listed twice in a group.                                     *)

\* A flow list in which every flow has a single entry.
UniqueFlows(F) == \A r1, r2 \in F : r1.flow = r2.flow => r1 = r2

\* The walk of process_flow keeps the list free of repeated flows: a hit
\* only changes the counter of the entry of its flow, and a new entry is
\* added only for a flow that has none.
LEMMA ProcessFlowUnique ==
    ASSUME NEW e \in HistEntry, UniqueFlows(e.flows), NEW fl \in Flows,
           NEW ok \in BOOLEAN
    PROVE  UniqueFlows(ProcessFlow(e, fl, ok).flows)
<1>1. CASE fl \in FlowsOf(e.flows)
  <2> DEFINE f(r) == IF r.flow = fl THEN [r EXCEPT !.hits = @ + 1] ELSE r
  <2>1. ProcessFlow(e, fl, ok).flows = {f(r) : r \in e.flows}
    BY <1>1 DEF ProcessFlow, HistEntry
  <2>2. \A r \in e.flows : f(r).flow = r.flow
    BY DEF HistEntry, FlowEntry
  <2>3. UniqueFlows({f(r) : r \in e.flows})
    <3>1. ASSUME NEW s1 \in {f(r) : r \in e.flows}, NEW s2 \in {f(r) : r \in e.flows},
                 s1.flow = s2.flow
          PROVE  s1 = s2
      <4>1. PICK r1 \in e.flows : s1 = f(r1)
        OBVIOUS
      <4>2. PICK r2 \in e.flows : s2 = f(r2)
        OBVIOUS
      <4>3. r1.flow = r2.flow
        BY <2>2, <3>1, <4>1, <4>2
      <4>4. r1 = r2
        BY <4>3 DEF UniqueFlows
      <4>5. QED
        BY <4>1, <4>2, <4>4
    <3>2. QED
      BY <3>1, Zenon DEF UniqueFlows
  <2>4. QED
    BY <2>1, <2>3
<1>2. CASE fl \notin FlowsOf(e.flows)
  <2> DEFINE n == [flow |-> fl, hits |-> 1, aging |-> 0]
  <2>1. \/ ProcessFlow(e, fl, ok).flows = e.flows
        \/ ProcessFlow(e, fl, ok).flows = e.flows \cup {n}
    BY <1>2 DEF ProcessFlow, HistEntry
  <2>2. \A r \in e.flows : r.flow # n.flow
    BY <1>2 DEF FlowsOf
  <2>3. UniqueFlows(e.flows \cup {n})
    BY <2>2 DEF UniqueFlows
  <2>4. QED
    BY <2>1, <2>3
<1>3. QED
  BY <1>1, <1>2

\* One sample keeps the flow list of its group free of repeated flows.
LEMMA HistHitUnique ==
    ASSUME NEW e \in HistEntry, UniqueFlows(e.flows), NEW fl \in Flows,
           NEW ok \in BOOLEAN
    PROVE  UniqueFlows(HistHit(e, fl, ok).flows)
<1> DEFINE e1 == [e EXCEPT !.total = @ + 1]
<1>1. e1 \in HistEntry /\ e1.flows = e.flows
  BY DEF HistEntry
<1>2. CASE Mode = "FLOW"
  BY <1>1, <1>2, ProcessFlowUnique DEF HistHit
<1>3. CASE Mode # "FLOW"
  BY <1>1, <1>3 DEF HistHit, HistEntry
<1>4. QED
  BY <1>2, <1>3

\* The walk of show_flow_buckets unlinks entries and rewrites counters and
\* credits, never a flow.
LEMMA AgeFlowsUnique ==
    ASSUME NEW F \in SUBSET FlowEntry, UniqueFlows(F)
    PROVE  UniqueFlows(AgeFlows(F))
<1> DEFINE g(r) == [r EXCEPT !.hits = 0, !.aging = AgedCredit(r.hits, r.aging)]
<1>1. AgeFlows(F) = {g(r) : r \in {q \in F : ~Expires(q.hits, q.aging)}}
  BY DEF AgeFlows
<1>2. \A r \in F : g(r).flow = r.flow
  BY DEF FlowEntry
<1>3. SUFFICES ASSUME NEW r1 \in F, NEW r2 \in F, g(r1).flow = g(r2).flow
               PROVE  g(r1) = g(r2)
  BY <1>1, Zenon DEF UniqueFlows
<1>4. r1 = r2
  BY <1>2, <1>3 DEF UniqueFlows
<1>5. QED
  BY <1>4

\* A report keeps the flow list of every group free of repeated flows.
LEMMA ShowHistEntryUnique ==
    ASSUME NEW e \in HistEntry, UniqueFlows(e.flows)
    PROVE  UniqueFlows(ShowHistEntry(e).flows)
<1>1. CASE Mode = "FLOW"
  <2>1. ShowHistEntry(e).flows = AgeFlows(e.flows)
    BY <1>1 DEF ShowHistEntry, ShowFlowEntry, HistEntry
  <2>2. QED
    BY <2>1, AgeFlowsUnique DEF HistEntry
<1>2. CASE Mode # "FLOW"
  BY <1>2 DEF ShowHistEntry, ShowBucketEntry, HistEntry
<1>3. QED
  BY <1>1, <1>2

\* do_histogram keeps every flow list of the store free of repeated flows.
LEMMA DoHistogramUnique ==
    ASSUME NEW H, IsStore(H, KeySpace, HistEntry),
           \A x \in DOMAIN H : UniqueFlows(H[x].flows),
           NEW fl \in Flows, NEW ns \in Netns, NEW okH \in BOOLEAN,
           NEW okF \in BOOLEAN
    PROVE  \A x \in DOMAIN DoHistogram(H, fl, ns, okH, okF) :
              UniqueFlows(DoHistogram(H, fl, ns, okH, okF)[x].flows)
<1> DEFINE k == HistKey(fl, ns)
           N == DoHistogram(H, fl, ns, okH, okF)
<1>1. CASE k \in DOMAIN H
  <2>0. k # NoKey
    BY <1>1, KeyAssumption DEF IsStore, KeySpace, HistModes
  <2>1. N = [H EXCEPT ![k] = HistHit(H[k], fl, okF)]
    BY <1>1, <2>0 DEF DoHistogram
  <2>2. UniqueFlows(HistHit(H[k], fl, okF).flows)
    BY <1>1, HistHitUnique DEF IsStore
  <2>3. QED
    BY <2>1, <2>2
<1>2. CASE k \notin DOMAIN H /\ k # NoKey /\ okH
  <2>1. N = Upsert(H, k, HistHit(NewDroph, fl, okF))
    BY <1>2 DEF DoHistogram
  <2>2. UniqueFlows(NewDroph.flows)
    BY DEF NewDroph, UniqueFlows
  <2>3. UniqueFlows(HistHit(NewDroph, fl, okF).flows)
    BY <2>2, NewDrophType, HistHitUnique
  <2>4. QED
    BY <2>1, <2>3 DEF Upsert
<1>3. CASE k \notin DOMAIN H /\ (k = NoKey \/ ~okH)
  BY <1>3 DEF DoHistogram
<1>4. QED
  BY <1>1, <1>2, <1>3

\* No flow is ever listed twice in a group (FlowsUnique), for every mode
\* and bound: so the walk of process_flow, which stops at the first match,
\* counts each sample in the only entry of its flow.
THEOREM FlowsUniqueInvariant == Spec => []FlowsUnique
<1>1. Init => FlowsUnique
  BY DEF Init, FlowsUnique, EmptyStore
<1>2. TypeOK /\ FlowsUnique /\ [Next]_vars => FlowsUnique'
  <2> SUFFICES ASSUME TypeOK, FlowsUnique, [Next]_vars PROVE FlowsUnique'
    OBVIOUS
  <2>0. /\ IsStore(hist, KeySpace, HistEntry)
        /\ \A x \in DOMAIN hist : UniqueFlows(hist[x].flows)
    BY DEF TypeOK, FlowsUnique, UniqueFlows
  <2>1. ASSUME NEW l \in Locs, NEW pt \in PktTypes, NEW ns \in Netns,
               NEW fl \in Flows \cup {ParseError}, ProcessPacket(l, pt, ns, fl)
        PROVE  FlowsUnique'
    <3>1. PICK okH \in Alloc, okF \in Alloc :
             \/ hist' = hist
             \/ fl # ParseError /\ hist' = DoHistogram(hist, fl, ns, okH, okF)
      BY <2>1, Zenon DEF ProcessPacket
    <3>2. Alloc \subseteq BOOLEAN
      BY DEF Alloc
    <3>3. \A x \in DOMAIN hist' : UniqueFlows(hist'[x].flows)
      BY <2>0, <3>1, <3>2, DoHistogramUnique
    <3>4. QED
      BY <3>3 DEF FlowsUnique, UniqueFlows
  <2>2. ASSUME NEW ns \in Netns, ProcessExit(ns) PROVE FlowsUnique'
    <3>1. ns \in DOMAIN hist /\ hist' = [hist EXCEPT ![ns].dead = TRUE]
      BY <2>2 DEF ProcessExit
    <3>2. hist'[ns].flows = hist[ns].flows
      BY <2>0, <3>1 DEF IsStore, HistEntry
    <3>3. \A x \in DOMAIN hist' : UniqueFlows(hist'[x].flows)
      BY <2>0, <3>1, <3>2
    <3>4. QED
      BY <3>3 DEF FlowsUnique, UniqueFlows
  <2>3. CASE ShowHist
    <3> DEFINE G == [k \in DOMAIN hist |-> ShowHistEntry(hist[k])]
    <3>1. hist' = Live(G)
      BY <2>3 DEF ShowHist
    <3>2. \A x \in DOMAIN G : UniqueFlows(G[x].flows)
      BY <2>0, ShowHistEntryUnique DEF IsStore
    <3>3. \A x \in DOMAIN hist' : UniqueFlows(hist'[x].flows)
      BY <3>1, <3>2 DEF Live
    <3>4. QED
      BY <3>3 DEF FlowsUnique, UniqueFlows
  <2>4. CASE hist' = hist
    BY <2>4 DEF FlowsUnique
  <2>5. QED
    BY <2>1, <2>2, <2>3, <2>4 DEF Next, SampleCrash, SigHandler, Complete, vars
<1>3. QED
  BY <1>1, <1>2, TypeCorrect, PTL DEF Spec

=============================================================================
