------------------------- MODULE PktDropAgingProofs -------------------------
(***************************************************************************)
(* Proofs that both stores of pktdrop implement the abstract aging store   *)
(* AgingStore, for every value of the constants: the location store       *)
(* (find_dropl, show_loc_entries) and the histogram store (do_histogram,   *)
(* process_exit, show_hist_buckets / show_flow_buckets with                *)
(* cleanup_hist_buckets).  The lemmas of the first part hold for any store *)
(* whose entries carry total, aging and dead, and serve both.              *)
(***************************************************************************)
EXTENDS PktDropReportProofs

-----------------------------------------------------------------------------
(* The refinement mapping on a whole store, and the abstract steps.        *)

\* The abstract store of a concrete store, as LocAging and HistAging define it.
AbsOf(M) == [x \in DOMAIN M |-> AgingView(M[x])]

\* The abstract store after a Hit at k, after a Kill of k, and after a
\* Report, as functions of the abstract store before.
AbsHit(S, k) == [x \in DOMAIN S \cup {k} |->
                   IF x # k THEN S[x]
                   ELSE IF k \in DOMAIN S THEN [S[k] EXCEPT !.count = @ + 1]
                        ELSE [count |-> 1, idle |-> 0, dead |-> FALSE]]

AbsKill(S, k) == [S EXCEPT ![k].dead = TRUE]

AbsReport(S) == [x \in {y \in DOMAIN S : LocAging!Survives(S[y])} |->
                   [count |-> 0,
                    idle  |-> IF S[x].count > 0 THEN 0 ELSE S[x].idle + 1,
                    dead  |-> FALSE]]

\* Every entry of a store has a counter, a valid __u8 credit and a flag.
AgingOK(M) ==
    \A x \in DOMAIN M : /\ M[x].total \in Nat
                        /\ M[x].aging \in Credit
                        /\ M[x].dead \in BOOLEAN
                        /\ CreditOK(M[x].total, M[x].aging)

-----------------------------------------------------------------------------
(* Lemmas on one entry and on a whole store.                               *)

\* The aging step of one entry, seen abstractly: with a valid credit, the
\* credit does not run out exactly when the abstract entry has fewer than
\* IdleLimit idle reports after this one, and its new credit stands for a
\* new idle run or one more idle report.
LEMMA AgingStep ==
    ASSUME NEW c \in Nat, NEW a \in Credit, CreditOK(c, a)
    PROVE  /\ ~Expires(c, a) <=> (c > 0 \/ IdleOf(a) + 1 < LocAging!IdleLimit)
           /\ ~Expires(c, a) =>
                 IdleOf(AgedCredit(c, a)) = IF c > 0 THEN 0 ELSE IdleOf(a) + 1
BY DEF CreditOK, Credit, Expires, AgedCredit, IdleOf, LocAging!IdleLimit

\* A drop counted in a present entry is a Hit of the abstract store.
LEMMA ViewHitPresent ==
    ASSUME NEW M, NEW N, NEW k \in DOMAIN M,
           DOMAIN N = DOMAIN M,
           \A x \in DOMAIN M \ {k} : N[x] = M[x],
           N[k].total = M[k].total + 1, N[k].aging = M[k].aging, N[k].dead = M[k].dead
    PROVE  AbsOf(N) = AbsHit(AbsOf(M), k)
<1>1. DOMAIN AbsOf(N) = DOMAIN AbsHit(AbsOf(M), k)
  BY DEF AbsOf, AbsHit
<1>2. ASSUME NEW x \in DOMAIN M \ {k}
      PROVE  AbsOf(N)[x] = AbsHit(AbsOf(M), k)[x]
  BY DEF AbsOf, AbsHit
<1>3. AbsOf(N)[k] = [count |-> M[k].total + 1, idle |-> IdleOf(M[k].aging),
                     dead |-> M[k].dead]
  BY DEF AbsOf, AgingView
<1>4. AbsHit(AbsOf(M), k)[k] = [count |-> M[k].total + 1,
                                idle |-> IdleOf(M[k].aging), dead |-> M[k].dead]
  BY DEF AbsOf, AbsHit, AgingView
<1>5. QED
  BY <1>1, <1>2, <1>3, <1>4 DEF AbsOf, AbsHit

\* A drop that creates its entry (total 1, credit 0, no mark) is a Hit of
\* the abstract store.
LEMMA ViewHitNew ==
    ASSUME NEW M, NEW N, NEW k, k \notin DOMAIN M,
           DOMAIN N = DOMAIN M \cup {k},
           \A x \in DOMAIN M : N[x] = M[x],
           N[k].total = 1, N[k].aging = 0, N[k].dead = FALSE
    PROVE  AbsOf(N) = AbsHit(AbsOf(M), k)
<1>1. DOMAIN AbsOf(N) = DOMAIN AbsHit(AbsOf(M), k)
  BY DEF AbsOf, AbsHit
<1>2. ASSUME NEW x \in DOMAIN M
      PROVE  AbsOf(N)[x] = AbsHit(AbsOf(M), k)[x]
  BY DEF AbsOf, AbsHit
<1>3. AbsOf(N)[k] = [count |-> 1, idle |-> 0, dead |-> FALSE]
  BY DEF AbsOf, AgingView, IdleOf
<1>4. AbsHit(AbsOf(M), k)[k] = [count |-> 1, idle |-> 0, dead |-> FALSE]
  BY DEF AbsOf, AbsHit
<1>5. QED
  BY <1>1, <1>2, <1>3, <1>4 DEF AbsOf, AbsHit

\* Marking a present entry dead is a Kill of the abstract store.
LEMMA ViewKill ==
    ASSUME NEW M, NEW N, NEW k \in DOMAIN M,
           DOMAIN N = DOMAIN M,
           \A x \in DOMAIN M \ {k} : N[x] = M[x],
           N[k].total = M[k].total, N[k].aging = M[k].aging, N[k].dead = TRUE
    PROVE  AbsOf(N) = AbsKill(AbsOf(M), k)
<1>1. AbsOf(N)[k] = [count |-> M[k].total, idle |-> IdleOf(M[k].aging), dead |-> TRUE]
  BY DEF AbsOf, AgingView
<1>2. AbsKill(AbsOf(M), k)[k]
        = [count |-> M[k].total, idle |-> IdleOf(M[k].aging), dead |-> TRUE]
  BY DEF AbsOf, AbsKill, AgingView
<1>3. QED
  BY <1>1, <1>2 DEF AbsOf, AbsKill


\* A report that zeroes every counter, ages every credit, marks the entries
\* whose credit runs out, and then removes the marked entries (Live) is a
\* Report of the abstract store.
LEMMA ViewReport ==
    ASSUME NEW M, NEW G, AgingOK(M),
           DOMAIN G = DOMAIN M,
           \A x \in DOMAIN M :
              /\ G[x].total = 0
              /\ G[x].aging = AgedCredit(M[x].total, M[x].aging)
              /\ G[x].dead = (M[x].dead \/ Expires(M[x].total, M[x].aging))
    PROVE  AbsOf(Live(G)) = AbsReport(AbsOf(M))
<1> DEFINE Keep == {y \in DOMAIN M : ~M[y].dead /\ ~Expires(M[y].total, M[y].aging)}
<1>1. ASSUME NEW y \in DOMAIN M
      PROVE  /\ M[y].total \in Nat /\ M[y].aging \in Credit /\ M[y].dead \in BOOLEAN
             /\ CreditOK(M[y].total, M[y].aging)
  BY DEF AgingOK
<1>2. ASSUME NEW y \in DOMAIN M
      PROVE  ~G[y].dead <=> (~M[y].dead /\ ~Expires(M[y].total, M[y].aging))
  <2>1. G[y].dead = (M[y].dead \/ Expires(M[y].total, M[y].aging))
    OBVIOUS
  <2>2. QED
    BY <2>1, Zenon
<1>3. DOMAIN Live(G) = Keep
  <2>1. DOMAIN Live(G) = {y \in DOMAIN G : ~G[y].dead}
    BY DEF Live
  <2>2. QED
    BY <1>2, <2>1, Zenon
<1>4. ASSUME NEW y \in DOMAIN M
      PROVE  LocAging!Survives(AbsOf(M)[y])
               <=> (~M[y].dead /\ ~Expires(M[y].total, M[y].aging))
  <2>1. AbsOf(M)[y] = [count |-> M[y].total, idle |-> IdleOf(M[y].aging),
                       dead |-> M[y].dead]
    BY DEF AbsOf, AgingView
  <2>2. /\ AbsOf(M)[y].dead = M[y].dead
        /\ AbsOf(M)[y].count = M[y].total
        /\ AbsOf(M)[y].idle = IdleOf(M[y].aging)
    BY <2>1
  <2>3. LocAging!Survives(AbsOf(M)[y])
          <=> (~M[y].dead /\ (M[y].total > 0 \/ IdleOf(M[y].aging) + 1 < LocAging!IdleLimit))
    BY <2>2, Zenon DEF LocAging!Survives
  <2>4. QED
    BY <1>1, <2>3, AgingStep
<1>5. Keep = {y \in DOMAIN AbsOf(M) : LocAging!Survives(AbsOf(M)[y])}
  <2>1. DOMAIN AbsOf(M) = DOMAIN M
    BY DEF AbsOf
  <2>2. QED
    BY <1>4, <2>1, Zenon
<1>6. ASSUME NEW y \in Keep
      PROVE  AbsOf(Live(G))[y] = AbsReport(AbsOf(M))[y]
  <2>1. /\ y \in DOMAIN M /\ ~Expires(M[y].total, M[y].aging)
        /\ M[y].total \in Nat /\ M[y].aging \in Credit
        /\ CreditOK(M[y].total, M[y].aging)
    BY <1>1
  <2>2. Live(G)[y] = G[y] /\ G[y].dead = FALSE
    <3>1. y \in DOMAIN Live(G)
      BY <1>3
    <3>2. Live(G)[y] = G[y] /\ ~G[y].dead
      BY <3>1 DEF Live
    <3>3. G[y].dead \in BOOLEAN
      BY <1>1, <2>1
    <3>4. QED
      BY <3>2, <3>3
  <2>3. AbsOf(Live(G))[y] = [count |-> 0,
                             idle |-> IdleOf(AgedCredit(M[y].total, M[y].aging)),
                             dead |-> FALSE]
    BY <1>3, <2>1, <2>2 DEF AbsOf, AgingView
  <2>4. IdleOf(AgedCredit(M[y].total, M[y].aging))
          = IF M[y].total > 0 THEN 0 ELSE IdleOf(M[y].aging) + 1
    BY <2>1, AgingStep, Zenon
  <2>5. AbsReport(AbsOf(M))[y]
          = [count |-> 0,
             idle |-> IF M[y].total > 0 THEN 0 ELSE IdleOf(M[y].aging) + 1,
             dead |-> FALSE]
    BY <1>5, <2>1 DEF AbsReport, AbsOf, AgingView
  <2>6. QED
    BY <2>3, <2>4, <2>5
<1>7. DOMAIN AbsOf(Live(G)) = Keep /\ DOMAIN AbsReport(AbsOf(M)) = Keep
  BY <1>3, <1>5 DEF AbsOf, AbsReport
<1>8. QED
  BY <1>6, <1>7 DEF AbsOf, AbsReport


-----------------------------------------------------------------------------
(* The location store.                                                     *)

\* The entries of a typed location store with valid credits.
LEMMA LocsAgingOK ==
    ASSUME TypeOK, CreditBounded
    PROVE  AgingOK(locs)
BY DEF TypeOK, IsStore, LocEntry, CreditBounded, AgingOK

\* A drop counted by find_dropl is a Hit of the abstract store, or nothing
\* when the entry could not be allocated.
LEMMA FindDroplIncView ==
    ASSUME NEW L, IsStore(L, Locs, LocEntry), NEW l \in Locs, NEW ok \in BOOLEAN
    PROVE  \/ AbsOf(FindDroplInc(L, l, ok)) = AbsHit(AbsOf(L), l)
           \/ AbsOf(FindDroplInc(L, l, ok)) = AbsOf(L)
<1> DEFINE N == FindDroplInc(L, l, ok)
<1>1. CASE l \in DOMAIN L
  <2>1. N = [L EXCEPT ![l].total = @ + 1]
    BY <1>1 DEF FindDroplInc
  <2>2. L[l] \in LocEntry
    BY <1>1 DEF IsStore
  <2>3. /\ DOMAIN N = DOMAIN L
        /\ \A x \in DOMAIN L \ {l} : N[x] = L[x]
        /\ N[l].total = L[l].total + 1 /\ N[l].aging = L[l].aging
        /\ N[l].dead = L[l].dead
    BY <1>1, <2>1, <2>2 DEF LocEntry
  <2>4. QED
    BY <1>1, <2>3, ViewHitPresent
<1>2. CASE l \notin DOMAIN L /\ ok
  <2> DEFINE V == [NewDropl EXCEPT !.total = 1]
  <2>1. N = Upsert(L, l, V)
    BY <1>2 DEF FindDroplInc
  <2>2. V.total = 1 /\ V.aging = 0 /\ V.dead = FALSE
    BY DEF NewDropl
  <2>3. /\ DOMAIN Upsert(L, l, V) = DOMAIN L \cup {l}
        /\ Upsert(L, l, V)[l] = V
        /\ \A x \in DOMAIN L : Upsert(L, l, V)[x] = L[x]
    BY <1>2 DEF Upsert
  <2>4. /\ DOMAIN N = DOMAIN L \cup {l}
        /\ \A x \in DOMAIN L : N[x] = L[x]
        /\ N[l].total = 1 /\ N[l].aging = 0 /\ N[l].dead = FALSE
    BY <2>1, <2>2, <2>3, Zenon
  <2>5. QED
    BY <1>2, <2>4, ViewHitNew
<1>3. CASE l \notin DOMAIN L /\ ~ok
  BY <1>3 DEF FindDroplInc
<1>4. QED
  BY <1>1, <1>2, <1>3

\* show_loc_entries is a Report of the abstract store.
LEMMA ShowLocEntriesView ==
    ASSUME NEW L, AgingOK(L)
    PROVE  AbsOf(ShowLocEntries(L)) = AbsReport(AbsOf(L))
<1> DEFINE G == [l \in DOMAIN L |->
                   [total |-> 0,
                    aging |-> AgedCredit(L[l].total, L[l].aging),
                    dead  |-> L[l].dead \/ Expires(L[l].total, L[l].aging)]]
<1>1. ShowLocEntries(L) = Live(G)
  BY DEF ShowLocEntries
<1>2. \A x \in DOMAIN L :
         /\ G[x].total = 0
         /\ G[x].aging = AgedCredit(L[x].total, L[x].aging)
         /\ G[x].dead = (L[x].dead \/ Expires(L[x].total, L[x].aging))
  OBVIOUS
<1>3. QED
  BY <1>1, <1>2, ViewReport

\* The drop-location store implements the abstract aging store
\* (LocAgingRefined): every drop counts in its location's entry, and an
\* entry is evicted exactly by the third consecutive report without drops.
THEOREM LocAgingRefinement == Spec => LocAgingRefined
<1>1. Init => LocAging!Init
  BY DEF Init, EmptyStore, LocAging!Init
<1>2. TypeOK /\ CreditBounded /\ [Next]_vars => [LocAging!Next]_LocAging!vars
  <2> SUFFICES ASSUME TypeOK, CreditBounded, [Next]_vars
               PROVE  [LocAging!Next]_(AbsOf(locs))
    BY DEF LocAging!vars, AbsOf
  <2>1. ASSUME NEW l \in Locs, NEW pt \in PktTypes, NEW ns \in Netns,
               NEW fl \in Flows \cup {ParseError}, ProcessPacket(l, pt, ns, fl)
        PROVE  [LocAging!Next]_(AbsOf(locs))
    <3>1. PICK ok \in Alloc : locs' = FindDroplInc(locs, l, ok)
      BY <2>1 DEF ProcessPacket
    <3>2. Alloc \subseteq BOOLEAN /\ IsStore(locs, Locs, LocEntry)
      BY Zenon DEF Alloc, TypeOK
    <3>3. AbsOf(locs') = AbsHit(AbsOf(locs), l) \/ AbsOf(locs') = AbsOf(locs)
      BY <3>1, <3>2, FindDroplIncView
    <3>4. LocAging!Hit(l) <=> AbsOf(locs') = AbsHit(AbsOf(locs), l)
      BY Zenon DEF LocAging!Hit, AbsHit, AbsOf
    <3>5. QED
      BY <3>3, <3>4, Zenon DEF LocAging!Next
  <2>2. CASE ShowHist
    <3>1. AbsOf(locs') = AbsReport(AbsOf(locs))
      BY <2>2, LocsAgingOK, ShowLocEntriesView DEF ShowHist
    <3>2. LocAging!Report <=> AbsOf(locs') = AbsReport(AbsOf(locs))
      BY Zenon DEF LocAging!Report, AbsReport, AbsOf
    <3>3. QED
      BY <3>1, <3>2 DEF LocAging!Next
  <2>3. CASE locs' = locs
    BY <2>3 DEF AbsOf
  <2>4. QED
    BY <2>1, <2>2, <2>3 DEF Next, SampleCrash, ProcessExit, SigHandler, Complete, vars
<1>3. QED
  BY <1>1, <1>2, TypeCorrect, CreditInvariant, PTL
     DEF Spec, LocAgingRefined, LocAging!Spec


-----------------------------------------------------------------------------
(* The histogram store.                                                    *)

\* The entries of a typed histogram store with valid credits.
LEMMA HistAgingOK ==
    ASSUME TypeOK, CreditBounded
    PROVE  AgingOK(hist)
BY DEF TypeOK, IsStore, HistEntry, CreditBounded, HistCreditOK, AgingOK

\* NoKey is not a key of any mode.
LEMMA NoKeyOutside == NoKey \notin KeySpace
BY ModeAssumption, KeyAssumption DEF KeySpace, HistModes

\* process_flow only touches the flow list and the warning flags.
LEMMA ProcessFlowView ==
    ASSUME NEW e \in HistEntry, NEW fl \in Flows, NEW ok \in BOOLEAN
    PROVE  /\ ProcessFlow(e, fl, ok).total = e.total
           /\ ProcessFlow(e, fl, ok).aging = e.aging
           /\ ProcessFlow(e, fl, ok).dead = e.dead
BY DEF ProcessFlow, HistEntry

\* One sample in do_histogram counts one drop in the entry and leaves its
\* credit and its mark alone.
LEMMA HistHitView ==
    ASSUME NEW e \in HistEntry, NEW fl \in Flows, NEW ok \in BOOLEAN
    PROVE  /\ HistHit(e, fl, ok).total = e.total + 1
           /\ HistHit(e, fl, ok).aging = e.aging
           /\ HistHit(e, fl, ok).dead = e.dead
<1> DEFINE e1 == [e EXCEPT !.total = @ + 1]
<1>1. e1 \in HistEntry /\ e1.total = e.total + 1 /\ e1.aging = e.aging /\ e1.dead = e.dead
  BY DEF HistEntry
<1>2. CASE Mode = "FLOW"
  BY <1>1, <1>2, ProcessFlowView DEF HistHit
<1>3. CASE Mode # "FLOW"
  BY <1>1, <1>3 DEF HistHit, HistEntry
<1>4. QED
  BY <1>2, <1>3

\* do_histogram is a Hit of the abstract store at a key of the mode's key
\* space, or nothing (no key, or the entry could not be allocated).
LEMMA DoHistogramView ==
    ASSUME NEW H, IsStore(H, KeySpace, HistEntry),
           NEW fl \in Flows, NEW ns \in Netns, NEW okH \in BOOLEAN,
           NEW okF \in BOOLEAN
    PROVE  \/ AbsOf(DoHistogram(H, fl, ns, okH, okF)) = AbsOf(H)
           \/ \E k \in KeySpace :
                 AbsOf(DoHistogram(H, fl, ns, okH, okF)) = AbsHit(AbsOf(H), k)
<1> DEFINE k == HistKey(fl, ns)
           N == DoHistogram(H, fl, ns, okH, okF)
<1>1. k \in KeySpace \cup {NoKey}
  BY HistKeyType
<1>2. CASE k \in DOMAIN H
  <2>1. k # NoKey /\ k \in KeySpace /\ H[k] \in HistEntry
    BY <1>2, NoKeyOutside DEF IsStore
  <2>2. N = [H EXCEPT ![k] = HistHit(H[k], fl, okF)]
    BY <1>2, <2>1 DEF DoHistogram
  <2>3. /\ DOMAIN N = DOMAIN H
        /\ \A x \in DOMAIN H \ {k} : N[x] = H[x]
        /\ N[k] = HistHit(H[k], fl, okF)
    BY <1>2, <2>2
  <2>4. /\ N[k].total = H[k].total + 1
        /\ N[k].aging = H[k].aging
        /\ N[k].dead = H[k].dead
    BY <2>1, <2>3, HistHitView
  <2>5. AbsOf(N) = AbsHit(AbsOf(H), k)
    BY <1>2, <2>3, <2>4, ViewHitPresent
  <2>6. QED
    BY <2>1, <2>5
<1>3. CASE k \notin DOMAIN H /\ k \in KeySpace /\ okH
  <2> DEFINE V == HistHit(NewDroph, fl, okF)
  <2>1. k # NoKey
    BY <1>3, NoKeyOutside
  <2>2. N = Upsert(H, k, V)
    BY <1>3, <2>1 DEF DoHistogram
  <2>3. /\ DOMAIN Upsert(H, k, V) = DOMAIN H \cup {k}
        /\ Upsert(H, k, V)[k] = V
        /\ \A x \in DOMAIN H : Upsert(H, k, V)[x] = H[x]
    BY <1>3 DEF Upsert
  <2>4. V.total = 1 /\ V.aging = 0 /\ V.dead = FALSE
    <3>1. NewDroph.total = 0 /\ NewDroph.aging = 0 /\ NewDroph.dead = FALSE
      BY DEF NewDroph
    <3>2. QED
      BY <3>1, NewDrophType, HistHitView
  <2>5. /\ DOMAIN N = DOMAIN H \cup {k}
        /\ \A x \in DOMAIN H : N[x] = H[x]
        /\ N[k].total = 1 /\ N[k].aging = 0 /\ N[k].dead = FALSE
    BY <2>2, <2>3, <2>4, Zenon
  <2>6. AbsOf(N) = AbsHit(AbsOf(H), k)
    <3> HIDE DEF N, k
    <3> QED
      BY <1>3, <2>5, ViewHitNew
  <2>7. QED
    BY <1>3, <2>6
<1>4. CASE k \notin DOMAIN H /\ k \in KeySpace /\ ~okH
  <2>1. k # NoKey
    BY <1>4, NoKeyOutside
  <2>2. QED
    BY <1>4, <2>1 DEF DoHistogram
<1>5. CASE k = NoKey
  BY <1>5 DEF DoHistogram
<1>6. QED
  BY <1>1, <1>2, <1>3, <1>4, <1>5


\* One group after show_hist_buckets or show_flow_buckets: its counter
\* zeroed, its credit aged, and marked when it was marked or its credit
\* ran out.
LEMMA ShowHistEntryView ==
    ASSUME NEW e \in HistEntry
    PROVE  /\ ShowHistEntry(e).total = 0
           /\ ShowHistEntry(e).aging = AgedCredit(e.total, e.aging)
           /\ ShowHistEntry(e).dead = (e.dead \/ Expires(e.total, e.aging))
<1>1. ShowHistEntry(e).total = 0 /\ ShowHistEntry(e).aging = AgedCredit(e.total, e.aging)
  BY DEF ShowHistEntry, ShowFlowEntry, ShowBucketEntry, HistEntry
<1>2. QED
  BY <1>1, ShowHistEntryDead

\* show_hist followed by cleanup_hist_buckets is a Report of the abstract
\* store.
LEMMA ShowHistView ==
    ASSUME NEW H, IsStore(H, KeySpace, HistEntry), AgingOK(H)
    PROVE  AbsOf(Live([k \in DOMAIN H |-> ShowHistEntry(H[k])])) = AbsReport(AbsOf(H))
<1> DEFINE G == [k \in DOMAIN H |-> ShowHistEntry(H[k])]
<1>1. \A x \in DOMAIN H :
         /\ G[x].total = 0
         /\ G[x].aging = AgedCredit(H[x].total, H[x].aging)
         /\ G[x].dead = (H[x].dead \/ Expires(H[x].total, H[x].aging))
  BY ShowHistEntryView DEF IsStore
<1>2. QED
  BY <1>1, ViewReport

\* The histogram store implements the abstract aging store
\* (HistAgingRefined): every drop do_histogram keys counts in its group,
\* process_exit marks a group, and a report evicts a group at the first
\* report after its mark or at the third consecutive one without drops.
THEOREM HistAgingRefinement == Spec => HistAgingRefined
<1>1. Init => HistAging!Init
  BY DEF Init, EmptyStore, HistAging!Init
<1>2. TypeOK /\ CreditBounded /\ [Next]_vars => [HistAging!Next]_HistAging!vars
  <2> SUFFICES ASSUME TypeOK, CreditBounded, [Next]_vars
               PROVE  [HistAging!Next]_(AbsOf(hist))
    BY DEF HistAging!vars, AbsOf
  <2>0. IsStore(hist, KeySpace, HistEntry)
    BY DEF TypeOK
  <2>1. ASSUME NEW l \in Locs, NEW pt \in PktTypes, NEW ns \in Netns,
               NEW fl \in Flows \cup {ParseError}, ProcessPacket(l, pt, ns, fl)
        PROVE  [HistAging!Next]_(AbsOf(hist))
    <3>1. PICK okH \in Alloc, okF \in Alloc :
             \/ hist' = hist
             \/ fl # ParseError /\ hist' = DoHistogram(hist, fl, ns, okH, okF)
      BY <2>1, Zenon DEF ProcessPacket
    <3>2. Alloc \subseteq BOOLEAN
      BY FlagAssumption, Zenon DEF Alloc
    <3>3. CASE hist' = hist
      BY <3>3 DEF AbsOf
    <3>4. CASE fl # ParseError /\ hist' = DoHistogram(hist, fl, ns, okH, okF)
      <4>1. \/ AbsOf(hist') = AbsOf(hist)
            \/ \E k \in KeySpace : AbsOf(hist') = AbsHit(AbsOf(hist), k)
        BY <2>0, <3>2, <3>4, DoHistogramView
      <4>2. ASSUME NEW k \in KeySpace
            PROVE  HistAging!Hit(k) <=> AbsOf(hist') = AbsHit(AbsOf(hist), k)
        BY Zenon DEF HistAging!Hit, AbsHit, AbsOf
      <4>3. QED
        BY <4>1, <4>2, Zenon DEF HistAging!Next
    <3>5. QED
      BY <3>1, <3>3, <3>4
  <2>2. ASSUME NEW ns \in Netns, ProcessExit(ns)
        PROVE  [HistAging!Next]_(AbsOf(hist))
    <3>1. ns \in DOMAIN hist /\ hist' = [hist EXCEPT ![ns].dead = TRUE]
      BY <2>2 DEF ProcessExit
    <3>2. ns \in KeySpace /\ hist[ns] \in HistEntry
      BY <2>0, <3>1 DEF IsStore
    <3>3. /\ DOMAIN hist' = DOMAIN hist
          /\ \A x \in DOMAIN hist \ {ns} : hist'[x] = hist[x]
          /\ hist'[ns].total = hist[ns].total /\ hist'[ns].aging = hist[ns].aging
          /\ hist'[ns].dead = TRUE
      BY <3>1, <3>2 DEF HistEntry
    <3>4. AbsOf(hist') = AbsKill(AbsOf(hist), ns)
      <4>1. ns \in DOMAIN hist
        BY <3>1
      <4>2. QED
        BY <4>1, <3>3, ViewKill
    <3>5. HistAging!Kill(ns) <=> (ns \in DOMAIN AbsOf(hist)
                                 /\ AbsOf(hist') = AbsKill(AbsOf(hist), ns))
      BY Zenon DEF HistAging!Kill, AbsKill, AbsOf
    <3>6. ns \in DOMAIN AbsOf(hist)
      BY <3>1 DEF AbsOf
    <3>7. QED
      BY <3>2, <3>4, <3>5, <3>6, Zenon DEF HistAging!Next
  <2>3. CASE ShowHist
    <3>1. AbsOf(hist') = AbsReport(AbsOf(hist))
      BY <2>0, <2>3, HistAgingOK, ShowHistView DEF ShowHist
    <3>2. HistAging!Report <=> AbsOf(hist') = AbsReport(AbsOf(hist))
      BY Zenon DEF HistAging!Report, HistAging!Survives, LocAging!Survives,
                   HistAging!IdleLimit, LocAging!IdleLimit, AbsReport, AbsOf
    <3>3. QED
      BY <3>1, <3>2 DEF HistAging!Next
  <2>4. CASE hist' = hist
    BY <2>4 DEF AbsOf
  <2>5. QED
    BY <2>1, <2>2, <2>3, <2>4 DEF Next, SampleCrash, SigHandler, Complete, vars
<1>3. QED
  BY <1>1, <1>2, TypeCorrect, CreditInvariant, PTL
     DEF Spec, HistAgingRefined, HistAging!Spec

=============================================================================
