---------------------------- MODULE NetRxProofs ----------------------------
(***************************************************************************)
(* Proofs about the net_rx_action loop: it is type-correct, and it         *)
(* implements the abstract monitor NetRxReport for every number of         *)
(* buckets, every counter width and every bound on the events between two  *)
(* reads.                                                                  *)
(***************************************************************************)
EXTENDS NetRxAction, TLAPS

-----------------------------------------------------------------------------
(* Arithmetic modulo Wrap.                                                  *)

\* Reducing a value that lies in the (k+1)-th block of Wrap values
\* subtracts k times Wrap.
LEMMA ModRange ==
    ASSUME NEW x \in Int, NEW k \in 0 .. 3, x >= k * Wrap, x < (k + 1) * Wrap
    PROVE  x % Wrap = x - k * Wrap
<1>1. CASE k = 0
  BY <1>1, WrapAssumption, SMT
<1>2. CASE k = 1
  BY <1>2, WrapAssumption, SMT
<1>3. CASE k = 2
  BY <1>3, WrapAssumption, SMT
<1>4. CASE k = 3
  BY <1>4, WrapAssumption, SMT
<1>5. QED
  BY <1>1, <1>2, <1>3, <1>4

\* Adding to a reduced value and reducing again is adding and reducing once,
\* for the sums the loop can reach (below three times the modulus).
LEMMA ModAdd ==
    ASSUME NEW x \in 0 .. 3 * Wrap - 1, NEW u \in 0 .. Wrap - 1
    PROVE  ((x % Wrap) + u) % Wrap = (x + u) % Wrap
<1> DEFINE q == x \div Wrap
<1>1. q \in 0 .. 2 /\ x >= q * Wrap /\ x < (q + 1) * Wrap
  BY WrapAssumption, SMT
<1>2. x % Wrap = x - q * Wrap
  BY <1>1, WrapAssumption, ModRange
<1>3. ((x % Wrap) + u) % Wrap = (x - q * Wrap + u) % Wrap
  BY <1>2
<1>4. CASE x - q * Wrap + u < Wrap
  <2>1. (x - q * Wrap + u) % Wrap = (x - q * Wrap + u) - 0 * Wrap
    <3>1. x - q * Wrap + u \in Int /\ x - q * Wrap + u >= 0 * Wrap
          /\ x - q * Wrap + u < (0 + 1) * Wrap
      BY <1>1, <1>4, WrapAssumption, SMT
    <3>2. QED
      BY <3>1, WrapAssumption, ModRange
  <2>2. (x + u) % Wrap = (x + u) - q * Wrap
    <3>1. x + u \in Int /\ q \in 0 .. 3 /\ x + u >= q * Wrap /\ x + u < (q + 1) * Wrap
      BY <1>1, <1>4, WrapAssumption, SMT
    <3>2. QED
      BY <3>1, WrapAssumption, ModRange, Zenon
  <2>3. QED
    BY <1>1, <1>2, <2>1, <2>2, WrapAssumption, SMT
<1>5. CASE x - q * Wrap + u >= Wrap
  <2>1. (x - q * Wrap + u) % Wrap = (x - q * Wrap + u) - 1 * Wrap
    <3>1. x - q * Wrap + u \in Int /\ x - q * Wrap + u >= 1 * Wrap
          /\ x - q * Wrap + u < (1 + 1) * Wrap
      BY <1>1, <1>5, WrapAssumption, SMT
    <3>2. QED
      BY <3>1, WrapAssumption, ModRange
  <2>2. (x + u) % Wrap = (x + u) - (q + 1) * Wrap
    <3>1. x + u \in Int /\ q + 1 \in 0 .. 3 /\ x + u >= (q + 1) * Wrap
          /\ x + u < ((q + 1) + 1) * Wrap
      BY <1>1, <1>5, WrapAssumption, SMT
    <3>2. QED
      BY <3>1, WrapAssumption, ModRange
  <2>3. (q + 1) * Wrap = q * Wrap + Wrap
    BY <1>1, WrapAssumption, SMT
  <2>4. QED
    BY <1>1, <1>3, <2>1, <2>2, <2>3, WrapAssumption, SMT
<1>6. QED
  BY <1>1, <1>4, <1>5, WrapAssumption, SMT

\* The u64 difference of a counter advanced by s from its old value p is s,
\* as long as s is below the modulus.
LEMMA ModDiff ==
    ASSUME NEW p \in 0 .. Wrap - 1, NEW s \in 0 .. Wrap - 1
    PROVE  (((p + s) % Wrap) - p) % Wrap = s
<1>1. CASE p + s < Wrap
  <2>1. (p + s) % Wrap = p + s
    BY <1>1, WrapAssumption, SMT
  <2>2. QED
    BY <2>1, WrapAssumption, SMT
<1>2. CASE p + s >= Wrap
  <2>1. (p + s) % Wrap = p + s - Wrap
    BY <1>2, WrapAssumption, SMT
  <2>2. (s - Wrap) % Wrap = s
    BY WrapAssumption, SMT
  <2>3. QED
    BY <2>1, <2>2, WrapAssumption, SMT
<1>3. QED
  BY <1>1, <1>2, WrapAssumption, SMT

\* A reduced value is a counter value.
LEMMA ModCounter ==
    ASSUME NEW x \in Int
    PROVE  x % Wrap \in 0 .. Wrap - 1
BY WrapAssumption, SMT

-----------------------------------------------------------------------------
(* The inductive invariant                                                  *)

USE BktsAssumption, WrapAssumption, UnreadAssumption, FailAssumption

\* For one bucket: the kernel counter is the old copy advanced by the
\* events copied and not printed and the events not copied yet; a copied
\* bucket holds the old copy advanced by the copied events; a bucket not
\* copied in this read holds no unprinted events.
BucketInv(b) ==
    /\ kmap[b] = (prev[b] + shown[b] + unread[b]) % Wrap
    /\ b \in copied => val[b] = (prev[b] + shown[b]) % Wrap
    /\ b \notin copied => shown[b] = 0

\* Nothing is held as copied outside a read, and a dump follows a full copy.
Inv ==
    /\ TypeOK
    /\ \A b \in Bkts : BucketInv(b)
    /\ pc = "dump" => copied = Bkts
    /\ pc \notin {"lookup", "dump"} => shown = Zero

LEMMA InitInv == Init => Inv
<1> SUFFICES ASSUME Init PROVE Inv
  OBVIOUS
<1>1. Zero \in [Bkts -> Counter] /\ Zero \in [Bkts -> 0 .. MaxUnread]
  BY DEF Zero, Counter
<1>2. TypeOK
  <2>1. kmap \in [Bkts -> Counter] /\ val \in [Bkts -> Counter]
        /\ prev \in [Bkts -> Counter] /\ diff \in [Bkts -> Counter]
    BY <1>1, Zenon DEF Init
  <2>2. unread \in [Bkts -> 0 .. MaxUnread] /\ shown \in [Bkts -> 0 .. MaxUnread]
    BY <1>1, Zenon DEF Init
  <2>3. rc \in {-1, 0, 1}
    BY SMT DEF Init
  <2>4. QED
    BY <2>1, <2>2, <2>3, Zenon DEF Init, TypeOK
<1>3. \A b \in Bkts : kmap[b] = (prev[b] + shown[b] + unread[b]) % Wrap
  <2>1. 0 % Wrap = 0
    BY SMT
  <2>2. ASSUME NEW b \in Bkts
        PROVE  kmap[b] = 0 /\ prev[b] = 0 /\ shown[b] = 0 /\ unread[b] = 0
    BY Zenon DEF Init, Zero
  <2>3. ASSUME NEW b \in Bkts
        PROVE  kmap[b] = (prev[b] + shown[b] + unread[b]) % Wrap
    <3>1. (0 + 0 + 0) % Wrap = 0
      BY <2>1, SMT
    <3>2. QED
      BY <3>1, <2>2, Zenon
  <2>4. QED
    BY <2>3, Zenon
<1>4. QED
  BY <1>2, <1>3, Zenon DEF Init, Inv, Zero, BucketInv

LEMMA NextInv == Inv /\ [Next]_vars => Inv'
<1> SUFFICES ASSUME Inv, [Next]_vars PROVE Inv'
  OBVIOUS
<1>0. /\ TypeOK
      /\ \A b \in Bkts : BucketInv(b)
      /\ pc = "dump" => copied = Bkts
      /\ pc \notin {"lookup", "dump"} => shown = Zero
  BY DEF Inv
<1>1. CASE Setup
  <2>1. shown = Zero
    BY <1>0, <1>1 DEF Setup
  <2>2. TypeOK'
    BY <1>0, <1>1, Zenon DEF Setup, TypeOK
  <2>3. \A b \in Bkts : BucketInv(b)'
    BY <1>0, <1>1, Zenon DEF Setup, BucketInv
  <2>4. QED
    BY <1>1, <2>1, <2>2, <2>3, Zenon DEF Setup, Inv
<1>2. CASE LoopCheck
  <2>1. shown = Zero
    BY <1>0, <1>2 DEF LoopCheck
  <2>2. TypeOK'
    BY <1>0, <1>2, Zenon DEF LoopCheck, TypeOK
  <2>3. ASSUME NEW b \in Bkts PROVE BucketInv(b)'
    <3>1. shown[b] = 0
      BY <2>1 DEF Zero
    <3>2. QED
      BY <1>0, <1>2, <3>1, Zenon DEF LoopCheck, BucketInv
  <2>4. QED
    BY <1>2, <2>1, <2>2, <2>3, Zenon DEF LoopCheck, Inv
<1>3. ASSUME NEW c \in Bkts, CopyBucket(c) PROVE Inv'
  <2>1. /\ shown[c] = 0
        /\ unread[c] \in 0 .. MaxUnread
        /\ prev[c] \in Counter
        /\ kmap[c] = (prev[c] + shown[c] + unread[c]) % Wrap
    BY <1>0, <1>3 DEF CopyBucket, BucketInv, TypeOK
  <2>2. TypeOK'
    BY <1>0, <1>3 DEF CopyBucket, TypeOK
  <2>3. BucketInv(c)'
    <3>1. kmap'[c] = (prev'[c] + shown'[c] + unread'[c]) % Wrap
      BY <1>0, <1>3, <2>1 DEF CopyBucket, TypeOK, Counter
    <3>2. val'[c] = (prev'[c] + shown'[c]) % Wrap
      BY <1>0, <1>3, <2>1 DEF CopyBucket, TypeOK, Counter
    <3>3. QED
      BY <1>3, <3>1, <3>2 DEF CopyBucket, BucketInv
  <2>4. ASSUME NEW b \in Bkts, b # c PROVE BucketInv(b)'
    BY <1>0, <1>3, <2>4 DEF CopyBucket, BucketInv, TypeOK
  <2>5. QED
    BY <1>3, <2>2, <2>3, <2>4 DEF CopyBucket, Inv
<1>4. CASE LookupFail
  <2>1. shown = Zero
    <3>1. \A b \in Bkts : shown[b] = 0
      BY <1>0, <1>4 DEF LookupFail, BucketInv
    <3>2. QED
      BY <1>0, <3>1 DEF TypeOK, Zero
  <2>2. TypeOK'
    BY <1>0, <1>4, Zenon DEF LookupFail, TypeOK
  <2>3. \A b \in Bkts : BucketInv(b)'
    BY <1>0, <1>4, Zenon DEF LookupFail, BucketInv
  <2>4. QED
    BY <1>4, <2>1, <2>2, <2>3, Zenon DEF LookupFail, Inv
<1>5. CASE Dump
  <2>1. copied = Bkts
    BY <1>0, <1>5 DEF Dump
  <2>2. ASSUME NEW b \in Bkts
        PROVE  /\ kmap[b] = (val[b] + unread[b]) % Wrap
               /\ val[b] = val[b] % Wrap
               /\ BucketDiff(val[b], prev[b]) \in Counter
    <3>1. /\ val[b] = (prev[b] + shown[b]) % Wrap
          /\ kmap[b] = (prev[b] + shown[b] + unread[b]) % Wrap
      BY <1>0, <2>1 DEF BucketInv
    <3>2. /\ prev[b] + shown[b] \in 0 .. 3 * Wrap - 1
          /\ unread[b] \in 0 .. Wrap - 1
          /\ val[b] \in Int /\ val[b] >= 0 * Wrap /\ val[b] < (0 + 1) * Wrap
          /\ val[b] - prev[b] \in Int
          /\ 0 \in 0 .. 3
      BY <1>0 DEF TypeOK, Counter
    <3>3. (((prev[b] + shown[b]) % Wrap) + unread[b]) % Wrap
            = ((prev[b] + shown[b]) + unread[b]) % Wrap
      BY <3>2, ModAdd, Zenon
    <3>4. val[b] % Wrap = val[b] - 0 * Wrap
      BY <3>2, ModRange, Zenon
    <3>5. BucketDiff(val[b], prev[b]) \in Counter
      BY <3>2, ModCounter, Zenon DEF BucketDiff, Counter
    <3>6. kmap[b] = (val[b] + unread[b]) % Wrap
      BY <3>1, <3>3
    <3>7. val[b] = val[b] % Wrap
      BY <3>2, <3>4
    <3>8. QED
      BY <3>5, <3>6, <3>7
  <2>3. TypeOK'
    BY <1>0, <1>5, <2>2 DEF Dump, SavePrev, Zero, TypeOK
  <2>4. ASSUME NEW b \in Bkts PROVE BucketInv(b)'
    <3>1. /\ kmap'[b] = kmap[b] /\ unread'[b] = unread[b]
          /\ prev'[b] = val[b] /\ shown'[b] = 0 /\ val'[b] = val[b]
          /\ val[b] \in Int /\ unread[b] \in Int
      BY <1>0, <1>5 DEF Dump, SavePrev, Zero, TypeOK, Counter
    <3>2. kmap'[b] = (prev'[b] + shown'[b] + unread'[b]) % Wrap
      BY <2>2, <3>1
    <3>3. val'[b] = (prev'[b] + shown'[b]) % Wrap
      BY <2>2, <3>1
    <3>4. QED
      BY <3>1, <3>2, <3>3 DEF BucketInv
  <2>5. QED
    BY <1>5, <2>3, <2>4 DEF Dump, Inv
<1>6. CASE Cleanup
  <2>1. TypeOK' /\ \A b \in Bkts : BucketInv(b)'
    BY <1>0, <1>6, Zenon DEF Cleanup, TypeOK, BucketInv
  <2>2. QED
    BY <1>0, <1>6, <2>1, Zenon DEF Cleanup, Inv
<1>7. CASE SigHandler
  <2>1. TypeOK' /\ \A b \in Bkts : BucketInv(b)'
    BY <1>0, <1>7, Zenon DEF SigHandler, TypeOK, BucketInv
  <2>2. QED
    BY <1>0, <1>7, <2>1, Zenon DEF SigHandler, Inv
<1>8. ASSUME NEW c \in Bkts, KernelEvent(c) PROVE Inv'
  <2>1. /\ unread[c] \in 0 .. MaxUnread - 1
        /\ kmap[c] = (prev[c] + shown[c] + unread[c]) % Wrap
        /\ prev[c] + shown[c] + unread[c] \in 0 .. 3 * Wrap - 1
        /\ 1 \in 0 .. Wrap - 1
    <3>1. /\ unread[c] \in 0 .. MaxUnread /\ unread[c] < MaxUnread
          /\ shown[c] \in 0 .. MaxUnread /\ prev[c] \in Counter
      BY <1>0, <1>8 DEF KernelEvent, TypeOK
    <3>2. kmap[c] = (prev[c] + shown[c] + unread[c]) % Wrap
      BY <1>0 DEF BucketInv
    <3>3. QED
      BY <3>1, <3>2 DEF Counter
  <2>2. kmap'[c] = ((prev[c] + shown[c] + unread[c]) + 1) % Wrap
    <3>0. kmap'[c] = (kmap[c] + 1) % Wrap
      BY <1>0, <1>8 DEF KernelEvent, TypeOK
    <3>1. kmap'[c] = (((prev[c] + shown[c] + unread[c]) % Wrap) + 1) % Wrap
      BY <2>1, <3>0
    <3>2. (((prev[c] + shown[c] + unread[c]) % Wrap) + 1) % Wrap
            = ((prev[c] + shown[c] + unread[c]) + 1) % Wrap
      BY <2>1, ModAdd, Zenon
    <3>3. QED
      BY <3>1, <3>2
  <2>3. TypeOK'
    <3>1. (kmap[c] + 1) % Wrap \in Counter
      BY <1>0, ModCounter DEF TypeOK, Counter
    <3>2. QED
      BY <1>0, <1>8, <2>1, <3>1 DEF KernelEvent, TypeOK
  <2>4. BucketInv(c)'
    <3>1. /\ unread'[c] = unread[c] + 1
          /\ prev'[c] = prev[c] /\ shown'[c] = shown[c] /\ val'[c] = val[c]
          /\ copied' = copied
      BY <1>0, <1>8 DEF KernelEvent, TypeOK
    <3>2. kmap'[c] = (prev'[c] + shown'[c] + unread'[c]) % Wrap
      <4>1. prev[c] \in Int /\ shown[c] \in Int /\ unread[c] \in Int
        BY <1>0 DEF TypeOK, Counter
      <4>2. QED
        BY <2>2, <3>1, <4>1
    <3>3. BucketInv(c)
      BY <1>0
    <3>4. QED
      BY <3>1, <3>2, <3>3 DEF BucketInv
  <2>5. ASSUME NEW b \in Bkts, b # c PROVE BucketInv(b)'
    BY <1>0, <1>8, <2>5 DEF KernelEvent, BucketInv, TypeOK
  <2>6. pc' = pc /\ copied' = copied /\ shown' = shown
    BY <1>8 DEF KernelEvent
  <2>7. QED
    BY <1>0, <2>3, <2>4, <2>5, <2>6, Zenon DEF Inv
<1>9. CASE UNCHANGED vars
  BY <1>0, <1>9 DEF vars, Inv, TypeOK, BucketInv
<1>10. QED
  BY <1>1, <1>2, <1>3, <1>4, <1>5, <1>6, <1>7, <1>8, <1>9 DEF Next

\* The loop never leaves the types of its variables (TypeOK).
THEOREM TypeCorrect == Spec => []TypeOK
<1>1. Inv => TypeOK
  BY DEF Inv
<1>2. QED
  BY InitInv, NextInv, <1>1, PTL DEF Spec

-----------------------------------------------------------------------------
(* Refinement                                                               *)

\* The unreported events of the abstract monitor, as the mapping defines them.
Unreported == [b \in Bkts |-> unread[b] + shown[b]]

\* A dump prints for every bucket exactly the events its copy holds.
LEMMA DumpPrintsShown ==
    ASSUME Inv, Dump
    PROVE  diff' = shown
<1>1. copied = Bkts /\ shown \in [Bkts -> 0 .. MaxUnread]
  BY DEF Inv, Dump, TypeOK
<1>2. \A b \in Bkts : BucketDiff(val[b], prev[b]) = shown[b]
  <2> SUFFICES ASSUME NEW b \in Bkts PROVE BucketDiff(val[b], prev[b]) = shown[b]
    OBVIOUS
  <2>1. val[b] = (prev[b] + shown[b]) % Wrap /\ prev[b] \in 0 .. Wrap - 1
    BY <1>1 DEF Inv, TypeOK, BucketInv, Counter
  <2>2. shown[b] \in 0 .. Wrap - 1
    BY <1>1
  <2>3. (((prev[b] + shown[b]) % Wrap) - prev[b]) % Wrap = shown[b]
    BY <2>1, <2>2, ModDiff, Zenon
  <2>4. QED
    BY <2>1, <2>3 DEF BucketDiff
<1>3. QED
  BY <1>1, <1>2 DEF Dump, TypeOK, Inv

\* The loop implements the abstract monitor (Refinement): every dump prints,
\* per bucket, exactly the events counted since the bucket was last read,
\* across wrap-around of the counter and kprobe hits during the copy.
THEOREM Refines == Spec => Refinement
<1>1. Init => Abs!Init
  BY DEF Init, Abs!Init, Zero
<1>2. Inv /\ [Next]_vars => [Abs!Next]_Abs!vars
  <2> SUFFICES ASSUME Inv, [Next]_vars PROVE [Abs!Next]_Abs!vars
    OBVIOUS
  <2>1. ASSUME NEW c \in Bkts, KernelEvent(c) PROVE Abs!Event(c)
    <3>1. unread' = [unread EXCEPT ![c] = @ + 1] /\ shown' = shown /\ diff' = diff
      BY <2>1 DEF KernelEvent
    <3>2. unread \in [Bkts -> Nat] /\ shown \in [Bkts -> Nat]
      BY DEF Inv, TypeOK
    <3>3. \A b \in Bkts : unread'[b] + shown'[b]
                          = IF b = c THEN unread[b] + shown[b] + 1
                                     ELSE unread[b] + shown[b]
      BY <3>1, <3>2
    <3>4. Unreported' = [Unreported EXCEPT ![c] = @ + 1]
      BY <3>3 DEF Unreported
    <3>5. QED
      BY <3>1, <3>4, Zenon DEF Abs!Event, Unreported
  <2>2. ASSUME NEW c \in Bkts, CopyBucket(c) PROVE UNCHANGED Abs!vars
    <3>1. shown[c] = 0
      BY <2>2 DEF CopyBucket, Inv, BucketInv
    <3>2. unread \in [Bkts -> Nat] /\ shown \in [Bkts -> Nat]
      BY DEF Inv, TypeOK
    <3>3. /\ unread' = [unread EXCEPT ![c] = 0]
          /\ shown' = [shown EXCEPT ![c] = unread[c]]
          /\ diff' = diff
      BY <2>2 DEF CopyBucket
    <3>4. \A b \in Bkts : unread'[b] + shown'[b] = unread[b] + shown[b]
      BY <3>1, <3>2, <3>3
    <3>5. QED
      BY <3>3, <3>4 DEF Abs!vars
  <2>3. ASSUME Dump PROVE Abs!Report
    <3>1. diff' = shown
      BY <2>3, DumpPrintsShown
    <3>2. shown \in [Bkts -> Nat] /\ unread \in [Bkts -> Nat]
      BY DEF Inv, TypeOK
    <3>3. QED
      BY <2>3, <3>1, <3>2 DEF Dump, Abs!Report, Zero
  <2>4. CASE Setup \/ LoopCheck \/ LookupFail \/ Cleanup \/ SigHandler \/ UNCHANGED vars
    BY <2>4 DEF Setup, LoopCheck, LookupFail, Cleanup, SigHandler, vars, Abs!vars
  <2>5. QED
    BY <2>1, <2>2, <2>3, <2>4 DEF Next, Abs!Next
<1>3. QED
  BY <1>1, <1>2, InitInv, NextInv, PTL DEF Spec, Refinement, Abs!Spec

=============================================================================
