----------------------------- MODULE MCPktDrop -----------------------------
(***************************************************************************)
(* Model-checking instance of PktDrop: small sets of locations,            *)
(* namespaces, MACs and addresses, a handful of parsed flows chosen so     *)
(* that every classifier path and the TCP flag precedence occur, and the   *)
(* properties that need sums over the stores.                              *)
(***************************************************************************)
EXTENDS PktDrop, Functions, FiniteSetsExt, TLC

CONSTANTS l1, l2, l3, n1, n2, m1, m2, i1, i2

\* l1 resolves to an ordinary symbol, l2 to a unix-socket symbol and l3 to
\* nothing (find_ksym returns NULL).
MCSymTable == (l1 :> [unix |-> FALSE, tcp |-> FALSE, ovs |-> FALSE])
           @@ (l2 :> [unix |-> TRUE, tcp |-> FALSE, ovs |-> FALSE])
           @@ (l3 :> NoSym)

MCSymOf == [l \in Locs |-> MCSymTable[l]]

\* A flow with every field at its plain value.
BaseFlow == [dmac |-> m1, smac |-> m2, saddr |-> i1, daddr |-> i2,
             proto |-> "OTHER", arpop |-> "OTHER", trans |-> "OTHER",
             fin |-> FALSE, rst |-> FALSE, syn |-> FALSE]

ArpRequest == [BaseFlow EXCEPT !.proto = "ARP", !.arpop = "REQUEST"]
TcpFinSyn  == [BaseFlow EXCEPT !.proto = "IP", !.trans = "TCP",
                               !.fin = TRUE, !.syn = TRUE]
Ip6Udp     == [BaseFlow EXCEPT !.proto = "IPV6", !.trans = "UDP",
                               !.dmac = m2, !.smac = m1]
TcpRst     == [BaseFlow EXCEPT !.proto = "IP", !.trans = "TCP", !.rst = TRUE,
                               !.saddr = i2, !.daddr = i1]

\* Flows for the protocol-bucket modes.
MCBucketFlows == {ArpRequest, TcpFinSyn}

\* Flows for grouping by flow: two groups, one with two distinct flows.
MCFlowFlows == {ArpRequest, TcpFinSyn, Ip6Udp}

\* Flows for the capacity question: three distinct flows share the dmac m1.
MCCapFlows == {ArpRequest, TcpFinSyn, TcpRst}

-----------------------------------------------------------------------------

\* Every sample is counted once in the global total and once by packet
\* type; the location store and the histogram store (with the unix-socket
\* count) never hold more drops than the global total of the cycle: a
\* sample is never counted twice, and show_hist zeroes all counters of the
\* cycle together.
CountsConsistent ==
    /\ totalDrops = SumFunction(byType)
    /\ SumFunction([l \in DOMAIN locs |-> locs[l].total]) <= totalDrops
    /\ totalUnix + SumFunction([k \in DOMAIN hist |-> hist[k].total]) <= totalDrops

\* In a flow-mode group, the hits of its flow entries never exceed the
\* drops counted for the group in the cycle: show_flow_buckets zeroes the
\* hits of every surviving flow entry when it zeroes the group total.
FlowHitsWithinTotal ==
    \A k \in DOMAIN hist :
        MapThenSumSet(LAMBDA r : r.hits, hist[k].flows) <= hist[k].total

=============================================================================
