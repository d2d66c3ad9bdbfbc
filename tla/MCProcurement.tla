---------------------------- MODULE MCProcurement ----------------------------
(***************************************************************************)
(* Instances of Procurement for TLC.                                       *)
(***************************************************************************)
EXTENDS Procurement, TLC

CONSTANTS o1, l1, l2, p1, p2, d1, d2, rule, g1, g2, v1, v2, s1, s2, c1

AllO1 == [l \in Lines |-> o1]
TwoProducts == l1 :> p1 @@ l2 :> p2
OneOfEach == [l \in Lines |-> 1]
TrackP1 == [p \in Products |-> p = p1]
AllSent == [o \in Orders |-> "SENT"]
AllAbsent == [o \in Orders |-> "absent"]
Hundred == [t \in Targets |-> 100]
Fifty == [r \in Rules |-> 50]
RoleOfRule == [r \in Rules |-> "buyer"]
Deciders == [d \in Decisions |-> {"buyer"}]

\* The receipts of an order that was sent.
ReceivingPlan == [order |-> AllSent, calls |-> {g1, g2, v1, v2}]

\* The life of an order from its creation, up to a receipt.
SendingPlan == [order |-> AllAbsent, calls |-> {s1, s2, c1, g1, v1}]

OnlyReceiving == {ReceivingPlan}
Both == {ReceivingPlan, SendingPlan}
=============================================================================
