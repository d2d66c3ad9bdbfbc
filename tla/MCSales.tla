------------------------------- MODULE MCSales -------------------------------
(***************************************************************************)
(* Instances of Sales for TLC.                                             *)
(***************************************************************************)
EXTENDS Sales, TLC

CONSTANTS c1, c2, p1, p2, i1, i2, i3, i4, e1, e2

Row(c, p, q) == [cart |-> c, product |-> p, qty |-> q, price |-> 1, disc |-> 0]

\* One price for every product, and no lots.
NoOverride == {Undefined}
UnitPrice == [p \in Products |-> 1]
NoTracking == [p \in Products |-> FALSE]
NoLots == [l \in {} |-> 0]
AllActive == [c \in Carts |-> "ACTIVE"]

\* Contention: two carts holding both products, two units on hand of each.
BothProducts == i1 :> Row(c1, p1, 1) @@ i2 :> Row(c1, p2, 1)
             @@ i3 :> Row(c2, p1, 2) @@ i4 :> Row(c2, p2, 1)
TwoOfEach == [p \in Products |-> 2]

\* Lots: the first product in two lots, fewer units than the carts ask for.
TrackP1 == [p \in Products |-> p = p1]
LotsOfP1 == [l \in {1, 2} |-> p1]
LotQuantities == 1 :> 1 @@ 2 :> 1

\* Editing: one cart with two lines of one product (two racing addItem calls
\* leave this), and a second cart not created yet.
OneOpen == c1 :> "ACTIVE" @@ c2 :> "absent"
SplitLine == i1 :> Row(c1, p1, 1) @@ i2 :> Row(c1, p1, 1)
          @@ e1 :> NoItem @@ e2 :> NoItem

CallSymmetry == Permutations(Checkouts) \cup Permutations(Edits)
=============================================================================
