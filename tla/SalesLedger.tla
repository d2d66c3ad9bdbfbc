----------------------------- MODULE SalesLedger -----------------------------
(***************************************************************************)
(* What checkout promises: a cart is sold at one instant, once, and its    *)
(* goods leave the stock at that same instant, matched by movements.       *)
(* Nothing else changes the stock.                                         *)
(***************************************************************************)
EXTENDS Integers

CONSTANTS Carts, Products, Checkouts, InitCart, InitStock

VARIABLES status,    \* status of each cart
          onHand,    \* quantity in stock
          out,       \* quantity taken out by movements
          receipts   \* <<cart, call>> for every sale

ledger == <<status, onHand, out, receipts>>

Init ==
  /\ status = InitCart
  /\ onHand = InitStock
  /\ out = [p \in Products |-> 0]
  /\ receipts = {}

Open(c) ==
  /\ status[c] = "absent"
  /\ status' = [status EXCEPT ![c] = "ACTIVE"]
  /\ UNCHANGED <<onHand, out, receipts>>

Sell(c, r) ==
  /\ status[c] = "ACTIVE"
  /\ status' = [status EXCEPT ![c] = "CONVERTED"]
  /\ \A s \in Checkouts : <<c, s>> \notin receipts
  /\ receipts' = receipts \cup {<<c, r>>}
  /\ onHand' \in [Products -> Int]
  /\ out' \in [Products -> Int]
  /\ \A p \in Products :
       out'[p] >= out[p] /\ onHand'[p] + out'[p] = onHand[p] + out[p]

Next == \E c \in Carts : Open(c) \/ \E r \in Checkouts : Sell(c, r)

Spec == Init /\ [][Next]_ledger
=============================================================================
