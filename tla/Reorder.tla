------------------------------- MODULE Reorder -------------------------------
(***************************************************************************)
(* The reorder check, which the scheduler starts every day and a user may  *)
(* start at any time, and what it works on: quotes, orders, notifications  *)
(* (supply-chain/reorder-check.service.ts, supplier-quotes.service.ts,     *)
(* scheduler/scheduled-tasks.service.ts, notifications.service.ts).        *)
(*                                                                         *)
(* A run reads the stock, then the open orders, then the quotes of what is *)
(* low, and then drafts its orders one by one.  What an order becomes      *)
(* after that is the subject of Procurement; here it is closed at some     *)
(* time, with its goods or without.                                        *)
(***************************************************************************)
EXTENDS StockMoves, SequencesExt

CONSTANTS Checker,      \* the document of a run of the check
          Products,
          MinStockAlert,\* MinStockAlert[p]: the threshold, 0 for none
          ReorderQuantity, \* ReorderQuantity[p]: what a run orders
          Suppliers,
          Price,        \* Price[p]: the unit price of each supplier
          FirstQuotes,  \* FirstQuotes[p]: suppliers with a valid quote at the start
          MaxNotices    \* bound: unread notifications of one product that are told apart

ASSUME ReorderAssumption ==
  /\ Checker \in Docs /\ Products \subseteq Docs
  /\ IsFiniteSet(Bins) /\ \A b \in Bins : b[1] \in Products
  /\ ReorderQuantity \in [Products -> Nat]
  /\ None \notin Suppliers /\ FirstQuotes \in [Products -> SUBSET Suppliers]

VARIABLES quoted, \* quoted[p]: suppliers with a quote that is valid now
          orders, \* the purchase orders: bins, supplier, status
          unread  \* unread[p]: unread notifications that p has no supplier

reorderVars == <<quoted, orders, unread>>

ReorderInit ==
  /\ quoted = FirstQuotes
  /\ orders = <<>>
  /\ unread = [p \in Products |-> 0]

Product(b) == b[1]

IsLow(b) == stock[b] # None /\ MinStockAlert[Product(b)] > 0
                            /\ stock[b] <= MinStockAlert[Product(b)]
LowBins  == {b \in Bins : IsLow(b)}

OpenOrders   == {n \in DOMAIN orders : orders[n].status = "DRAFT"}
OpenProducts == {Product(b) : b \in UNION {orders[n].bins : n \in OpenOrders}}

Cheapest(p) == {s \in quoted[p] : \A r \in quoted[p] : Price[p][s] <= Price[p][r]}

-----------------------------------------------------------------------------
(***************************************************************************)
(* A run.  What it still has to do is a list of bins, each with the        *)
(* supplier it has found, or None.  The sum of a run the timer started     *)
(* is 1.                                                                   *)
(***************************************************************************)
Unresolved(b) == [bin |-> b, supplier |-> None]
Pending(k)    == {n \in DOMAIN Todo(k) : Todo(k)[n].supplier = None}

\* What is in S of a list, in the order of the list.
Kept(list, S) == FoldLeft(LAMBDA kept, e : IF e \in S THEN Append(kept, e) ELSE kept, <<>>, list)

\* The rows come in an order of their own.
InOrder  == SetToSeq({Unresolved(b) : b \in Bins})
Worklist == Kept(InOrder, {Unresolved(b) : b \in LowBins})

\* No stock is low: the run ends there.
CheckByHand(k) ==
  /\ IF LowBins = {} THEN AtOnce(k, Checker)
     ELSE Enter(k, "read_open", Checker, 0, Worklist)
  /\ UNCHANGED <<stockVars, reorderVars>>

\* A run is over long before the timer starts the next one.
CheckByTimer(k) ==
  /\ At(k, "free") /\ Checker \in scope
  /\ \A j \in InFlight(Checker) : Figure(j) = 0
  /\ LowBins # {}
  /\ Timed(k, "read_open", Checker, 1, Worklist)
  /\ UNCHANGED <<stockVars, reorderVars>>

\* Mutant: the orders that are open are not looked at.
ReadNoOpen(k) ==
  /\ At(k, "read_open")
  /\ Goto(k, "quote")
  /\ UNCHANGED <<stockVars, reorderVars>>

\* An open order of the product, whatever its warehouse, keeps the run from ordering it.
ReadOpen(k) ==
  /\ At(k, "read_open")
  /\ GotoLeft(k, "quote", Kept(Todo(k), {e \in ToSet(Todo(k)) : Product(e.bin) \notin OpenProducts}))
  /\ UNCHANGED <<stockVars, reorderVars>>

FindQuote(k) ==
  /\ At(k, "quote") /\ Pending(k) # {}
  /\ LET n == Min(Pending(k))
         p == Product(Todo(k)[n].bin)
     IN \/ quoted[p] = {} /\ Goto(k, "notify")
        \/ \E s \in Cheapest(p) : GotoLeft(k, "quote", [Todo(k) EXCEPT ![n].supplier = s])
  /\ UNCHANGED <<stockVars, reorderVars>>

\* Mutant: a product without a quote is passed over in silence.
NotifyNobody(k) ==
  /\ At(k, "notify")
  /\ GotoLeft(k, "quote", RemoveAt(Todo(k), Min(Pending(k))))
  /\ UNCHANGED <<stockVars, reorderVars>>

Notify(k) ==
  LET n == Min(Pending(k))
      p == Product(Todo(k)[n].bin)
  IN /\ At(k, "notify")
     /\ unread' = [unread EXCEPT ![p] = Min({unread[p] + 1, MaxNotices})]
     /\ GotoLeft(k, "quote", RemoveAt(Todo(k), n))
     /\ UNCHANGED <<stockVars, quoted, orders>>

\* One order for each supplier and warehouse.
SameGroup(e, f) == e.supplier = f.supplier /\ e.bin[2] = f.bin[2]

DraftOrder(k) ==
  LET first == Head(Todo(k))
      group == {e \in ToSet(Todo(k)) : SameGroup(e, first)}
  IN /\ At(k, "quote") /\ Pending(k) = {} /\ Todo(k) # <<>>
     /\ orders' = Append(orders, [bins |-> {e.bin : e \in group}, supplier |-> first.supplier,
                                  status |-> "DRAFT"])
     /\ GotoLeft(k, "quote", Kept(Todo(k), ToSet(Todo(k)) \ group))
     /\ UNCHANGED <<stockVars, quoted, unread>>

CheckDone(k) ==
  /\ At(k, "quote") /\ Todo(k) = <<>>
  /\ Leave(k)
  /\ UNCHANGED <<stockVars, reorderVars>>

-----------------------------------------------------------------------------
(***************************************************************************)
(* What happens to quotes, orders and notifications meanwhile.             *)
(***************************************************************************)
AddQuote(k, p) ==
  /\ AtOnce(k, p)
  /\ \E s \in Suppliers \ quoted[p] : quoted' = [quoted EXCEPT ![p] = quoted[p] \cup {s}]
  /\ UNCHANGED <<stockVars, orders, unread>>

QuoteExpires(k, p) ==
  /\ AtOnce(k, p)
  /\ \E s \in quoted[p] : quoted' = [quoted EXCEPT ![p] = quoted[p] \ {s}]
  /\ UNCHANGED <<stockVars, orders, unread>>

\* The goods of an order come in, or the order is cancelled.
CloseOrder(k, n) ==
  /\ orders[n].status = "DRAFT"
  /\ \E b \in orders[n].bins : AtOnce(k, Product(b))
  /\ \E status \in {"RECEIVED", "CANCELLED"} :
       /\ orders' = [orders EXCEPT ![n].status = status]
       /\ IF status = "CANCELLED" THEN UNCHANGED <<stock, lots, net, bought>>
          ELSE LET in(b) == IF b \in orders[n].bins THEN ReorderQuantity[Product(b)] ELSE 0
               IN /\ stock' = [b \in Bins |-> IF in(b) = 0 THEN stock[b] ELSE Quantity(b) + in(b)]
                  /\ lots' = [b \in Bins |-> lots[b] + (IF Lotted(b) THEN in(b) ELSE 0)]
                  /\ net' = [b \in Bins |-> net[b] + in(b)]
                  /\ bought' = [b \in Bins |-> bought[b] + in(b)]
  /\ UNCHANGED <<move, credited, sales, counted, rowless, quoted, unread>>

MarkAllRead(k, p) ==
  /\ AtOnce(k, p)
  /\ unread' = [unread EXCEPT ![p] = 0]
  /\ UNCHANGED <<stockVars, quoted, orders>>

CheckGoesOn(k) ==
  ReadOpen(k) \/ FindQuote(k) \/ Notify(k) \/ DraftOrder(k) \/ CheckDone(k)

ReorderStep(k) ==
  \/ CheckByHand(k) \/ CheckByTimer(k) \/ CheckGoesOn(k)
  \/ \E p \in Products : AddQuote(k, p) \/ QuoteExpires(k, p) \/ MarkAllRead(k, p)
  \/ \E n \in DOMAIN orders : CloseOrder(k, n)

-----------------------------------------------------------------------------
(***************************************************************************)
(* What is low is drafted once: a bin is on two open orders only after two *)
(* runs of the check crossed.                                              *)
(***************************************************************************)
OrderedOnce ==
  Checker \in crossed \/
    \A b \in Bins : Cardinality({n \in OpenOrders : b \in orders[n].bins}) <= 1

Low(p) == \E b \in LowBins : Product(b) = p

(***************************************************************************)
(* A product whose stock is low ends up on an open order, or somebody is   *)
(* told that it has no supplier, or its stock recovers: the scheduler goes *)
(* on, whatever users do meanwhile, in the behaviours that are about it.   *)
(***************************************************************************)
LowStockIsHandled ==
  \A p \in Products :
    (Checker \in scope /\ Low(p) /\ unread[p] = 0) ~>
      (~Low(p) \/ p \in OpenProducts \/ unread[p] > 0)
=============================================================================
