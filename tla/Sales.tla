-------------------------------- MODULE Sales --------------------------------
(***************************************************************************)
(* Checkout: a cart becomes a sale and leaves the stock                    *)
(* (modules/pos/sales.service.ts and modules/pos/stock.service.ts).        *)
(*                                                                         *)
(* A checkout call reads the cart, validates the payment, and then runs    *)
(* one database transaction: insert the sale, deduct each line, mark the   *)
(* cart CONVERTED.  The journal entry is posted after the commit.          *)
(*                                                                         *)
(* The database is PostgreSQL at its default level, READ COMMITTED: a      *)
(* statement sees what had committed when it began, plus the writes of its *)
(* own transaction; an UPDATE locks its row until the transaction ends and *)
(* is evaluated on the latest committed row; an INSERT of a unique key     *)
(* another open transaction has inserted waits for that transaction.       *)
(***************************************************************************)
EXTENDS Carts, Functions

CONSTANTS Checkouts,    \* checkout calls
          TrackLots,    \* TrackLots[p]: the product is deducted lot by lot
          Lots,         \* lot ids: naturals, in the order deductViaLots reads
          LotProduct,   \* the product of a lot
          InitStock,    \* Stock.quantity at the start
          InitLot,      \* StockLot.quantity at the start
          MaxCrashes    \* bound: restarts of the API process

ASSUME SalesAssumption ==
  /\ Carts # {} /\ Items # {}
  /\ IsFiniteSet(Items) /\ IsFiniteSet(Lots)
  /\ TrackLots \in [Products -> BOOLEAN]
  /\ Lots \subseteq Nat
  /\ LotProduct \in [Lots -> Products]
  /\ InitStock \in [Products -> Nat]
  /\ InitLot \in [Lots -> Nat]
  /\ MaxCrashes \in Nat

VARIABLES
  pc,      \* pc[r]: where call r stands
  mine,    \* mine[r]: the cart r checks out
  lines,   \* lines[r]: the cart's lines as r read them, by line id
  todo,    \* todo[r]: lines of r not deducted yet
  cur,     \* cur[r]: the line r is deducting
  rem,     \* rem[r]: quantity of that line still to find in lots
  seen,    \* seen[r]: lot quantities r read and has not consumed
  dStock,  \* dStock[r][p]: uncommitted decrement of stock p
  dLot,    \* dLot[r][l]: uncommitted decrement of lot l
  dMoved,  \* dMoved[r][p]: quantity in r's uncommitted SALE_OUT movements
  stock,   \* committed Stock.quantity
  lot,     \* committed StockLot.quantity
  moved,   \* quantity in committed SALE_OUT movements
  sale,    \* committed Sale rows
  entry,   \* entry[r]: the journal entry of r's sale
  crashes

local   == <<mine, lines, todo, cur, rem, seen>>
deltas  == <<dStock, dLot, dMoved>>
store   == <<stock, lot, moved, sale>>
salesVars == <<pc, local, deltas, store, entry, crashes>>
vars      == <<cartVars, salesVars>>

InTx == {"open", "lots", "row"}   \* the transaction has begun and not ended

PC == {"idle", "read", "checked", "committed", "posted", "ended", "failed"} \cup InTx

Zero(S) == [x \in S |-> 0]

NoLines == [i \in Items |-> NoItem]

LineIds(f) == {i \in Items : f[i] # NoItem}

SalesInit ==
  /\ pc = [r \in Checkouts |-> "idle"]
  /\ mine = [r \in Checkouts |-> CHOOSE c \in Carts : TRUE]
  /\ lines = [r \in Checkouts |-> NoLines]
  /\ todo = [r \in Checkouts |-> {}]
  /\ cur = [r \in Checkouts |-> CHOOSE i \in Items : TRUE]
  /\ rem = [r \in Checkouts |-> 0]
  /\ seen = [r \in Checkouts |-> Zero(Lots)]
  /\ dStock = [r \in Checkouts |-> Zero(Products)]
  /\ dLot = [r \in Checkouts |-> Zero(Lots)]
  /\ dMoved = [r \in Checkouts |-> Zero(Products)]
  /\ stock = InitStock
  /\ lot = InitLot
  /\ moved = Zero(Products)
  /\ sale = {}
  /\ entry = [r \in Checkouts |-> "none"]
  /\ crashes = 0

Init == CartsInit /\ SalesInit

Goto(r, p) == pc' = [pc EXCEPT ![r] = p]

Line(r)    == lines[r][cur[r]]
Product(r) == Line(r).product

\* The lots r still has to consume for its line, in deductViaLots's order.
Usable(r)  == {l \in Lots : LotProduct[l] = Product(r) /\ seen[r][l] > 0}
NextLot(r) == CHOOSE l \in Usable(r) : \A k \in Usable(r) : l <= k

-----------------------------------------------------------------------------
(***************************************************************************)
(* Row locks.  A decrement is positive, so it also tells who holds a row.  *)
(***************************************************************************)
Holds(r) == {<<"stock", p>> : p \in {q \in Products : dStock[r][q] > 0}}
       \cup {<<"lot", l>> : l \in {k \in Lots : dLot[r][k] > 0}}
       \cup (IF pc[r] \in InTx THEN {<<"sale", mine[r]>>} ELSE {})

\* The row call r has to lock for its next statement (none, or one).
Wants(r) ==
  CASE pc[r] = "checked" -> {<<"sale", mine[r]>>}
    [] pc[r] = "row" -> {<<"stock", Product(r)>>}
    [] pc[r] = "lots" /\ rem[r] > 0 /\ Usable(r) # {} -> {<<"lot", NextLot(r)>>}
    [] OTHER -> {}

WaitsFor(r, s) == r # s /\ Wants(r) \cap Holds(s) # {}

MayLock(r) == \A s \in Checkouts : ~WaitsFor(r, s)

\* A cycle of calls each waiting for the next.
Deadlocked(r) ==
  Wants(r) # {} /\ \E S \in SUBSET Checkouts :
    /\ r \in S
    /\ \A x \in S : (\E y \in S : WaitsFor(x, y)) /\ (\E y \in S : WaitsFor(y, x))

-----------------------------------------------------------------------------
\* The transaction is rolled back and the call answers with an error.
Abort(r) ==
  /\ Goto(r, "failed")
  /\ dStock' = [dStock EXCEPT ![r] = Zero(Products)]
  /\ dLot' = [dLot EXCEPT ![r] = Zero(Lots)]
  /\ dMoved' = [dMoved EXCEPT ![r] = Zero(Products)]
  /\ UNCHANGED <<local, store, entry, crashes, cartVars>>

\* checkout reads the cart and its lines; only a cart that passes goes on.
ReadCart(r, c) ==
  /\ pc[r] = "idle"
  /\ cart[c] = "ACTIVE"
  /\ CartLines(c) # {}
  /\ Goto(r, "read")
  /\ mine' = [mine EXCEPT ![r] = c]
  /\ lines' = [lines EXCEPT ![r] = [i \in Items |-> IF i \in CartLines(c) THEN item[i] ELSE NoItem]]
  /\ UNCHANGED <<todo, cur, rem, seen, deltas, store, entry, crashes, cartVars>>

\* Credit block, payment cover and warehouse: each may refuse the checkout.
Validate(r) ==
  /\ pc[r] = "read"
  /\ Goto(r, "checked") \/ Goto(r, "failed")
  /\ UNCHANGED <<local, deltas, store, entry, crashes, cartVars>>

\* Mutant: cartId without its unique constraint.
InsertSaleNoKey(r) ==
  /\ pc[r] = "checked"
  /\ Goto(r, "open")
  /\ todo' = [todo EXCEPT ![r] = LineIds(lines[r])]
  /\ UNCHANGED <<mine, lines, cur, rem, seen, deltas, store, entry, crashes, cartVars>>

\* tx.sale.create: Sale.cartId is unique.
InsertSale(r) ==
  /\ pc[r] = "checked"
  /\ MayLock(r)
  /\ \A s \in sale : s.cart # mine[r]
  /\ Goto(r, "open")
  /\ todo' = [todo EXCEPT ![r] = LineIds(lines[r])]
  /\ UNCHANGED <<mine, lines, cur, rem, seen, deltas, store, entry, crashes, cartVars>>

\* Mutant: a duplicate cart is tried again.
InsertRetried(r) ==
  /\ pc[r] = "checked"
  /\ MayLock(r)
  /\ \E s \in sale : s.cart = mine[r]
  /\ Goto(r, "read")
  /\ UNCHANGED <<local, deltas, store, entry, crashes, cartVars>>

InsertRefused(r) ==
  /\ pc[r] = "checked"
  /\ MayLock(r)
  /\ \E s \in sale : s.cart = mine[r]
  /\ Abort(r)

\* deductStock begins on a line: the next one of an unordered relation.
Begin(r, i, p) ==
  /\ pc[r] = "open"
  /\ i \in todo[r]
  /\ Goto(r, p)
  /\ cur' = [cur EXCEPT ![r] = i]
  /\ UNCHANGED <<mine, lines, todo, store, entry, crashes, cartVars>>

(***************************************************************************)
(* deductAggregateOnly: the on-hand quantity is read and compared, and the *)
(* SALE_OUT movement created.                                              *)
(***************************************************************************)
\* Mutant: the stock read through the service's own connection, not through tx.
OnHandOutsideTx(r, p) == stock[p]

OnHand(r, p) == stock[p] - dStock[r][p]

ReadRow(r, i) ==
  LET l == lines[r][i]
  IN /\ Begin(r, i, "row")
     /\ ~TrackLots[l.product]
     /\ OnHand(r, l.product) >= l.qty
     /\ dMoved' = [dMoved EXCEPT ![r][l.product] = @ + l.qty]
     /\ UNCHANGED <<rem, seen, dStock, dLot>>

RowShort(r, i) ==
  LET l == lines[r][i]
  IN /\ pc[r] = "open"
     /\ i \in todo[r]
     /\ ~TrackLots[l.product]
     /\ OnHand(r, l.product) < l.qty
     /\ Abort(r)

\* deductViaLots: one read of the lots, then one update per lot consumed.
ReadLots(r, i) ==
  LET l == lines[r][i]
  IN /\ Begin(r, i, "lots")
     /\ TrackLots[l.product]
     /\ rem' = [rem EXCEPT ![r] = l.qty]
     /\ seen' = [seen EXCEPT ![r] = [k \in Lots |-> lot[k] - dLot[r][k]]]
     /\ UNCHANGED deltas

\* Mutant: the lot is set to what was read less what is taken, not decremented.
TakeLotStale(r) ==
  LET l    == NextLot(r)
      take == IF seen[r][l] <= rem[r] THEN seen[r][l] ELSE rem[r]
  IN /\ pc[r] = "lots" /\ rem[r] > 0 /\ Usable(r) # {} /\ MayLock(r)
     /\ dLot' = [dLot EXCEPT ![r][l] = lot[l] - (seen[r][l] - take)]
     /\ dMoved' = [dMoved EXCEPT ![r][Product(r)] = @ + take]
     /\ rem' = [rem EXCEPT ![r] = @ - take]
     /\ seen' = [seen EXCEPT ![r][l] = 0]
     /\ UNCHANGED <<pc, mine, lines, todo, cur, dStock, store, entry, crashes, cartVars>>

TakeLot(r) ==
  LET l    == NextLot(r)
      take == IF seen[r][l] <= rem[r] THEN seen[r][l] ELSE rem[r]
  IN /\ pc[r] = "lots"
     /\ rem[r] > 0
     /\ Usable(r) # {}
     /\ MayLock(r)
     /\ dLot' = [dLot EXCEPT ![r][l] = @ + take]
     /\ dMoved' = [dMoved EXCEPT ![r][Product(r)] = @ + take]
     /\ rem' = [rem EXCEPT ![r] = @ - take]
     /\ seen' = [seen EXCEPT ![r][l] = 0]
     /\ UNCHANGED <<pc, mine, lines, todo, cur, dStock, store, entry, crashes, cartVars>>

LotsDone(r) ==
  /\ pc[r] = "lots"
  /\ rem[r] = 0
  /\ Goto(r, "row")
  /\ UNCHANGED <<local, deltas, store, entry, crashes, cartVars>>

LotsShort(r) ==
  /\ pc[r] = "lots"
  /\ rem[r] > 0
  /\ Usable(r) = {}
  /\ Abort(r)

\* Mutant: the stock row is decremented outside the transaction.
DecrementOutsideTx(r) ==
  /\ pc[r] = "row"
  /\ stock' = [stock EXCEPT ![Product(r)] = @ - Line(r).qty]
  /\ todo' = [todo EXCEPT ![r] = @ \ {cur[r]}]
  /\ Goto(r, "open")
  /\ UNCHANGED <<mine, lines, cur, rem, seen, deltas, lot, moved, sale, entry, crashes, cartVars>>

\* Mutant: the stock row is decremented by what remained, not by the line.
DecrementRemaining(r) ==
  /\ pc[r] = "row"
  /\ MayLock(r)
  /\ dStock' = [dStock EXCEPT ![r][Product(r)] = @ + rem[r]]
  /\ todo' = [todo EXCEPT ![r] = @ \ {cur[r]}]
  /\ Goto(r, "open")
  /\ UNCHANGED <<mine, lines, cur, rem, seen, dLot, dMoved, store, entry, crashes, cartVars>>

\* Mutant: the decrement has the wrong sign.
DecrementWrongSign(r) ==
  /\ pc[r] = "row"
  /\ MayLock(r)
  /\ dStock' = [dStock EXCEPT ![r][Product(r)] = @ - Line(r).qty]
  /\ todo' = [todo EXCEPT ![r] = @ \ {cur[r]}]
  /\ Goto(r, "open")
  /\ UNCHANGED <<mine, lines, cur, rem, seen, dLot, dMoved, store, entry, crashes, cartVars>>

\* The aggregate row is decremented, whatever it holds by now.
DecrementStock(r) ==
  /\ pc[r] = "row"
  /\ MayLock(r)
  /\ dStock' = [dStock EXCEPT ![r][Product(r)] = @ + Line(r).qty]
  /\ todo' = [todo EXCEPT ![r] = @ \ {cur[r]}]
  /\ Goto(r, "open")
  /\ UNCHANGED <<mine, lines, cur, rem, seen, dLot, dMoved, store, entry, crashes, cartVars>>

\* PostgreSQL breaks a cycle of waiting transactions by failing one of them.
BreakDeadlock(r) ==
  /\ Deadlocked(r)
  /\ Abort(r)

\* The uncommitted writes of r become the rows everyone reads.
Publish(r) ==
  /\ Goto(r, "committed")
  /\ sale' = sale \cup {[cart |-> mine[r], by |-> r, lines |-> lines[r]]}
  /\ stock' = [p \in Products |-> stock[p] - dStock[r][p]]
  /\ lot' = [l \in Lots |-> lot[l] - dLot[r][l]]
  /\ moved' = [p \in Products |-> moved[p] + dMoved[r][p]]
  /\ dStock' = [dStock EXCEPT ![r] = Zero(Products)]
  /\ dLot' = [dLot EXCEPT ![r] = Zero(Lots)]
  /\ dMoved' = [dMoved EXCEPT ![r] = Zero(Products)]
  /\ UNCHANGED <<local, entry, crashes, item, edit>>

\* Mutant: the cart is left ACTIVE.
CommitKeepsCart(r) == pc[r] = "open" /\ todo[r] = {} /\ Publish(r) /\ UNCHANGED cart

\* tx.cart.update, and the transaction commits.
Commit(r) ==
  /\ pc[r] = "open"
  /\ todo[r] = {}
  /\ Publish(r)
  /\ cart' = [cart EXCEPT ![mine[r]] = "CONVERTED"]

\* Mutant: the entry is posted from inside the transaction, on another connection.
PostSaleBeforeCommit(r) ==
  /\ pc[r] = "open"
  /\ Goto(r, "posted")
  /\ entry' = [entry EXCEPT ![r] = "posted"]
  /\ UNCHANGED <<local, deltas, store, crashes, cartVars>>

\* postSale: best effort; a failure is logged and the sale stays unposted.
PostSale(r) ==
  /\ pc[r] = "committed"
  /\ \/ Goto(r, "posted") /\ entry' = [entry EXCEPT ![r] = "posted"]
     \/ Goto(r, "ended") /\ UNCHANGED entry
  /\ UNCHANGED <<local, deltas, store, crashes, cartVars>>

LinkEntry(r) ==
  /\ pc[r] = "posted"
  /\ Goto(r, "ended")
  /\ entry' = [entry EXCEPT ![r] = "linked"]
  /\ UNCHANGED <<local, deltas, store, crashes, cartVars>>

(***************************************************************************)
(* The API process stops: the database rolls back what was not committed   *)
(* and every call in flight is gone, checkouts and edits alike.            *)
(***************************************************************************)
Survives(p) == p \in {"idle", "ended", "failed"}

Crash ==
  /\ crashes < MaxCrashes
  /\ crashes' = crashes + 1
  /\ pc' = [r \in Checkouts |-> IF Survives(pc[r]) THEN pc[r]
                                ELSE IF pc[r] \in {"committed", "posted"} THEN "ended"
                                ELSE "failed"]
  /\ dStock' = [r \in Checkouts |-> Zero(Products)]
  /\ dLot' = [r \in Checkouts |-> Zero(Lots)]
  /\ dMoved' = [r \in Checkouts |-> Zero(Products)]
  /\ edit' = [e \in Edits |-> IF edit[e].op = "idle" THEN Idle ELSE Ended]
  /\ UNCHANGED <<local, store, entry, cart, item>>

Step(r) ==
  \/ Validate(r)
  \/ InsertSale(r)
  \/ InsertRefused(r)
  \/ \E i \in Items : ReadRow(r, i) \/ RowShort(r, i) \/ ReadLots(r, i)
  \/ TakeLot(r)
  \/ LotsDone(r)
  \/ LotsShort(r)
  \/ DecrementStock(r)
  \/ BreakDeadlock(r)
  \/ Commit(r)
  \/ PostSale(r)
  \/ LinkEntry(r)

Checkout(r) == (\E c \in Carts : ReadCart(r, c)) \/ Step(r)

Editing == CartsNext /\ UNCHANGED salesVars

Next ==
  \/ \E r \in Checkouts : Checkout(r)
  \/ Editing
  \/ Crash

Spec == Init /\ [][Next]_vars

(***************************************************************************)
(* A handler that has started runs to its end unless the process stops:    *)
(* every statement of a call that can run is eventually run.               *)
(***************************************************************************)
FairSpec == Spec /\ \A r \in Checkouts : WF_vars(Step(r))

-----------------------------------------------------------------------------
SaleRow == [cart: Carts, by: Checkouts,
            lines: [Items -> ItemRow \cup {NoItem}]]

TypeOK ==
  /\ CartsTypeOK
  /\ pc \in [Checkouts -> PC]
  /\ mine \in [Checkouts -> Carts]
  /\ lines \in [Checkouts -> [Items -> ItemRow \cup {NoItem}]]
  /\ todo \in [Checkouts -> SUBSET Items]
  /\ cur \in [Checkouts -> Items]
  /\ rem \in [Checkouts -> Nat]
  /\ seen \in [Checkouts -> [Lots -> Int]]
  /\ dStock \in [Checkouts -> [Products -> Nat]]
  /\ dLot \in [Checkouts -> [Lots -> Nat]]
  /\ dMoved \in [Checkouts -> [Products -> Nat]]
  /\ stock \in [Products -> Int]
  /\ lot \in [Lots -> Int]
  /\ moved \in [Products -> Nat]
  /\ sale \subseteq SaleRow
  /\ entry \in [Checkouts -> {"none", "posted", "linked"}]
  /\ crashes \in 0..MaxCrashes

(***************************************************************************)
(* A cart is sold at most once, however many terminals check it out at the *)
(* same time or try again (Sale.cartId in the schema, and the status check *)
(* of checkout).                                                           *)
(***************************************************************************)
OneSalePerCart == \A s, t \in sale : s.cart = t.cart => s = t

(***************************************************************************)
(* A cart is CONVERTED exactly when it has a sale: no crash, refusal or    *)
(* race leaves one without the other.                                      *)
(***************************************************************************)
ConvertedIffSold ==
  \A c \in Carts : cart[c] = "CONVERTED" <=> \E s \in sale : s.cart = c

(***************************************************************************)
(* What has left the stock row of a product is what its SALE_OUT movements *)
(* say: no concurrent decrement is lost and no movement outlives a         *)
(* rolled-back sale.                                                       *)
(***************************************************************************)
StockMatchesMovements == \A p \in Products : stock[p] + moved[p] = InitStock[p]

\* What the lines f ask for of product p, line by line; and what a sale sold of it.
Asked(f, p) == [i \in LineIds(f) |-> IF f[i].product = p THEN f[i].qty ELSE 0]

SoldIn(s, p) == SumFunction(Asked(s.lines, p))

LotsOf(p) == {l \in Lots : LotProduct[l] = p}

(***************************************************************************)
(* What the movements say is what the committed sales sold, each line      *)
(* once; and for a product deducted by lots the lots together lost what    *)
(* the stock row lost, even when concurrent sales consumed the same lot.   *)
(***************************************************************************)
SalesAccountForGoods ==
  \A p \in Products :
    /\ moved[p] = SumFunction([s \in sale |-> SoldIn(s, p)])
    /\ TrackLots[p] =>
         SumFunction([l \in LotsOf(p) |-> InitLot[l] - lot[l]]) = InitStock[p] - stock[p]

(***************************************************************************)
(* Two sales can together take more than there is (each read the stock     *)
(* before the other committed), but one sale alone never does, even with   *)
(* several lines of one product: its reads see its own decrements.         *)
(***************************************************************************)
NoSaleExceedsStock ==
  \A s \in sale, p \in Products : ~TrackLots[p] => SoldIn(s, p) <= InitStock[p]

(***************************************************************************)
(* The journal only ever holds entries of committed sales, crash included. *)
(***************************************************************************)
EntriesOfSales == \A r \in Checkouts : entry[r] # "none" => \E s \in sale : s.by = r

(***************************************************************************)
(* The stock of a product never falls below zero: what "Insufficient       *)
(* stock" refuses.                                                         *)
(***************************************************************************)
NoOversell == \A p \in Products : stock[p] >= 0

(***************************************************************************)
(* Every checkout that has begun gets an answer: none waits for ever on    *)
(* the rows of another.                                                    *)
(***************************************************************************)
CheckoutEnds ==
  \A r \in Checkouts : (pc[r] = "read") ~> (pc[r] \in {"ended", "failed"})

(***************************************************************************)
(* The checkout protocol implements the ledger: through all its statements *)
(* and their interleavings, a sale is one atomic step.                     *)
(***************************************************************************)
Ledger == INSTANCE SalesLedger
            WITH status <- cart, onHand <- stock, out <- moved,
                 receipts <- {<<s.cart, s.by>> : s \in sale}

LedgerSpec == Ledger!Spec
=============================================================================
