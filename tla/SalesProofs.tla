----------------------------- MODULE SalesProofs -----------------------------
(***************************************************************************)
(* Proofs about Sales: the inductive invariant, the safety properties it   *)
(* implies, and the refinement of SalesLedger.                             *)
(***************************************************************************)
EXTENDS Sales, SumTheorems

(***************************************************************************)
(* A call past its read names a cart that exists, and the transactions of  *)
(* two calls never insert the same cartId.                                 *)
(***************************************************************************)
CartHeld ==
  /\ \A r \in Checkouts : pc[r] \in {"read", "checked"} \cup InTx => cart[mine[r]] # "absent"
  /\ \A r \in Checkouts : pc[r] \in InTx => \A s \in sale : s.cart # mine[r]
  /\ \A r, s \in Checkouts :
       pc[r] \in InTx /\ pc[s] \in InTx /\ mine[r] = mine[s] => r = s

(***************************************************************************)
(* The line being deducted is one of the lines that were read.             *)
(***************************************************************************)
LineHeld ==
  \A r \in Checkouts :
    /\ pc[r] \in InTx => todo[r] \subseteq LineIds(lines[r])
    /\ pc[r] \in {"lots", "row"} => cur[r] \in LineIds(lines[r])

(***************************************************************************)
(* Between two lines the movements of a transaction and its decrements of  *)
(* the stock agree; within a line they differ by what the movements are    *)
(* ahead.                                                                  *)
(***************************************************************************)
Ahead(r, p) ==
  IF pc[r] \in {"lots", "row"} /\ p = Product(r)
  THEN IF pc[r] = "lots" THEN Line(r).qty - rem[r] ELSE Line(r).qty
  ELSE 0

DeltasAgree ==
  \A r \in Checkouts, p \in Products :
    /\ pc[r] \in InTx => dMoved[r][p] = dStock[r][p] + Ahead(r, p)
    /\ pc[r] \notin InTx => dMoved[r][p] = 0 /\ dStock[r][p] = 0

IInv ==
  /\ TypeOK
  /\ CartHeld
  /\ LineHeld
  /\ DeltasAgree
  /\ OneSalePerCart
  /\ ConvertedIffSold
  /\ StockMatchesMovements

-----------------------------------------------------------------------------
\* An editing call touches carts, lines and its own write only.
LEMMA EditingFrame ==
  ASSUME Editing
  PROVE  UNCHANGED <<pc, mine, lines, todo, cur, rem, seen, dStock, dLot, dMoved,
                     stock, lot, moved, sale, entry, crashes>>
BY DEF Editing, salesVars, local, deltas, store

\* Editing keeps the types, and a cart it changes is one it creates.
LEMMA EditingCart ==
  ASSUME CartsTypeOK, CartsNext
  PROVE  /\ CartsTypeOK'
         /\ \A c \in Carts : cart'[c] # cart[c] => cart[c] = "absent" /\ cart'[c] = "ACTIVE"
<1> USE CartsAssumption DEF CartsTypeOK, Present
<1>1. ASSUME NEW c \in Carts, CreateCart(c)
      PROVE  /\ CartsTypeOK'
             /\ \A d \in Carts : cart'[d] # cart[d] => cart[d] = "absent" /\ cart'[d] = "ACTIVE"
  BY <1>1 DEF CreateCart, CartStatus
<1>2. ASSUME NEW e \in Edits, EditRead(e)
      PROVE  CartsTypeOK' /\ UNCHANGED cart
  <2>1. ASSUME NEW w \in Write, Decide(e, w)
        PROVE  CartsTypeOK' /\ UNCHANGED cart
    BY <2>1 DEF Decide
  <2>2. ASSUME NEW c \in Carts, NEW p \in Products, NEW q \in Quantities,
               NEW d \in Discounts, NEW o \in Overrides, AddItemRead(e, c, p, q, d, o)
        PROVE  \E w \in Write : Decide(e, w)
    <3> DEFINE price == OrElse(o, CatalogPrice[p])
               row   == [cart |-> c, product |-> p, qty |-> q, price |-> price, disc |-> d]
    <3>1. row \in ItemRow
      BY DEF ItemRow, OrElse, Undefined
    <3>2. [op |-> "create", row |-> row] \in Write
      BY <3>1 DEF Write
    <3>3. \A i \in Items : [op |-> "increment", item |-> i, qty |-> q, disc |-> d] \in Write
      BY DEF Write
    <3>4. \A i \in CartLines(c) : i \in Items
      BY DEF CartLines
    <3>5. QED
      BY <2>2, <3>2, <3>3, <3>4 DEF AddItemRead
  <2>3. ASSUME NEW c \in Carts, NEW i \in Items, NEW q \in Quantities \cup {Undefined},
               NEW d \in Discounts \cup {Undefined}, UpdateItemRead(e, c, i, q, d)
        PROVE  \E w \in Write : Decide(e, w)
    <3>1. [op |-> "set", item |-> i, qty |-> q, disc |-> d] \in Write
      BY DEF Write
    <3>2. QED
      BY <2>3, <3>1 DEF UpdateItemRead
  <2>4. ASSUME NEW c \in Carts, NEW i \in Items, RemoveItemRead(e, c, i)
        PROVE  \E w \in Write : Decide(e, w)
    <3>1. [op |-> "delete", item |-> i] \in Write
      BY DEF Write
    <3>2. QED
      BY <2>4, <3>1 DEF RemoveItemRead
  <2>5. QED
    BY <1>2, <2>1, <2>2, <2>3, <2>4 DEF EditRead
<1>3. ASSUME NEW e \in Edits, EditWrite(e)
      PROVE  CartsTypeOK' /\ UNCHANGED cart
  <2>1. edit[e] \in Write \cup {Idle, Ended}
    OBVIOUS
  <2>2. edit' = [edit EXCEPT ![e] = Ended] /\ UNCHANGED cart
    BY <1>3 DEF EditWrite, WriteCreate, WriteIncrement, WriteSet, WriteDelete, WriteMissing, End
  <2>3. item' \in [Items -> ItemRow \cup {NoItem}]
    <3>1. CASE WriteCreate(e)
      <4>1. edit[e].row \in ItemRow
        BY <2>1, <3>1 DEF WriteCreate, Write, Idle, Ended
      <4>2. QED
        BY <3>1, <4>1 DEF WriteCreate
    <3>2. CASE WriteIncrement(e)
      <4>1. edit[e].item \in Items /\ edit[e].qty \in Nat /\ edit[e].disc \in Nat
        BY <2>1, <3>2 DEF WriteIncrement, Write, Idle, Ended
      <4>2. item[edit[e].item] \in ItemRow
        BY <3>2, <4>1 DEF WriteIncrement
      <4>3. QED
        BY <3>2, <4>1, <4>2 DEF WriteIncrement, ItemRow
    <3>3. CASE WriteSet(e)
      <4>1. /\ edit[e].item \in Items
            /\ edit[e].qty \in Nat \cup {Undefined} /\ edit[e].disc \in Nat \cup {Undefined}
        BY <2>1, <3>3 DEF WriteSet, Write, Idle, Ended
      <4>2. item[edit[e].item] \in ItemRow
        BY <3>3, <4>1 DEF WriteSet
      <4>3. QED
        BY <3>3, <4>1, <4>2 DEF WriteSet, ItemRow, OrElse
    <3>4. CASE WriteDelete(e)
      BY <3>4 DEF WriteDelete
    <3>5. CASE WriteMissing(e)
      BY <3>5 DEF WriteMissing
    <3>6. QED
      BY <1>3, <3>1, <3>2, <3>3, <3>4, <3>5 DEF EditWrite
  <2>4. QED
    BY <2>2, <2>3
<1>4. QED
  BY <1>1, <1>2, <1>3 DEF CartsNext

-----------------------------------------------------------------------------
(***************************************************************************)
(* The line a call is deducting is one it read, with its product and       *)
(* quantity.                                                               *)
(***************************************************************************)
LEMMA LineIsRow ==
  ASSUME TypeOK, NEW r \in Checkouts, NEW i \in LineIds(lines[r])
  PROVE  /\ i \in Items
         /\ lines[r][i].product \in Products
         /\ lines[r][i].qty \in Nat
<1>1. lines[r] \in [Items -> ItemRow \cup {NoItem}]
  BY DEF TypeOK
<1>2. i \in Items /\ lines[r][i] \in ItemRow
  BY <1>1 DEF LineIds
<1>3. QED
  BY <1>2 DEF ItemRow

\* Only decrements of the line being deducted can make a call wait.
LEMMA CurIsRow ==
  ASSUME TypeOK, LineHeld, NEW r \in Checkouts, pc[r] \in {"lots", "row"}
  PROVE  Product(r) \in Products /\ Line(r).qty \in Nat
<1>1. cur[r] \in LineIds(lines[r])
  BY DEF LineHeld
<1>2. QED
  BY <1>1, LineIsRow DEF Product, Line

\* The lot consumed next exists: naturals have a least usable one.
LEMMA NextLotInUse ==
  ASSUME NEW r \in Checkouts, Usable(r) # {}
  PROVE  NextLot(r) \in Usable(r)
<1>1. Usable(r) \in SUBSET Nat
  BY SalesAssumption DEF Usable
<1>2. \E l \in Usable(r) : \A k \in Usable(r) : l <= k
  BY <1>1, LeastElement
<1>3. QED
  BY <1>2 DEF NextLot

LEMMA NextLotIsUsable ==
  ASSUME TypeOK, NEW r \in Checkouts, Usable(r) # {}
  PROVE  NextLot(r) \in Lots /\ seen[r][NextLot(r)] \in Nat /\ seen[r][NextLot(r)] > 0
<1>1. seen[r] \in [Lots -> Int]
  BY DEF TypeOK
<1>2. QED
  BY <1>1, NextLotInUse DEF Usable

-----------------------------------------------------------------------------
\* The inductive invariant holds at the start.
LEMMA InitIInv == Init => IInv
<1> SUFFICES ASSUME Init PROVE IInv
  OBVIOUS
<1> USE CartsAssumption, SalesAssumption
    DEF Init, CartsInit, SalesInit, Zero, NoLines, InTx
<1>1. TypeOK
  BY DEF TypeOK, CartsTypeOK, CartStatus, PC
<1>2. CartHeld /\ LineHeld /\ OneSalePerCart /\ ConvertedIffSold
  BY DEF CartHeld, LineHeld, OneSalePerCart, ConvertedIffSold
<1>3. DeltasAgree
  BY DEF DeltasAgree
<1>4. StockMatchesMovements
  BY DEF StockMatchesMovements
<1>5. QED
  BY <1>1, <1>2, <1>3, <1>4 DEF IInv

(***************************************************************************)
(* Type correctness, one step per action.                                  *)
(***************************************************************************)
LEMMA TypeStep ==
  ASSUME TypeOK, LineHeld, [Next]_vars
  PROVE  TypeOK'
<1> USE SalesAssumption
    DEF TypeOK, PC, InTx, local, deltas, store, cartVars, Goto
<1>1. ASSUME NEW r \in Checkouts, NEW c \in Carts, ReadCart(r, c)
      PROVE  TypeOK'
  <2>1. [i \in Items |-> IF i \in CartLines(c) THEN item[i] ELSE NoItem]
          \in [Items -> ItemRow \cup {NoItem}]
    BY DEF CartsTypeOK
  <2>2. QED
    BY <1>1, <2>1 DEF ReadCart, CartsTypeOK
<1>2. ASSUME NEW r \in Checkouts, Abort(r)
      PROVE  TypeOK'
  BY <1>2 DEF Abort, Zero, CartsTypeOK
<1>3. ASSUME NEW r \in Checkouts, Validate(r)
      PROVE  TypeOK'
  BY <1>3 DEF Validate, CartsTypeOK
<1>4. ASSUME NEW r \in Checkouts, InsertSale(r)
      PROVE  TypeOK'
  BY <1>4 DEF InsertSale, LineIds, CartsTypeOK
<1>5. ASSUME NEW r \in Checkouts, NEW i \in Items, ReadRow(r, i)
      PROVE  TypeOK'
  <2>1. i \in LineIds(lines[r])
    BY <1>5 DEF ReadRow, Begin, LineHeld
  <2>2. lines[r][i].product \in Products /\ lines[r][i].qty \in Nat
    BY <2>1, LineIsRow
  <2>3. dMoved' \in [Checkouts -> [Products -> Nat]]
    BY <1>5, <2>2 DEF ReadRow
  <2>4. QED
    BY <1>5, <2>3 DEF ReadRow, Begin, CartsTypeOK
<1>6. ASSUME NEW r \in Checkouts, NEW i \in Items, ReadLots(r, i)
      PROVE  TypeOK'
  <2>1. i \in LineIds(lines[r])
    BY <1>6 DEF ReadLots, Begin, LineHeld
  <2>2. lines[r][i].qty \in Nat
    BY <2>1, LineIsRow
  <2>3. rem' \in [Checkouts -> Nat]
    BY <1>6, <2>2 DEF ReadLots
  <2>4. [k \in Lots |-> lot[k] - dLot[r][k]] \in [Lots -> Int]
    OBVIOUS
  <2>5. seen' \in [Checkouts -> [Lots -> Int]]
    BY <1>6, <2>4 DEF ReadLots
  <2>6. QED
    BY <1>6, <2>3, <2>5 DEF ReadLots, Begin, CartsTypeOK
<1>7. ASSUME NEW r \in Checkouts, TakeLot(r)
      PROVE  TypeOK'
  <2> DEFINE l    == NextLot(r)
             take == IF seen[r][l] <= rem[r] THEN seen[r][l] ELSE rem[r]
  <2>1. l \in Lots /\ seen[r][l] \in Nat /\ take \in Nat /\ take <= rem[r]
    BY <1>7, NextLotIsUsable DEF TakeLot
  <2>2. Product(r) \in Products
    BY <1>7, CurIsRow DEF TakeLot
  <2> HIDE DEF l, take
  <2>3. dLot' = [dLot EXCEPT ![r][l] = @ + take]
    BY <1>7 DEF TakeLot, l, take
  <2>4. dMoved' = [dMoved EXCEPT ![r][Product(r)] = @ + take]
    BY <1>7 DEF TakeLot, l, take
  <2>5. rem' = [rem EXCEPT ![r] = @ - take] /\ seen' = [seen EXCEPT ![r][l] = 0]
    BY <1>7 DEF TakeLot, l, take
  <2>6. dLot' \in [Checkouts -> [Lots -> Nat]] /\ dMoved' \in [Checkouts -> [Products -> Nat]]
    BY <2>1, <2>2, <2>3, <2>4
  <2>7. rem' \in [Checkouts -> Nat] /\ seen' \in [Checkouts -> [Lots -> Int]]
    BY <2>1, <2>5
  <2>8. UNCHANGED <<pc, mine, lines, todo, cur, dStock, store, entry, crashes, cartVars>>
    BY <1>7 DEF TakeLot
  <2>9. QED
    BY <2>6, <2>7, <2>8 DEF CartsTypeOK
<1>8. ASSUME NEW r \in Checkouts, LotsDone(r)
      PROVE  TypeOK'
  BY <1>8 DEF LotsDone, CartsTypeOK
<1>9. ASSUME NEW r \in Checkouts, DecrementStock(r)
      PROVE  TypeOK'
  <2>1. Product(r) \in Products /\ Line(r).qty \in Nat
    BY <1>9, CurIsRow DEF DecrementStock
  <2>2. dStock' \in [Checkouts -> [Products -> Nat]]
    BY <1>9, <2>1 DEF DecrementStock
  <2>3. QED
    BY <1>9, <2>2 DEF DecrementStock, CartsTypeOK
<1>10. ASSUME NEW r \in Checkouts, Commit(r)
      PROVE  TypeOK'
  <2>1. sale' \subseteq SaleRow
    BY <1>10 DEF Commit, Publish, SaleRow
  <2>2. CartsTypeOK'
    BY <1>10 DEF Commit, Publish, CartsTypeOK, CartStatus
  <2>3. stock' \in [Products -> Int] /\ lot' \in [Lots -> Int] /\ moved' \in [Products -> Nat]
    BY <1>10 DEF Commit, Publish
  <2>4. QED
    BY <1>10, <2>1, <2>2, <2>3 DEF Commit, Publish, Zero
<1>11. ASSUME NEW r \in Checkouts, PostSale(r) \/ LinkEntry(r)
      PROVE  TypeOK'
  BY <1>11 DEF PostSale, LinkEntry, CartsTypeOK
<1>12. ASSUME Crash
      PROVE  TypeOK'
  <2>1. CartsTypeOK'
    BY <1>12 DEF Crash, CartsTypeOK
  <2>2. pc' \in [Checkouts -> PC]
    BY <1>12 DEF Crash, Survives
  <2>3. crashes' \in 0..MaxCrashes
    BY <1>12 DEF Crash
  <2>4. QED
    BY <1>12, <2>1, <2>2, <2>3 DEF Crash, Zero
<1>13. ASSUME Editing
      PROVE  TypeOK'
  BY <1>13, EditingFrame, EditingCart DEF Editing
<1>14. CASE UNCHANGED vars
  BY <1>14 DEF vars, salesVars, CartsTypeOK
<1>15. QED
  BY <1>1, <1>2, <1>3, <1>4, <1>5, <1>6, <1>7, <1>8, <1>9, <1>10, <1>11, <1>12, <1>13, <1>14
     DEF Next, Checkout, Step, InsertRefused, RowShort, LotsShort, BreakDeadlock

-----------------------------------------------------------------------------
(***************************************************************************)
(* A transaction keeps its lines: they are read before it begins and only  *)
(* leave its to-do set.                                                    *)
(***************************************************************************)
LEMMA LineStep ==
  ASSUME TypeOK, LineHeld, [Next]_vars
  PROVE  LineHeld'
<1> USE DEF TypeOK, LineHeld, LineIds, InTx, local, Goto
<1>1. ASSUME NEW r \in Checkouts, NEW c \in Carts, ReadCart(r, c)
      PROVE  LineHeld'
  BY <1>1 DEF ReadCart
<1>2. ASSUME NEW r \in Checkouts,
             Abort(r) \/ Validate(r) \/ LotsDone(r) \/ PostSale(r) \/ LinkEntry(r)
      PROVE  LineHeld'
  BY <1>2 DEF Abort, Validate, LotsDone, PostSale, LinkEntry
<1>3. ASSUME NEW r \in Checkouts, InsertSale(r)
      PROVE  LineHeld'
  BY <1>3 DEF InsertSale
<1>4. ASSUME NEW r \in Checkouts, NEW i \in Items, ReadRow(r, i) \/ ReadLots(r, i)
      PROVE  LineHeld'
  <2>1. /\ pc[r] = "open" /\ i \in todo[r] /\ cur' = [cur EXCEPT ![r] = i]
        /\ UNCHANGED <<lines, todo>>
        /\ \E p \in {"row", "lots"} : pc' = [pc EXCEPT ![r] = p]
    BY <1>4 DEF ReadRow, ReadLots, Begin
  <2>2. QED
    BY <2>1
<1>5. ASSUME NEW r \in Checkouts, TakeLot(r)
      PROVE  LineHeld'
  BY <1>5 DEF TakeLot
<1>6. ASSUME NEW r \in Checkouts, DecrementStock(r)
      PROVE  LineHeld'
  BY <1>6 DEF DecrementStock
<1>7. ASSUME NEW r \in Checkouts, Commit(r)
      PROVE  LineHeld'
  BY <1>7 DEF Commit, Publish
<1>8. ASSUME Crash
      PROVE  LineHeld'
  BY <1>8 DEF Crash, Survives
<1>9. ASSUME Editing
      PROVE  LineHeld'
  BY <1>9, EditingFrame
<1>10. CASE UNCHANGED vars
  BY <1>10 DEF vars, salesVars
<1>11. QED
  BY <1>1, <1>2, <1>3, <1>4, <1>5, <1>6, <1>7, <1>8, <1>9, <1>10
     DEF Next, Checkout, Step, InsertRefused, RowShort, LotsShort, BreakDeadlock

(***************************************************************************)
(* The unique key on cartId, and the cart's status with it.                *)
(***************************************************************************)
CartInv == CartHeld /\ OneSalePerCart /\ ConvertedIffSold

\* A step that sells nothing and lets no transaction begin.
LEMMA QuietStep ==
  ASSUME CartInv, UNCHANGED <<cart, sale, mine>>,
         \A r \in Checkouts :
           /\ pc'[r] \in InTx => pc[r] \in InTx
           /\ pc'[r] \in {"read", "checked"} => pc[r] \in {"read", "checked"}
  PROVE  CartInv'
BY DEF CartInv, CartHeld, OneSalePerCart, ConvertedIffSold, InTx

\* Every step keeps the agreement of sales and cart statuses.
LEMMA CartStep ==
  ASSUME TypeOK, CartInv, [Next]_vars
  PROVE  CartInv'
<1> USE DEF TypeOK, InTx, local, store, cartVars, Goto
<1>1. ASSUME NEW r \in Checkouts, NEW c \in Carts, ReadCart(r, c)
      PROVE  CartInv'
  BY <1>1 DEF ReadCart, CartInv, CartHeld, OneSalePerCart, ConvertedIffSold
<1>2. ASSUME NEW r \in Checkouts,
             Abort(r) \/ Validate(r) \/ LotsDone(r) \/ PostSale(r) \/ LinkEntry(r)
      PROVE  CartInv'
  BY <1>2, QuietStep DEF Abort, Validate, LotsDone, PostSale, LinkEntry
<1>3. ASSUME NEW r \in Checkouts, InsertSale(r)
      PROVE  CartInv'
  <2>1. \A s \in Checkouts : s # r /\ pc[s] \in InTx => mine[s] # mine[r]
    BY <1>3 DEF InsertSale, MayLock, WaitsFor, Wants, Holds
  <2>2. QED
    BY <1>3, <2>1 DEF InsertSale, CartInv, CartHeld, OneSalePerCart, ConvertedIffSold
<1>4. ASSUME NEW r \in Checkouts, NEW i \in Items, ReadRow(r, i) \/ ReadLots(r, i)
      PROVE  CartInv'
  BY <1>4, QuietStep DEF ReadRow, ReadLots, Begin
<1>5. ASSUME NEW r \in Checkouts, TakeLot(r) \/ DecrementStock(r)
      PROVE  CartInv'
  BY <1>5, QuietStep DEF TakeLot, DecrementStock
<1>6. ASSUME NEW r \in Checkouts, Commit(r)
      PROVE  CartInv'
  <2> USE DEF CartInv, CartHeld, OneSalePerCart, ConvertedIffSold
  <2> DEFINE new == [cart |-> mine[r], by |-> r, lines |-> lines[r]]
  <2>1. /\ pc[r] = "open" /\ pc' = [pc EXCEPT ![r] = "committed"]
        /\ sale' = sale \cup {new} /\ mine' = mine
        /\ cart' = [cart EXCEPT ![mine[r]] = "CONVERTED"]
    BY <1>6 DEF Commit, Publish
  <2>2. new.cart = mine[r] /\ mine[r] \in Carts /\ \A s \in sale : s.cart # mine[r]
    BY <2>1
  <2> HIDE DEF new
  <2>3. OneSalePerCart'
    BY <2>1, <2>2
  <2>4. ConvertedIffSold'
    BY <2>1, <2>2 DEF CartsTypeOK
  <2>5. CartHeld'
    BY <2>1, <2>2 DEF CartsTypeOK
  <2>6. QED
    BY <2>3, <2>4, <2>5
<1>7. ASSUME Crash
      PROVE  CartInv'
  BY <1>7, QuietStep DEF Crash, Survives
<1>8. ASSUME Editing
      PROVE  CartInv'
  <2>1. CartsTypeOK /\ CartsNext
    BY <1>8 DEF Editing
  <2>2. \A c \in Carts : cart'[c] # cart[c] => cart[c] = "absent" /\ cart'[c] = "ACTIVE"
    BY <2>1, EditingCart
  <2>3. UNCHANGED <<pc, mine, sale>>
    BY <1>8, EditingFrame
  <2>4. mine \in [Checkouts -> Carts] /\ \A s \in sale : s.cart \in Carts
    BY DEF SaleRow
  <2> HIDE DEF TypeOK
  <2>5. CartHeld' /\ OneSalePerCart'
    BY <2>2, <2>3, <2>4 DEF CartInv, CartHeld, OneSalePerCart
  <2>6. ConvertedIffSold'
    BY <2>2, <2>3, <2>4 DEF CartInv, ConvertedIffSold
  <2>7. QED
    BY <2>5, <2>6 DEF CartInv
<1>9. CASE UNCHANGED vars
  BY <1>9, QuietStep DEF vars, salesVars
<1>10. QED
  BY <1>1, <1>2, <1>3, <1>4, <1>5, <1>6, <1>7, <1>8, <1>9
     DEF Next, Checkout, Step, InsertRefused, RowShort, LotsShort, BreakDeadlock

-----------------------------------------------------------------------------
(***************************************************************************)
(* DeltasAgree for one call and one product: the part a step of another    *)
(* call leaves alone.                                                      *)
(***************************************************************************)
Agrees(r, p) ==
  /\ pc[r] \in InTx => dMoved[r][p] = dStock[r][p] + Ahead(r, p)
  /\ pc[r] \notin InTx => dMoved[r][p] = 0 /\ dStock[r][p] = 0

\* A call whose own state a step leaves alone keeps its agreement.
LEMMA OthersAgree ==
  ASSUME NEW r \in Checkouts, NEW p \in Products, Agrees(r, p),
         pc'[r] = pc[r], dMoved'[r] = dMoved[r], dStock'[r] = dStock[r],
         pc[r] \in {"lots", "row"} =>
           lines'[r] = lines[r] /\ cur'[r] = cur[r] /\ rem'[r] = rem[r]
  PROVE  Agrees(r, p)'
BY DEF Agrees, Ahead, Product, Line, InTx

\* Every step keeps movements and decrements of open transactions in step.
LEMMA DeltasStep ==
  ASSUME TypeOK, LineHeld, DeltasAgree, [Next]_vars
  PROVE  DeltasAgree'
<1> SUFFICES ASSUME NEW s \in Checkouts, NEW p \in Products
             PROVE  Agrees(s, p)'
  BY DEF DeltasAgree, Agrees
<1>0. Agrees(s, p)
  BY DEF DeltasAgree, Agrees
<1> USE DEF TypeOK, local, deltas, Goto
<1>1. ASSUME NEW r \in Checkouts, NEW c \in Carts, ReadCart(r, c)
      PROVE  Agrees(s, p)'
  <2>1. CASE s = r
    BY <1>0, <1>1, <2>1 DEF ReadCart, Agrees, InTx
  <2>2. CASE s # r
    BY <1>0, <1>1, <2>2, OthersAgree DEF ReadCart
  <2>3. QED
    BY <2>1, <2>2
<1>2. ASSUME NEW r \in Checkouts, Abort(r)
      PROVE  Agrees(s, p)'
  <2>1. CASE s = r
    BY <1>2, <2>1 DEF Abort, Agrees, InTx, Zero
  <2>2. CASE s # r
    BY <1>0, <1>2, <2>2, OthersAgree DEF Abort
  <2>3. QED
    BY <2>1, <2>2
<1>3. ASSUME NEW r \in Checkouts, Validate(r) \/ PostSale(r) \/ LinkEntry(r)
      PROVE  Agrees(s, p)'
  <2>1. CASE s = r
    BY <1>0, <1>3, <2>1 DEF Validate, PostSale, LinkEntry, Agrees, InTx
  <2>2. CASE s # r
    BY <1>0, <1>3, <2>2, OthersAgree DEF Validate, PostSale, LinkEntry
  <2>3. QED
    BY <2>1, <2>2
<1>4. ASSUME NEW r \in Checkouts, InsertSale(r)
      PROVE  Agrees(s, p)'
  <2>1. CASE s = r
    BY <1>0, <1>4, <2>1 DEF InsertSale, Agrees, InTx, Ahead
  <2>2. CASE s # r
    BY <1>0, <1>4, <2>2, OthersAgree DEF InsertSale
  <2>3. QED
    BY <2>1, <2>2
<1>5. ASSUME NEW r \in Checkouts, NEW i \in Items, ReadRow(r, i)
      PROVE  Agrees(s, p)'
  <2>1. CASE s = r
    <3>1. i \in LineIds(lines[r])
      BY <1>5 DEF ReadRow, Begin, LineHeld, InTx
    <3>2. lines[r][i].product \in Products /\ lines[r][i].qty \in Nat
      BY <3>1, LineIsRow
    <3>3. dMoved[r][p] = dStock[r][p]
      BY <1>0, <1>5, <2>1 DEF ReadRow, Begin, Agrees, Ahead, InTx
    <3>4. /\ pc'[r] = "row" /\ Line(r)' = lines[r][i] /\ dStock'[r][p] = dStock[r][p]
          /\ dMoved'[r][p] = dMoved[r][p]
               + (IF p = lines[r][i].product THEN lines[r][i].qty ELSE 0)
      BY <1>5, <3>2 DEF ReadRow, Begin, Line
    <3>5. QED
      BY <2>1, <3>2, <3>3, <3>4 DEF Agrees, Ahead, Product, InTx
  <2>2. CASE s # r
    BY <1>0, <1>5, <2>2, OthersAgree DEF ReadRow, Begin
  <2>3. QED
    BY <2>1, <2>2
<1>6. ASSUME NEW r \in Checkouts, NEW i \in Items, ReadLots(r, i)
      PROVE  Agrees(s, p)'
  <2>1. CASE s = r
    <3>1. i \in LineIds(lines[r])
      BY <1>6 DEF ReadLots, Begin, LineHeld, InTx
    <3>2. lines[r][i].product \in Products /\ lines[r][i].qty \in Nat
      BY <3>1, LineIsRow
    <3>3. dMoved[r][p] = dStock[r][p]
      BY <1>0, <1>6, <2>1 DEF ReadLots, Begin, Agrees, Ahead, InTx
    <3>4. /\ pc'[r] = "lots" /\ Line(r)' = lines[r][i] /\ rem'[r] = lines[r][i].qty
          /\ UNCHANGED <<dStock, dMoved>>
      BY <1>6 DEF ReadLots, Begin, Line
    <3>5. QED
      BY <2>1, <3>2, <3>3, <3>4 DEF Agrees, Ahead, Product, InTx
  <2>2. CASE s # r
    BY <1>0, <1>6, <2>2, OthersAgree DEF ReadLots, Begin
  <2>3. QED
    BY <2>1, <2>2
<1>7. ASSUME NEW r \in Checkouts, TakeLot(r)
      PROVE  Agrees(s, p)'
  <2>1. CASE s = r
    <3> DEFINE l    == NextLot(r)
               take == IF seen[r][l] <= rem[r] THEN seen[r][l] ELSE rem[r]
    <3>1. take \in Nat
      BY <1>7, NextLotIsUsable DEF TakeLot
    <3>2. Product(r) \in Products /\ Line(r).qty \in Nat
      BY <1>7, CurIsRow DEF TakeLot
    <3> HIDE DEF l, take
    <3>3. /\ pc[r] = "lots" /\ UNCHANGED <<pc, lines, cur, dStock>>
          /\ rem' = [rem EXCEPT ![r] = @ - take]
          /\ dMoved' = [dMoved EXCEPT ![r][Product(r)] = @ + take]
      BY <1>7 DEF TakeLot, l, take
    <3>4. dMoved'[r][p] = dMoved[r][p] + (IF p = Product(r) THEN take ELSE 0)
      BY <3>1, <3>2, <3>3
    <3>5. Line(r)' = Line(r) /\ Product(r)' = Product(r) /\ rem'[r] = rem[r] - take
      BY <3>3 DEF Line, Product
    <3>6. QED
      BY <1>0, <2>1, <3>1, <3>2, <3>3, <3>4, <3>5 DEF Agrees, Ahead, InTx
  <2>2. CASE s # r
    BY <1>0, <1>7, <2>2, OthersAgree DEF TakeLot
  <2>3. QED
    BY <2>1, <2>2
<1>8. ASSUME NEW r \in Checkouts, LotsDone(r)
      PROVE  Agrees(s, p)'
  <2>1. CASE s = r
    <3>1. Line(r).qty \in Nat
      BY <1>8, CurIsRow DEF LotsDone
    <3>2. QED
      BY <1>0, <1>8, <2>1, <3>1 DEF LotsDone, Agrees, Ahead, Product, Line, InTx
  <2>2. CASE s # r
    BY <1>0, <1>8, <2>2, OthersAgree DEF LotsDone
  <2>3. QED
    BY <2>1, <2>2
<1>9. ASSUME NEW r \in Checkouts, DecrementStock(r)
      PROVE  Agrees(s, p)'
  <2>1. CASE s = r
    <3>1. Product(r) \in Products /\ Line(r).qty \in Nat
      BY <1>9, CurIsRow DEF DecrementStock
    <3>2. /\ pc[r] = "row" /\ pc'[r] = "open" /\ dMoved' = dMoved
          /\ dStock'[r][p] = dStock[r][p] + (IF p = Product(r) THEN Line(r).qty ELSE 0)
      BY <1>9, <3>1 DEF DecrementStock
    <3>3. QED
      BY <1>0, <2>1, <3>1, <3>2 DEF Agrees, Ahead, InTx
  <2>2. CASE s # r
    BY <1>0, <1>9, <2>2, OthersAgree DEF DecrementStock
  <2>3. QED
    BY <2>1, <2>2
<1>10. ASSUME NEW r \in Checkouts, Commit(r)
      PROVE  Agrees(s, p)'
  <2>1. CASE s = r
    BY <1>10, <2>1 DEF Commit, Publish, Agrees, InTx, Zero
  <2>2. CASE s # r
    BY <1>0, <1>10, <2>2, OthersAgree DEF Commit, Publish
  <2>3. QED
    BY <2>1, <2>2
<1>11. ASSUME Crash
      PROVE  Agrees(s, p)'
  BY <1>11 DEF Crash, Survives, Agrees, InTx, Zero
<1>12. CASE Editing \/ UNCHANGED vars
  <2>1. UNCHANGED <<pc, lines, cur, rem, dStock, dMoved>>
    BY <1>12, EditingFrame DEF vars, salesVars
  <2>2. QED
    BY <1>0, <2>1, OthersAgree
<1>13. QED
  BY <1>1, <1>2, <1>3, <1>4, <1>5, <1>6, <1>7, <1>8, <1>9, <1>10, <1>11, <1>12
     DEF Next, Checkout, Step, InsertRefused, RowShort, LotsShort, BreakDeadlock

-----------------------------------------------------------------------------
(***************************************************************************)
(* Every step of the protocol is a step of the ledger or leaves the ledger *)
(* alone.                                                                  *)
(***************************************************************************)
LEMMA CommitSells ==
  ASSUME IInv, NEW r \in Checkouts, Commit(r)
  PROVE  /\ Ledger!Sell(mine[r], r)
         /\ mine[r] \in Carts
         /\ StockMatchesMovements'
<1>0. TypeOK /\ CartHeld /\ DeltasAgree /\ ConvertedIffSold /\ StockMatchesMovements
  BY DEF IInv
<1>1. pc[r] = "open" /\ mine[r] \in Carts /\ pc[r] \in InTx
  BY <1>0 DEF TypeOK, Commit, InTx
<1>2. \A p \in Products : dMoved[r][p] = dStock[r][p] /\ dMoved[r][p] \in Nat
  <2>1. dMoved \in [Checkouts -> [Products -> Nat]] /\ dStock \in [Checkouts -> [Products -> Nat]]
    BY <1>0 DEF TypeOK
  <2>2. \A p \in Products : Ahead(r, p) = 0
    BY <1>1 DEF Ahead
  <2>3. \A p \in Products : dMoved[r][p] = dStock[r][p] + Ahead(r, p)
    BY <1>0, <1>1 DEF DeltasAgree
  <2>4. QED
    BY <2>1, <2>2, <2>3
<1>3. \A s \in sale : s.cart # mine[r]
  BY <1>0, <1>1 DEF CartHeld
<1>4. cart[mine[r]] = "ACTIVE"
  <2>1. cart[mine[r]] \in {"absent", "ACTIVE", "CONVERTED"}
    BY <1>0, <1>1 DEF TypeOK, CartsTypeOK, CartStatus
  <2>2. cart[mine[r]] # "absent"
    BY <1>0, <1>1 DEF CartHeld
  <2>3. cart[mine[r]] # "CONVERTED"
    BY <1>0, <1>1, <1>3 DEF ConvertedIffSold
  <2>4. QED
    BY <2>1, <2>2, <2>3
<1>5. {<<s.cart, s.by>> : s \in sale'} = {<<s.cart, s.by>> : s \in sale} \cup {<<mine[r], r>>}
  <2> DEFINE new == [cart |-> mine[r], by |-> r, lines |-> lines[r]]
  <2>1. sale' = sale \cup {new} /\ new.cart = mine[r] /\ new.by = r
    BY DEF Commit, Publish
  <2> HIDE DEF new
  <2>2. QED
    BY <2>1
<1>6. /\ stock' \in [Products -> Int] /\ moved' \in [Products -> Int]
      /\ \A p \in Products : /\ stock'[p] = stock[p] - dStock[r][p]
                             /\ moved'[p] = moved[p] + dMoved[r][p]
  BY <1>0 DEF Commit, Publish, TypeOK
<1>7. \A p \in Products : moved'[p] >= moved[p] /\ stock'[p] + moved'[p] = stock[p] + moved[p]
  BY <1>0, <1>2, <1>6 DEF TypeOK
<1>8. StockMatchesMovements'
  BY <1>0, <1>7 DEF StockMatchesMovements
<1>9. Ledger!Sell(mine[r], r)
  BY <1>3, <1>4, <1>5, <1>6, <1>7 DEF Ledger!Sell, Commit
<1>10. QED
  BY <1>1, <1>8, <1>9

\* Editing opens carts in the ledger and does nothing else there.
LEMMA EditingOpens ==
  ASSUME CartsTypeOK, Editing
  PROVE  [Ledger!Next]_(Ledger!ledger)
<1>1. UNCHANGED <<stock, moved, sale>>
  BY EditingFrame
<1>2. CASE \E c \in Carts : CreateCart(c)
  BY <1>1, <1>2 DEF CreateCart, Ledger!Next, Ledger!Open
<1>3. CASE \E e \in Edits : EditRead(e) \/ EditWrite(e)
  <2>1. UNCHANGED cart
    BY <1>3 DEF EditRead, AddItemRead, UpdateItemRead, RemoveItemRead, Decide,
                EditWrite, WriteCreate, WriteIncrement, WriteSet, WriteDelete, WriteMissing, End
  <2>2. QED
    BY <1>1, <2>1 DEF Ledger!ledger
<1>4. QED
  BY <1>2, <1>3 DEF Editing, CartsNext

\* Every step is a ledger step or a stutter, and keeps the stock accounted for.
LEMMA LedgerStep ==
  ASSUME IInv, [Next]_vars
  PROVE  [Ledger!Next]_(Ledger!ledger) /\ StockMatchesMovements'
<1> USE DEF local, store, cartVars
<1>1. ASSUME NEW r \in Checkouts, Commit(r)
      PROVE  [Ledger!Next]_(Ledger!ledger) /\ StockMatchesMovements'
  BY <1>1, CommitSells DEF Ledger!Next
<1>2. ASSUME Editing
      PROVE  [Ledger!Next]_(Ledger!ledger) /\ StockMatchesMovements'
  BY <1>2, EditingOpens, EditingFrame DEF IInv, TypeOK, StockMatchesMovements
<1>3. ASSUME UNCHANGED <<cart, stock, moved, sale>>
      PROVE  [Ledger!Next]_(Ledger!ledger) /\ StockMatchesMovements'
  BY <1>3 DEF IInv, StockMatchesMovements, Ledger!ledger
<1>4. ASSUME NEW r \in Checkouts, Checkout(r), ~Commit(r)
      PROVE  UNCHANGED <<cart, stock, moved, sale>>
  BY <1>4 DEF Checkout, Step, ReadCart, Validate, InsertSale, InsertRefused, ReadRow, RowShort,
              ReadLots, Begin, TakeLot, LotsDone, LotsShort, DecrementStock, BreakDeadlock,
              PostSale, LinkEntry, Abort
<1>5. ASSUME Crash \/ UNCHANGED vars
      PROVE  UNCHANGED <<cart, stock, moved, sale>>
  BY <1>5 DEF Crash, vars, salesVars
<1>6. QED
  BY <1>1, <1>2, <1>3, <1>4, <1>5 DEF Next

-----------------------------------------------------------------------------
\* Every step keeps the inductive invariant.
LEMMA IInvStep == IInv /\ [Next]_vars => IInv'
<1> SUFFICES ASSUME IInv, [Next]_vars PROVE IInv'
  OBVIOUS
<1>1. TypeOK' /\ LineHeld'
  BY TypeStep, LineStep DEF IInv
<1>2. CartHeld' /\ OneSalePerCart' /\ ConvertedIffSold'
  BY CartStep DEF IInv, CartInv
<1>3. DeltasAgree' /\ StockMatchesMovements'
  BY DeltasStep, LedgerStep DEF IInv
<1>4. QED
  BY <1>1, <1>2, <1>3 DEF IInv

\* The inductive invariant holds in every reachable state.
LEMMA Invariance == Spec => []IInv
BY InitIInv, IInvStep, PTL DEF Spec

(***************************************************************************)
(* The rows and the call-local values keep their types for any number of   *)
(* carts, products, lots and concurrent calls.                             *)
(***************************************************************************)
THEOREM SalesTypeCorrect == Spec => []TypeOK
<1>1. IInv => TypeOK
  BY DEF IInv
<1>2. QED
  BY <1>1, Invariance, PTL

(***************************************************************************)
(* No cart is sold twice, whatever the number of terminals checking it out *)
(* at the same time.                                                       *)
(***************************************************************************)
THEOREM CartSoldOnce == Spec => []OneSalePerCart
<1>1. IInv => OneSalePerCart
  BY DEF IInv
<1>2. QED
  BY <1>1, Invariance, PTL

(***************************************************************************)
(* A cart is CONVERTED exactly when it has a sale, crashes included.       *)
(***************************************************************************)
THEOREM CartConvertedWithSale == Spec => []ConvertedIffSold
<1>1. IInv => ConvertedIffSold
  BY DEF IInv
<1>2. QED
  BY <1>1, Invariance, PTL

(***************************************************************************)
(* Stock rows and SALE_OUT movements always account for each other, lot by *)
(* lot or in aggregate.                                                    *)
(***************************************************************************)
THEOREM StockAccountedFor == Spec => []StockMatchesMovements
<1>1. IInv => StockMatchesMovements
  BY DEF IInv
<1>2. QED
  BY <1>1, Invariance, PTL

(***************************************************************************)
(* The many-statement checkout implements the one-step ledger.             *)
(***************************************************************************)
THEOREM CheckoutImplementsLedger == Spec => LedgerSpec
<1>1. Init => Ledger!Init
  BY DEF Init, CartsInit, SalesInit, Zero, Ledger!Init
<1>2. IInv /\ [Next]_vars => [Ledger!Next]_(Ledger!ledger)
  BY LedgerStep
<1>3. QED
  BY <1>1, <1>2, Invariance, PTL DEF Spec, LedgerSpec, Ledger!Spec

-----------------------------------------------------------------------------
(***************************************************************************)
(* A call past its commit has its sale, and so has one with an entry.      *)
(***************************************************************************)
SoldBy(r) == \E s \in sale : s.by = r

EntriesHeld ==
  \A r \in Checkouts : pc[r] \in {"committed", "posted"} \/ entry[r] # "none" => SoldBy(r)

\* A step that keeps the sales and brings no call to its commit and no entry.
LEMMA EntriesKept ==
  ASSUME EntriesHeld, sale \subseteq sale',
         \A r \in Checkouts :
           /\ pc'[r] \in {"committed", "posted"} => pc[r] \in {"committed", "posted"}
           /\ entry'[r] # "none" => entry[r] # "none" \/ pc[r] \in {"committed", "posted"}
  PROVE  EntriesHeld'
BY DEF EntriesHeld, SoldBy

\* Every step keeps the entries to calls whose sale is committed.
LEMMA EntriesStep ==
  ASSUME TypeOK, EntriesHeld, [Next]_vars
  PROVE  EntriesHeld'
<1> USE DEF TypeOK, InTx, local, store, Goto
<1>1. ASSUME NEW r \in Checkouts, Commit(r)
      PROVE  EntriesHeld'
  <2> DEFINE new == [cart |-> mine[r], by |-> r, lines |-> lines[r]]
  <2>1. /\ pc' = [pc EXCEPT ![r] = "committed"] /\ entry' = entry
        /\ sale' = sale \cup {new} /\ new.by = r
    BY <1>1 DEF Commit, Publish
  <2> HIDE DEF new
  <2>2. QED
    BY <2>1 DEF EntriesHeld, SoldBy
<1>2. ASSUME NEW r \in Checkouts, PostSale(r) \/ LinkEntry(r)
      PROVE  EntriesHeld'
  BY <1>2, EntriesKept DEF PostSale, LinkEntry
<1>3. ASSUME NEW r \in Checkouts, Checkout(r), ~Commit(r), ~PostSale(r), ~LinkEntry(r)
      PROVE  EntriesHeld'
  <2>1. /\ sale' = sale /\ entry' = entry
        /\ \A q \in Checkouts : pc'[q] = pc[q] \/ pc'[q] \notin {"committed", "posted"}
    BY <1>3 DEF Checkout, Step, ReadCart, Validate, InsertSale, InsertRefused, ReadRow, RowShort,
                ReadLots, Begin, TakeLot, LotsDone, LotsShort, DecrementStock, BreakDeadlock, Abort
  <2>2. QED
    BY <2>1, EntriesKept
<1>4. ASSUME Crash
      PROVE  EntriesHeld'
  BY <1>4, EntriesKept DEF Crash, Survives
<1>5. ASSUME Editing \/ UNCHANGED vars
      PROVE  EntriesHeld'
  BY <1>5, EditingFrame, EntriesKept DEF vars, salesVars
<1>6. QED
  BY <1>1, <1>2, <1>3, <1>4, <1>5 DEF Next

(***************************************************************************)
(* The journal holds entries of committed sales only, whatever restarts:   *)
(* postSale follows the commit and no rollback undoes the sale after it.   *)
(***************************************************************************)
THEOREM EntriesFollowSales == Spec => []EntriesOfSales
<1>1. Init => EntriesHeld
  BY DEF Init, SalesInit, EntriesHeld
<1>2. IInv /\ EntriesHeld /\ [Next]_vars => EntriesHeld'
  BY EntriesStep DEF IInv
<1>3. EntriesHeld => EntriesOfSales
  BY DEF EntriesHeld, EntriesOfSales, SoldBy
<1>4. QED
  BY <1>1, <1>2, <1>3, Invariance, PTL DEF Spec

-----------------------------------------------------------------------------
(***************************************************************************)
(* The line in hand is still to do, and lots are consumed for a product    *)
(* deducted by lots only.                                                  *)
(***************************************************************************)
InTurn ==
  \A r \in Checkouts :
    /\ pc[r] \in {"lots", "row"} => cur[r] \in todo[r]
    /\ pc[r] = "lots" => TrackLots[Product(r)]

\* What the lines r is done with ask for.
Deducted(r, p) == SumFunctionOnSet(Asked(lines[r], p), LineIds(lines[r]) \ todo[r])

(***************************************************************************)
(* The uncommitted decrements are those of the lines done; the lots of a   *)
(* product lose what its movements say; and a product deducted in          *)
(* aggregate never loses more to one transaction than there ever was.      *)
(***************************************************************************)
OfLines(r, p) ==
  /\ pc[r] \in InTx => dStock[r][p] = Deducted(r, p)
  /\ pc[r] \in InTx /\ ~TrackLots[p] => dMoved[r][p] <= InitStock[p]
  /\ TrackLots[p] => SumFunctionOnSet(dLot[r], LotsOf(p)) = dMoved[r][p]

DeltasOfLines == \A r \in Checkouts, p \in Products : OfLines(r, p)

\* The committed rows are the sums over the committed sales.
SalesAddUp ==
  /\ IsFiniteSet(sale)
  /\ \A p \in Products :
       /\ moved[p] = SumFunction([s \in sale |-> SoldIn(s, p)])
       /\ TrackLots[p] => SumFunction([l \in LotsOf(p) |-> InitLot[l] - lot[l]]) = moved[p]

GoodsHeld ==
  /\ InTurn
  /\ DeltasOfLines
  /\ SalesAddUp
  /\ NoSaleExceedsStock

\* Lines and lots are finitely many, and a line asks for a natural quantity.
LEMMA LinesFinite ==
  ASSUME NEW f, NEW p \in Products
  PROVE  IsFiniteSet(LineIds(f)) /\ IsFiniteSet(LotsOf(p))
<1>1. LineIds(f) \subseteq Items /\ LotsOf(p) \subseteq Lots
  BY DEF LineIds, LotsOf
<1>2. QED
  BY <1>1, SalesAssumption, FS_Subset

LEMMA AskedIsNat ==
  ASSUME NEW f \in [Items -> ItemRow \cup {NoItem}], NEW p \in Products
  PROVE  /\ DOMAIN Asked(f, p) = LineIds(f)
         /\ \A i \in LineIds(f) :
              /\ Asked(f, p)[i] \in Nat
              /\ Asked(f, p)[i] = IF f[i].product = p THEN f[i].qty ELSE 0
<1>1. ASSUME NEW i \in LineIds(f)
      PROVE  f[i].qty \in Nat
  <2>1. f[i] \in ItemRow
    BY <1>1 DEF LineIds
  <2>2. QED
    BY <2>1 DEF ItemRow
<1>2. QED
  BY <1>1 DEF Asked

\* Nothing is deducted, nothing is taken from lots, nothing has moved.
LEMMA ZeroOfLines ==
  ASSUME NEW r \in Checkouts, NEW p \in Products, pc'[r] \notin InTx,
         dLot'[r] = Zero(Lots), dMoved'[r] = Zero(Products)
  PROVE  OfLines(r, p)'
<1>1. \A l \in LotsOf(p) : dLot'[r][l] = 0
  BY DEF Zero, LotsOf
<1>2. SumFunctionOnSet(dLot'[r], LotsOf(p)) = 0
  BY <1>1, LinesFinite, SumZero
<1>3. LotsOf(p)' = LotsOf(p) /\ dMoved'[r][p] = 0
  BY DEF LotsOf, Zero
<1>4. QED
  BY <1>2, <1>3 DEF OfLines

\* A step that leaves the lines of a call and its writes alone.
LEMMA OtherOfLines ==
  ASSUME NEW r \in Checkouts, NEW p \in Products, OfLines(r, p),
         pc'[r] \in InTx => pc[r] \in InTx /\ lines'[r] = lines[r] /\ todo'[r] = todo[r],
         dStock'[r] = dStock[r], dLot'[r] = dLot[r], dMoved'[r] = dMoved[r]
  PROVE  OfLines(r, p)'
BY DEF OfLines, Deducted, Asked, LineIds, LotsOf

-----------------------------------------------------------------------------
\* Every step keeps the line in hand among those still to do.
LEMMA InTurnStep ==
  ASSUME TypeOK, InTurn, [Next]_vars
  PROVE  InTurn'
<1> USE DEF TypeOK, InTurn, InTx, local, Goto, Product, Line
<1>1. ASSUME NEW r \in Checkouts, NEW c \in Carts, ReadCart(r, c)
      PROVE  InTurn'
  BY <1>1 DEF ReadCart
<1>2. ASSUME NEW r \in Checkouts,
             Abort(r) \/ Validate(r) \/ LotsDone(r) \/ PostSale(r) \/ LinkEntry(r)
      PROVE  InTurn'
  BY <1>2 DEF Abort, Validate, LotsDone, PostSale, LinkEntry
<1>3. ASSUME NEW r \in Checkouts, InsertSale(r)
      PROVE  InTurn'
  BY <1>3 DEF InsertSale
<1>4. ASSUME NEW r \in Checkouts, NEW i \in Items, ReadRow(r, i)
      PROVE  InTurn'
  BY <1>4 DEF ReadRow, Begin
<1>5. ASSUME NEW r \in Checkouts, NEW i \in Items, ReadLots(r, i)
      PROVE  InTurn'
  BY <1>5 DEF ReadLots, Begin
<1>6. ASSUME NEW r \in Checkouts, TakeLot(r)
      PROVE  InTurn'
  BY <1>6 DEF TakeLot
<1>7. ASSUME NEW r \in Checkouts, DecrementStock(r)
      PROVE  InTurn'
  BY <1>7 DEF DecrementStock
<1>8. ASSUME NEW r \in Checkouts, Commit(r)
      PROVE  InTurn'
  BY <1>8 DEF Commit, Publish
<1>9. ASSUME Crash
      PROVE  InTurn'
  BY <1>9 DEF Crash, Survives
<1>10. ASSUME Editing \/ UNCHANGED vars
       PROVE  InTurn'
  BY <1>10, EditingFrame DEF vars, salesVars
<1>11. QED
  BY <1>1, <1>2, <1>3, <1>4, <1>5, <1>6, <1>7, <1>8, <1>9, <1>10
     DEF Next, Checkout, Step, InsertRefused, RowShort, LotsShort, BreakDeadlock

-----------------------------------------------------------------------------
\* What a call takes from a lot is added to the movements of the lot's product.
LEMMA TakeLotOfLines ==
  ASSUME TypeOK, LineHeld, InTurn, NEW r \in Checkouts, NEW p \in Products, OfLines(r, p),
         TakeLot(r)
  PROVE  OfLines(r, p)'
<1> DEFINE l    == NextLot(r)
           take == IF seen[r][l] <= rem[r] THEN seen[r][l] ELSE rem[r]
<1>1. l \in Lots /\ take \in Nat /\ LotProduct[l] = Product(r)
  <2>1. Usable(r) # {}
    BY DEF TakeLot
  <2>2. l \in Lots /\ seen[r][l] \in Nat
    BY <2>1, NextLotIsUsable
  <2>3. l \in Usable(r)
    BY <2>1, NextLotInUse
  <2>4. QED
    BY <2>2, <2>3 DEF Usable, TypeOK
<1>2. Product(r) \in Products /\ TrackLots[Product(r)]
  BY CurIsRow DEF TakeLot, InTurn
<1> HIDE DEF l, take
<1>3. /\ UNCHANGED <<pc, lines, todo, dStock>>
      /\ dLot' = [dLot EXCEPT ![r][l] = @ + take]
      /\ dMoved' = [dMoved EXCEPT ![r][Product(r)] = @ + take]
  BY DEF TakeLot, l, take
<1>4. dLot[r] \in [Lots -> Nat] /\ dMoved[r] \in [Products -> Nat]
  BY DEF TypeOK
<1>5. /\ dLot'[r] = [dLot[r] EXCEPT ![l] = @ + take]
      /\ dMoved'[r] = [dMoved[r] EXCEPT ![Product(r)] = @ + take]
  BY <1>3 DEF TypeOK
<1>6. LotsOf(p)' = LotsOf(p) /\ Deducted(r, p)' = Deducted(r, p)
  BY <1>3 DEF LotsOf, Deducted, Asked, LineIds
<1>7. IsFiniteSet(LotsOf(p)) /\ LotsOf(p) \subseteq Lots
  BY LinesFinite DEF LotsOf
<1>8. CASE p # Product(r)
  <2>1. \A k \in LotsOf(p) : dLot'[r][k] = dLot[r][k]
    BY <1>1, <1>4, <1>5, <1>8 DEF LotsOf
  <2>2. SumFunctionOnSet(dLot'[r], LotsOf(p)) = SumFunctionOnSet(dLot[r], LotsOf(p))
    BY <1>7, <2>1, SumSame
  <2>3. dMoved'[r][p] = dMoved[r][p]
    BY <1>4, <1>5, <1>8
  <2>4. QED
    BY <1>3, <1>6, <2>2, <2>3 DEF OfLines
<1>9. CASE p = Product(r)
  <2>1. l \in LotsOf(p)
    BY <1>1, <1>9 DEF LotsOf
  <2>2. dLot'[r][l] = dLot[r][l] + take /\ \A k \in LotsOf(p) \ {l} : dLot'[r][k] = dLot[r][k]
    BY <1>1, <1>4, <1>5, <1>7
  <2>3. dLot'[r][l] \in Int /\ \A k \in LotsOf(p) : dLot[r][k] \in Int
    BY <1>1, <1>4, <1>7, <2>2
  <2>4. SumFunctionOnSet(dLot'[r], LotsOf(p))
          = SumFunctionOnSet(dLot[r], LotsOf(p)) + (dLot'[r][l] - dLot[r][l])
    BY <1>7, <2>1, <2>2, <2>3, SumUpdate
  <2>5. dMoved'[r][p] = dMoved[r][p] + take
    BY <1>2, <1>4, <1>5, <1>9
  <2>6. SumFunctionOnSet(dLot[r], LotsOf(p)) = dMoved[r][p]
    BY <1>2, <1>9 DEF OfLines
  <2>7. SumFunctionOnSet(dLot'[r], LotsOf(p)) = dMoved'[r][p]
    <3>1. dLot[r][l] \in Int /\ dMoved[r][p] \in Int
      BY <1>1, <1>4
    <3>2. QED
      BY <1>1, <2>2, <2>4, <2>5, <2>6, <3>1
  <2>8. QED
    BY <1>2, <1>3, <1>6, <1>9, <2>7 DEF OfLines
<1>10. QED
  BY <1>8, <1>9

\* The line that is done joins those already deducted.
LEMMA DecrementOfLines ==
  ASSUME TypeOK, LineHeld, InTurn, NEW r \in Checkouts, NEW p \in Products, OfLines(r, p),
         DecrementStock(r)
  PROVE  OfLines(r, p)'
<1> DEFINE L == LineIds(lines[r])
           A == Asked(lines[r], p)
           D == L \ todo[r]
           i == cur[r]
<1>1. pc[r] = "row" /\ pc'[r] = "open" /\ pc[r] \in InTx
  BY DEF DecrementStock, Goto, TypeOK, InTx
<1>2. i \in L /\ i \in todo[r]
  BY <1>1 DEF LineHeld, InTurn
<1>3. lines[r] \in [Items -> ItemRow \cup {NoItem}] /\ IsFiniteSet(D) /\ D \subseteq L
  BY LinesFinite, FS_Subset DEF TypeOK
<1>4. /\ \A j \in L : A[j] \in Nat
      /\ A[i] = IF Product(r) = p THEN Line(r).qty ELSE 0
  BY <1>2, <1>3, AskedIsNat DEF Product, Line
<1>5. Product(r) \in Products /\ Line(r).qty \in Nat
  BY <1>1, CurIsRow
<1>6. /\ lines' = lines /\ todo'[r] = todo[r] \ {i} /\ dLot' = dLot /\ dMoved' = dMoved
      /\ dStock'[r][p] = dStock[r][p] + A[i]
  <2>1. /\ lines' = lines /\ todo'[r] = todo[r] \ {i} /\ dLot' = dLot /\ dMoved' = dMoved
        /\ dStock' = [dStock EXCEPT ![r][Product(r)] = @ + Line(r).qty]
    BY DEF DecrementStock, TypeOK
  <2>2. dStock[r] \in [Products -> Nat]
    BY DEF TypeOK
  <2>3. dStock'[r] = [dStock[r] EXCEPT ![Product(r)] = @ + Line(r).qty]
    BY <2>1 DEF TypeOK
  <2>4. QED
    BY <1>4, <1>5, <2>1, <2>2, <2>3
<1>7. L \ todo'[r] = D \cup {i} /\ i \notin D
  BY <1>2, <1>6
<1>8. SumFunctionOnSet(A, D \cup {i}) = A[i] + SumFunctionOnSet(A, D)
  <2>1. \A j \in D \cup {i} : A[j] \in Int
    BY <1>2, <1>3, <1>4
  <2> HIDE DEF A, D, i
  <2>2. QED
    BY <1>3, <1>7, <2>1, SumAdd
<1>9. Deducted(r, p)' = SumFunctionOnSet(A, D \cup {i})
  BY <1>6, <1>7 DEF Deducted, Asked, LineIds
<1>10. dStock[r][p] = SumFunctionOnSet(A, D)
  BY <1>1 DEF OfLines, Deducted
<1>11. dStock'[r][p] = Deducted(r, p)'
  <2>1. dStock[r][p] \in Nat /\ A[i] \in Nat
    BY <1>2, <1>4 DEF TypeOK
  <2> HIDE DEF A, D, i
  <2>2. QED
    BY <1>6, <1>8, <1>9, <1>10, <2>1
<1>12. LotsOf(p)' = LotsOf(p)
  BY DEF LotsOf
<1>13. QED
  BY <1>1, <1>6, <1>11, <1>12 DEF OfLines

\* Between two lines a transaction has moved what it has deducted.
LEMMA OpenAgrees ==
  ASSUME TypeOK, DeltasAgree, NEW r \in Checkouts, NEW p \in Products, pc[r] = "open"
  PROVE  dMoved[r][p] = dStock[r][p]
<1>1. pc[r] \in InTx /\ Ahead(r, p) = 0
  BY DEF InTx, Ahead
<1>2. dMoved[r][p] = dStock[r][p] + Ahead(r, p)
  BY <1>1 DEF DeltasAgree
<1>3. dStock[r][p] \in Int
  BY DEF TypeOK
<1>4. QED
  BY <1>1, <1>2, <1>3

\* A line is read for no more than there is of its product.
LEMMA ReadRowOfLines ==
  ASSUME TypeOK, LineHeld, DeltasAgree, StockMatchesMovements,
         NEW r \in Checkouts, NEW p \in Products, OfLines(r, p),
         NEW i \in Items, ReadRow(r, i)
  PROVE  OfLines(r, p)'
<1> DEFINE m == lines[r][i]
<1>1. pc[r] = "open" /\ pc[r] \in InTx /\ i \in LineIds(lines[r])
  BY DEF ReadRow, Begin, LineHeld, InTx
<1>2. m.product \in Products /\ m.qty \in Nat
  BY <1>1, LineIsRow
<1> HIDE DEF m
<1>3. /\ lines' = lines /\ todo' = todo /\ dStock' = dStock /\ dLot' = dLot
      /\ ~TrackLots[m.product] /\ stock[m.product] - dStock[r][m.product] >= m.qty
      /\ dMoved' = [dMoved EXCEPT ![r][m.product] = @ + m.qty]
  BY DEF ReadRow, Begin, OnHand, m
<1>4. dMoved[r] \in [Products -> Nat] /\ dMoved'[r] = [dMoved[r] EXCEPT ![m.product] = @ + m.qty]
  BY <1>3 DEF TypeOK
<1>5. LotsOf(p)' = LotsOf(p) /\ Deducted(r, p)' = Deducted(r, p)
  BY <1>3 DEF LotsOf, Deducted, Asked, LineIds
<1>6. CASE p # m.product
  <2>1. dMoved'[r][p] = dMoved[r][p]
    BY <1>4, <1>6
  <2>2. QED
    BY <1>1, <1>3, <1>5, <2>1 DEF OfLines
<1>7. CASE p = m.product
  <2>1. dMoved[r][p] = dStock[r][p]
    BY <1>1, OpenAgrees
  <2>2. dMoved'[r][p] = dMoved[r][p] + m.qty
    BY <1>4, <1>7
  <2>3. stock[p] + moved[p] = InitStock[p] /\ stock[p] \in Int /\ moved[p] \in Nat
        /\ dStock[r][p] \in Nat /\ InitStock[p] \in Nat
    BY SalesAssumption DEF StockMatchesMovements, TypeOK
  <2>4. dMoved'[r][p] <= InitStock[p]
    BY <1>2, <1>3, <1>7, <2>1, <2>2, <2>3
  <2>5. QED
    BY <1>1, <1>3, <1>5, <1>7, <2>4 DEF OfLines
<1>8. QED
  BY <1>6, <1>7

\* A transaction that begins has deducted nothing.
LEMMA InsertOfLines ==
  ASSUME TypeOK, DeltasAgree, NEW r \in Checkouts, NEW p \in Products, OfLines(r, p),
         InsertSale(r)
  PROVE  OfLines(r, p)'
<1>1. /\ pc[r] \notin InTx /\ lines' = lines /\ UNCHANGED deltas
      /\ todo'[r] = LineIds(lines[r])
  BY DEF InsertSale, InTx, TypeOK
<1>2. dMoved[r][p] = 0 /\ dStock[r][p] = 0
  BY <1>1 DEF DeltasAgree
<1>3. LineIds(lines'[r]) \ todo'[r] = {}
  BY <1>1
<1>4. Deducted(r, p)' = 0
  BY <1>3, SumEmpty DEF Deducted, LineIds
<1>5. LotsOf(p)' = LotsOf(p) /\ InitStock[p] \in Nat
  BY SalesAssumption DEF LotsOf
<1>6. QED
  BY <1>1, <1>2, <1>4, <1>5 DEF OfLines, deltas

\* Every step keeps the uncommitted writes those of the lines.
LEMMA OfLinesStep ==
  ASSUME TypeOK, LineHeld, DeltasAgree, StockMatchesMovements, InTurn, DeltasOfLines,
         [Next]_vars
  PROVE  DeltasOfLines'
<1> SUFFICES ASSUME NEW s \in Checkouts, NEW p \in Products
             PROVE  OfLines(s, p)'
  BY DEF DeltasOfLines
<1>0. OfLines(s, p)
  BY DEF DeltasOfLines
<1> USE DEF TypeOK, local, deltas, Goto
<1>1. ASSUME NEW r \in Checkouts, NEW c \in Carts, ReadCart(r, c)
      PROVE  OfLines(s, p)'
  BY <1>0, <1>1, OtherOfLines DEF ReadCart, InTx
<1>2. ASSUME NEW r \in Checkouts, Abort(r)
      PROVE  OfLines(s, p)'
  <2>1. CASE s = r
    BY <1>2, <2>1, ZeroOfLines DEF Abort, InTx
  <2>2. CASE s # r
    BY <1>0, <1>2, <2>2, OtherOfLines DEF Abort
  <2>3. QED
    BY <2>1, <2>2
<1>3. ASSUME NEW r \in Checkouts, Validate(r) \/ PostSale(r) \/ LinkEntry(r) \/ LotsDone(r)
      PROVE  OfLines(s, p)'
  BY <1>0, <1>3, OtherOfLines DEF Validate, PostSale, LinkEntry, LotsDone, InTx
<1>4. ASSUME NEW r \in Checkouts, InsertSale(r)
      PROVE  OfLines(s, p)'
  <2>1. CASE s = r
    BY <1>0, <1>4, <2>1, InsertOfLines
  <2>2. CASE s # r
    BY <1>0, <1>4, <2>2, OtherOfLines DEF InsertSale
  <2>3. QED
    BY <2>1, <2>2
<1>5. ASSUME NEW r \in Checkouts, NEW i \in Items, ReadRow(r, i)
      PROVE  OfLines(s, p)'
  <2>1. CASE s = r
    BY <1>0, <1>5, <2>1, ReadRowOfLines
  <2>2. CASE s # r
    BY <1>0, <1>5, <2>2, OtherOfLines DEF ReadRow, Begin
  <2>3. QED
    BY <2>1, <2>2
<1>6. ASSUME NEW r \in Checkouts, NEW i \in Items, ReadLots(r, i)
      PROVE  OfLines(s, p)'
  BY <1>0, <1>6, OtherOfLines DEF ReadLots, Begin, InTx
<1>7. ASSUME NEW r \in Checkouts, TakeLot(r)
      PROVE  OfLines(s, p)'
  <2>1. CASE s = r
    BY <1>0, <1>7, <2>1, TakeLotOfLines
  <2>2. CASE s # r
    BY <1>0, <1>7, <2>2, OtherOfLines DEF TakeLot
  <2>3. QED
    BY <2>1, <2>2
<1>8. ASSUME NEW r \in Checkouts, DecrementStock(r)
      PROVE  OfLines(s, p)'
  <2>1. CASE s = r
    BY <1>0, <1>8, <2>1, DecrementOfLines
  <2>2. CASE s # r
    BY <1>0, <1>8, <2>2, OtherOfLines DEF DecrementStock
  <2>3. QED
    BY <2>1, <2>2
<1>9. ASSUME NEW r \in Checkouts, Commit(r)
      PROVE  OfLines(s, p)'
  <2>1. CASE s = r
    BY <1>9, <2>1, ZeroOfLines DEF Commit, Publish, InTx
  <2>2. CASE s # r
    BY <1>0, <1>9, <2>2, OtherOfLines DEF Commit, Publish
  <2>3. QED
    BY <2>1, <2>2
<1>10. ASSUME Crash
       PROVE  OfLines(s, p)'
  BY <1>10, ZeroOfLines DEF Crash, Survives, InTx
<1>11. ASSUME Editing \/ UNCHANGED vars
       PROVE  OfLines(s, p)'
  BY <1>0, <1>11, EditingFrame, OtherOfLines DEF vars, salesVars
<1>12. QED
  BY <1>1, <1>2, <1>3, <1>4, <1>5, <1>6, <1>7, <1>8, <1>9, <1>10, <1>11
     DEF Next, Checkout, Step, InsertRefused, RowShort, LotsShort, BreakDeadlock

-----------------------------------------------------------------------------
\* A committing sale: what it sold is what its transaction deducted.
LEMMA CommitSold ==
  ASSUME TypeOK, LineHeld, DeltasAgree, NEW r \in Checkouts, NEW p \in Products,
         OfLines(r, p), Commit(r)
  PROVE  /\ SumFunction(Asked(lines[r], p)) = dMoved[r][p]
         /\ ~TrackLots[p] => dMoved[r][p] <= InitStock[p]
<1>1. pc[r] = "open" /\ pc[r] \in InTx /\ todo[r] = {}
  BY DEF Commit, InTx
<1>2. lines[r] \in [Items -> ItemRow \cup {NoItem}]
  BY DEF TypeOK
<1>3. DOMAIN Asked(lines[r], p) = LineIds(lines[r])
  BY <1>2, AskedIsNat
<1>4. LineIds(lines[r]) \ todo[r] = LineIds(lines[r])
  BY <1>1
<1>5. SumFunction(Asked(lines[r], p)) = Deducted(r, p)
  BY <1>3, <1>4 DEF SumFunction, Deducted
<1>6. QED
  BY <1>1, <1>5, OpenAgrees DEF OfLines

\* The sale that commits is added to the sales before it.
LEMMA CommitAddsUp ==
  ASSUME TypeOK, CartHeld, LineHeld, DeltasAgree, DeltasOfLines, SalesAddUp,
         NEW r \in Checkouts, Commit(r)
  PROVE  SalesAddUp'
<1> DEFINE new == [cart |-> mine[r], by |-> r, lines |-> lines[r]]
<1>1. sale' = sale \cup {new} /\ new \notin sale /\ new.lines = lines[r]
  <2>1. pc[r] \in InTx
    BY DEF Commit, InTx
  <2>2. \A s \in sale : s.cart # mine[r]
    BY <2>1 DEF CartHeld
  <2>3. QED
    BY <2>2 DEF Commit, Publish
<1> HIDE DEF new
<1>2. IsFiniteSet(sale) /\ IsFiniteSet(sale')
  BY <1>1, FS_AddElement DEF SalesAddUp
<1> SUFFICES ASSUME NEW p \in Products
             PROVE  /\ moved'[p] = SumFunction([s \in sale' |-> SoldIn(s, p)])
                    /\ TrackLots[p] => SumFunction([l \in LotsOf(p) |-> InitLot[l] - lot'[l]])
                                         = moved'[p]
  BY <1>2 DEF SalesAddUp, LotsOf, SoldIn, Asked, LineIds
<1>3. OfLines(r, p)
  BY DEF DeltasOfLines
<1>4. /\ moved'[p] = moved[p] + dMoved[r][p] /\ moved[p] \in Nat /\ dMoved[r][p] \in Nat
      /\ lot' = [l \in Lots |-> lot[l] - dLot[r][l]]
  BY DEF Commit, Publish, TypeOK
<1>5. moved'[p] = SumFunction([s \in sale' |-> SoldIn(s, p)])
  <2> DEFINE f == [s \in sale |-> SoldIn(s, p)]
             g == [s \in sale' |-> SoldIn(s, p)]
  <2>1. g[new] = dMoved[r][p]
    BY <1>1, <1>3, CommitSold DEF SoldIn
  <2>2. \A s \in sale : g[s] = f[s] /\ g[s] \in Int
    <3> SUFFICES ASSUME NEW s \in sale
                 PROVE  SoldIn(s, p) \in Int
      BY <1>1
    <3>1. s.lines \in [Items -> ItemRow \cup {NoItem}]
      BY DEF TypeOK, SaleRow
    <3>2. QED
      BY <3>1, AskedIsNat, LinesFinite, SumInt DEF SoldIn, SumFunction
  <2>3. \A s \in sale \cup {new} : g[s] \in Int
    BY <1>4, <2>1, <2>2
  <2>4. SumFunctionOnSet(g, sale \cup {new}) = g[new] + SumFunctionOnSet(g, sale)
    BY <1>1, <1>2, <2>3, SumAdd
  <2>5. SumFunctionOnSet(g, sale) = SumFunctionOnSet(f, sale)
    BY <1>2, <2>2, SumSame
  <2>6. SumFunctionOnSet(f, sale) = moved[p]
    BY DEF SalesAddUp, SumFunction
  <2>7. SumFunction(g) = SumFunctionOnSet(g, sale \cup {new})
    BY <1>1 DEF SumFunction
  <2> HIDE DEF f, g
  <2>8. moved'[p] = SumFunction(g)
    BY <1>4, <2>1, <2>4, <2>5, <2>6, <2>7
  <2>9. QED
    BY <2>8 DEF g
<1>6. ASSUME TrackLots[p]
      PROVE  SumFunction([l \in LotsOf(p) |-> InitLot[l] - lot'[l]]) = moved'[p]
  <2> DEFINE S == LotsOf(p)
             f == [l \in S |-> InitLot[l] - lot[l]]
             h == [l \in S |-> InitLot[l] - lot'[l]]
  <2>1. IsFiniteSet(S) /\ S \subseteq Lots
    BY LinesFinite DEF LotsOf
  <2>2. \A l \in Lots : lot[l] \in Int /\ dLot[r][l] \in Int /\ InitLot[l] \in Int
    BY SalesAssumption DEF TypeOK
  <2>3. \A l \in S : f[l] \in Int /\ dLot[r][l] \in Int /\ h[l] = f[l] + dLot[r][l]
    BY <1>4, <2>1, <2>2
  <2>4. SumFunctionOnSet(h, S) = SumFunctionOnSet(f, S) + SumFunctionOnSet(dLot[r], S)
    BY <2>1, <2>3, SumPlus
  <2>5. SumFunctionOnSet(f, S) = moved[p]
    BY <1>6 DEF SalesAddUp, SumFunction
  <2>6. SumFunctionOnSet(dLot[r], S) = dMoved[r][p]
    BY <1>3, <1>6 DEF OfLines
  <2>7. SumFunction(h) = SumFunctionOnSet(h, S)
    BY DEF SumFunction
  <2> HIDE DEF f, h, S
  <2>8. SumFunction(h) = moved'[p]
    BY <1>4, <2>4, <2>5, <2>6, <2>7
  <2>9. QED
    BY <2>8 DEF h, S
<1>7. QED
  BY <1>5, <1>6

\* A sale that commits sold no more of an aggregate product than there was.
LEMMA CommitWithinStock ==
  ASSUME TypeOK, LineHeld, DeltasAgree, DeltasOfLines, NoSaleExceedsStock,
         NEW r \in Checkouts, Commit(r)
  PROVE  NoSaleExceedsStock'
<1> DEFINE new == [cart |-> mine[r], by |-> r, lines |-> lines[r]]
<1>1. sale' = sale \cup {new} /\ new.lines = lines[r]
  BY DEF Commit, Publish
<1> HIDE DEF new
<1>2. \A p \in Products : ~TrackLots[p] => SoldIn(new, p) <= InitStock[p]
  BY <1>1, CommitSold DEF DeltasOfLines, SoldIn
<1>3. QED
  BY <1>1, <1>2 DEF NoSaleExceedsStock, SoldIn, Asked, LineIds

\* Every step keeps the goods accounted for.
LEMMA GoodsStep ==
  ASSUME IInv, GoodsHeld, [Next]_vars
  PROVE  GoodsHeld'
<1>1. InTurn' /\ DeltasOfLines'
  BY InTurnStep, OfLinesStep DEF IInv, GoodsHeld
<1>2. SalesAddUp' /\ NoSaleExceedsStock'
  <2>1. CASE \E r \in Checkouts : Commit(r)
    BY <2>1, CommitAddsUp, CommitWithinStock DEF IInv, GoodsHeld
  <2>2. CASE ~\E r \in Checkouts : Commit(r)
    <3>1. ASSUME NEW r \in Checkouts, Checkout(r)
          PROVE  UNCHANGED <<lot, moved, sale>>
      BY <2>2, <3>1 DEF Checkout, Step, ReadCart, Validate, InsertSale, InsertRefused, ReadRow,
                  RowShort, ReadLots, Begin, TakeLot, LotsDone, LotsShort, DecrementStock,
                  BreakDeadlock, PostSale, LinkEntry, Abort, store
    <3>2. UNCHANGED <<lot, moved, sale>>
      BY <3>1, EditingFrame DEF Next, Crash, vars, salesVars, store
    <3>3. QED
      BY <3>2 DEF GoodsHeld, SalesAddUp, NoSaleExceedsStock, SoldIn, Asked, LineIds, LotsOf
  <2>3. QED
    BY <2>1, <2>2
<1>3. QED
  BY <1>1, <1>2 DEF GoodsHeld

\* At the start nothing is sold and nothing has left.
LEMMA InitGoods == Init => GoodsHeld
<1> SUFFICES ASSUME Init PROVE GoodsHeld
  OBVIOUS
<1> USE SalesAssumption DEF Init, SalesInit
<1>1. InTurn
  BY DEF InTurn
<1>2. DeltasOfLines
  <2> SUFFICES ASSUME NEW r \in Checkouts, NEW p \in Products
               PROVE  OfLines(r, p)
    BY DEF DeltasOfLines
  <2>1. \A l \in LotsOf(p) : dLot[r][l] = 0
    BY DEF Zero, LotsOf
  <2>2. SumFunctionOnSet(dLot[r], LotsOf(p)) = 0
    BY <2>1, LinesFinite, SumZero
  <2>3. pc[r] \notin InTx /\ dMoved[r][p] = 0
    BY DEF InTx, Zero
  <2>4. QED
    BY <2>2, <2>3 DEF OfLines
<1>3. SalesAddUp
  <2>1. IsFiniteSet(sale)
    BY FS_EmptySet
  <2>2. ASSUME NEW p \in Products
        PROVE  /\ SumFunction([s \in sale |-> SoldIn(s, p)]) = 0
               /\ SumFunction([l \in LotsOf(p) |-> InitLot[l] - lot[l]]) = 0
    <3> DEFINE f == [s \in sale |-> SoldIn(s, p)]
               g == [l \in LotsOf(p) |-> InitLot[l] - lot[l]]
    <3>1. SumFunction(f) = 0
      BY SumEmpty DEF SumFunction
    <3>2. \A l \in LotsOf(p) : g[l] = 0
      BY DEF LotsOf
    <3>3. SumFunction(g) = 0
      BY <3>2, LinesFinite, SumZero DEF SumFunction
    <3>4. QED
      BY <3>1, <3>3
  <2>3. QED
    BY <2>1, <2>2 DEF SalesAddUp, Zero
<1>4. NoSaleExceedsStock
  BY DEF NoSaleExceedsStock
<1>5. QED
  BY <1>1, <1>2, <1>3, <1>4 DEF GoodsHeld

\* The goods are accounted for in every reachable state.
LEMMA GoodsInvariance == Spec => []GoodsHeld
BY InitGoods, GoodsStep, Invariance, PTL DEF Spec

(***************************************************************************)
(* The movements are the sums of the committed sales' lines, each once,    *)
(* and the lots of a product lose what its stock row loses: for any number *)
(* of concurrent checkouts, through rollbacks, deadlocks and restarts.     *)
(***************************************************************************)
THEOREM GoodsAccountedFor == Spec => []SalesAccountForGoods
<1>1. IInv /\ GoodsHeld => SalesAccountForGoods
  <2> SUFFICES ASSUME IInv, GoodsHeld, NEW p \in Products
               PROVE  moved[p] = InitStock[p] - stock[p]
    BY DEF SalesAccountForGoods, GoodsHeld, SalesAddUp
  <2>1. /\ stock[p] + moved[p] = InitStock[p]
        /\ stock[p] \in Int /\ moved[p] \in Int
    BY DEF IInv, StockMatchesMovements, TypeOK
  <2>2. QED
    BY <2>1
<1>2. QED
  BY <1>1, Invariance, GoodsInvariance, PTL

(***************************************************************************)
(* No single sale takes more of an aggregate product than there ever was,  *)
(* however its lines split it: each read sees the transaction's own        *)
(* decrements, and the stock only falls.                                   *)
(***************************************************************************)
THEOREM SaleWithinStock == Spec => []NoSaleExceedsStock
<1>1. GoodsHeld => NoSaleExceedsStock
  BY DEF GoodsHeld
<1>2. QED
  BY <1>1, GoodsInvariance, PTL
=============================================================================
