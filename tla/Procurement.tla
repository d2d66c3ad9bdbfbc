----------------------------- MODULE Procurement -----------------------------
(***************************************************************************)
(* Purchase orders and their receipts                                      *)
(* (modules/supply-chain/purchase-orders.service.ts and                    *)
(* goods-receipts.service.ts).                                             *)
(*                                                                         *)
(* An order is sent, perhaps after an approval, or cancelled: each call is *)
(* a few reads and one update.  A receipt is created as a draft; validate  *)
(* checks the draft, then enters the goods in one transaction that also    *)
(* advances the order, and posts the journal entry after the commit.  The  *)
(* transaction locks rows as Sales describes (READ COMMITTED).             *)
(***************************************************************************)
EXTENDS Approvals, Functions

CONSTANTS Cancels,     \* cancel calls
          Receipts,    \* receipt ids; a receipt is named by the call that creates it
          Validates,   \* validate calls
          Lines,       \* lines of purchase orders
          OrderOf,     \* OrderOf[l]
          ProductOf,   \* ProductOf[l]
          Ordered,     \* Ordered[l]: quantityOrdered
          Products,
          TrackLots,   \* TrackLots[p]: receipts of p create lots
          Quantities,  \* quantities a receipt line may carry
          Plans,       \* bound: [order, calls]: orders at the start, calls that are made
          MaxCrashes   \* bound: restarts of the API process

Orders   == Targets
Sends    == Asks
OrderStatus == {"absent", "DRAFT", "SENT", "PARTIALLY_RECEIVED", "RECEIVED", "CANCELLED"}
Closed   == {"RECEIVED", "CANCELLED"}

LinesOf(o) == {l \in Lines : OrderOf[l] = o}

ASSUME ProcurementAssumption ==
  /\ OrderOf \in [Lines -> Orders] /\ ProductOf \in [Lines -> Products]
  /\ Ordered \in [Lines -> Nat \ {0}]
  /\ TrackLots \in [Products -> BOOLEAN]
  /\ Quantities \subseteq Nat
  /\ \A p \in Plans : p.order \in [Orders -> {"absent", "DRAFT", "SENT"}]
  /\ IsFiniteSet(Lines) /\ IsFiniteSet(Receipts)
  /\ Receipts # {} /\ Orders # {} /\ MaxCrashes \in Nat

VARIABLES
  order,     \* order[o]: PurchaseOrder.status
  send,      \* send[s]: where send call s stands, and its order
  cancel,    \* cancel[c]: the same for a cancel call
  receipt,   \* receipt[g]: the GoodsReceipt row, or the call that is creating it
  pc,        \* pc[v]: where validate call v stands
  mine,      \* mine[v]: the receipt v validates
  was,       \* was[v]: status of its order as v first read it
  todo,      \* todo[v]: lines of the receipt not entered yet
  cur,       \* cur[v]: the line v is entering
  next,      \* next[v]: the status v gives the order
  dStock,    \* dStock[v][p]: uncommitted increment of the stock
  dLine,     \* dLine[v][l]: uncommitted increment of quantityReceived; -1: row not locked
  stock,     \* quantity received into Stock
  lots,      \* quantity in the lots that receipts created
  moved,     \* quantity in PURCHASE_IN movements
  received,  \* received[l]: PurchaseOrderLine.quantityReceived
  times,     \* times[g]: commits that entered receipt g
  entry,     \* entry[v]: the journal entry v made
  crashes,
  plan       \* the orders at the start and the calls that are made, chosen once

orderVars   == <<order, send, cancel>>
callVars    == <<pc, mine, was, todo, cur, next>>
deltas      == <<dStock, dLine>>
goods       == <<stock, lots, moved, received, times>>
receiveVars == <<receipt, callVars, deltas, goods, entry>>
vars        == <<approvalVars, orderVars, receiveVars, crashes, plan>>

Unlocked == -1

Omitted == -1   \* an order line the receipt does not mention

NoStock == [p \in Products |-> 0]
NoLines == [l \in Lines |-> Unlocked]

Row(s, o, q) == [status |-> s, order |-> o, qty |-> q]

Init ==
  /\ ApprovalsInit
  /\ plan \in Plans
  /\ order = plan.order
  /\ send = [s \in Sends |-> [at |-> IF s \in plan.calls THEN "idle" ELSE "ended",
                           order |-> CHOOSE o \in Orders : TRUE]]
  /\ cancel = [c \in Cancels |-> [at |-> IF c \in plan.calls THEN "idle" ELSE "ended",
                              order |-> CHOOSE o \in Orders : TRUE]]
  /\ receipt = [g \in Receipts |->
                  Row(IF g \in plan.calls THEN "absent" ELSE "lost", CHOOSE o \in Orders : TRUE, [l \in Lines |-> Omitted])]
  /\ pc = [v \in Validates |-> IF v \in plan.calls THEN "idle" ELSE "ended"]
  /\ mine = [v \in Validates |-> CHOOSE g \in Receipts : TRUE]
  /\ was = [v \in Validates |-> "DRAFT"]
  /\ todo = [v \in Validates |-> {}]
  /\ cur = [v \in Validates |-> CHOOSE l \in Lines : TRUE]
  /\ next = [v \in Validates |-> "DRAFT"]
  /\ dStock = [v \in Validates |-> NoStock]
  /\ dLine = [v \in Validates |-> NoLines]
  /\ stock = NoStock /\ lots = NoStock /\ moved = NoStock
  /\ received = [l \in Lines |-> 0]
  /\ times = [g \in Receipts |-> 0]
  /\ entry = [v \in Validates |-> "none"]
  /\ crashes = 0

Goto(v, p) == pc' = [pc EXCEPT ![v] = p]

Qty(v, l) == receipt[mine[v]].qty[l]

\* The order's row is locked from tx.purchaseOrder.update to the commit.
OrderFree(o) == \A v \in Validates : ~(pc[v] = "set" /\ receipt[mine[v]].order = o)

-----------------------------------------------------------------------------
(***************************************************************************)
(* Purchase orders: create, send, cancel.                                  *)
(***************************************************************************)
CreateOrder(o) ==
  /\ order[o] = "absent"
  /\ order' = [order EXCEPT ![o] = "DRAFT"]
  /\ UNCHANGED <<approvalVars, send, cancel, receiveVars, crashes>>

SendGoto(s, p) == send' = [send EXCEPT ![s].at = p]

SendRead(s, o) ==
  /\ send[s].at = "idle"
  /\ order[o] = "DRAFT"
  /\ send' = [send EXCEPT ![s] = [at |-> "pending?", order |-> o]]
  /\ UNCHANGED <<approvalVars, order, cancel, receiveVars, crashes>>

\* The three reads of requests, each a statement of its own.
SendLook(s) ==
  LET has(status) == RequestsWith(send[s].order, status) # {}
  IN /\ \/ send[s].at = "pending?" /\ SendGoto(s, IF has("PENDING") THEN "ended" ELSE "rejected?")
        \/ send[s].at = "rejected?" /\ SendGoto(s, IF has("REJECTED") THEN "ended" ELSE "approved?")
        \/ send[s].at = "approved?" /\ SendGoto(s, IF has("APPROVED") THEN "write" ELSE "rule?")
        \/ send[s].at = "rule?" /\ SendGoto(s, IF NeedsApproval(send[s].order) THEN "ask" ELSE "write")
     /\ UNCHANGED <<approvalVars, order, cancel, receiveVars, crashes>>

\* Mutant: the call does not return with the request it made.
SendHoldGoesOn(s) ==
  /\ send[s].at = "ask"
  /\ CreateRequest(s, send[s].order)
  /\ SendGoto(s, "write")
  /\ UNCHANGED <<order, cancel, receiveVars, crashes>>

SendHold(s) ==
  /\ send[s].at = "ask"
  /\ CreateRequest(s, send[s].order)
  /\ SendGoto(s, "ended")
  /\ UNCHANGED <<order, cancel, receiveVars, crashes>>

SendWrite(s) ==
  /\ send[s].at = "write"
  /\ OrderFree(send[s].order)
  /\ order' = [order EXCEPT ![send[s].order] = "SENT"]
  /\ SendGoto(s, "ended")
  /\ UNCHANGED <<approvalVars, cancel, receiveVars, crashes>>

CancelRead(c, o) ==
  /\ cancel[c].at = "idle"
  /\ order[o] \notin Closed \cup {"absent"}
  /\ cancel' = [cancel EXCEPT ![c] = [at |-> "write", order |-> o]]
  /\ UNCHANGED <<approvalVars, order, send, receiveVars, crashes>>

CancelWrite(c) ==
  /\ cancel[c].at = "write"
  /\ OrderFree(cancel[c].order)
  /\ order' = [order EXCEPT ![cancel[c].order] = "CANCELLED"]
  /\ cancel' = [cancel EXCEPT ![c].at = "ended"]
  /\ UNCHANGED <<approvalVars, send, receiveVars, crashes>>

-----------------------------------------------------------------------------
(***************************************************************************)
(* GoodsReceiptsService.create: the order is read and checked, then the    *)
(* draft inserted.                                                         *)
(***************************************************************************)
ReceiptRead(g, o) ==
  /\ receipt[g].status = "absent"
  /\ order[o] \notin Closed \cup {"absent"}
  /\ \E q \in [LinesOf(o) -> Quantities \cup {Omitted}] :
       /\ \E l \in LinesOf(o) : q[l] # Omitted
       /\ receipt' = [receipt EXCEPT ![g] =
            Row("creating", o, [l \in Lines |-> IF l \in LinesOf(o) THEN q[l] ELSE Omitted])]
  /\ UNCHANGED <<approvalVars, orderVars, callVars, deltas, goods, entry, crashes>>

ReceiptInsert(g) ==
  /\ receipt[g].status = "creating"
  /\ receipt' = [receipt EXCEPT ![g].status = "DRAFT"]
  /\ UNCHANGED <<approvalVars, orderVars, callVars, deltas, goods, entry, crashes>>

-----------------------------------------------------------------------------
(***************************************************************************)
(* Row locks of the receiving transactions.                                *)
(***************************************************************************)
Holds(v) ==
  {<<"stock", p>> : p \in {q \in Products : dStock[v][q] > 0}}
    \cup {<<"line", l>> : l \in {k \in Lines : dLine[v][k] # Unlocked}}
    \cup (IF pc[v] = "set" THEN {<<"order", receipt[mine[v]].order>>} ELSE {})

Wants(v) ==
  CASE pc[v] = "stock"   -> {<<"stock", ProductOf[cur[v]]>>}
    [] pc[v] = "line"    -> {<<"line", cur[v]>>}
    [] pc[v] = "tallied" -> {<<"order", receipt[mine[v]].order>>}
    [] OTHER -> {}

WaitsFor(v, w) == v # w /\ Wants(v) \cap Holds(w) # {}

MayLock(v) == \A w \in Validates : ~WaitsFor(v, w)

Deadlocked(v) ==
  Wants(v) # {} /\ \E S \in SUBSET Validates :
    /\ v \in S
    /\ \A x \in S : (\E y \in S : WaitsFor(x, y)) /\ (\E y \in S : WaitsFor(y, x))

-----------------------------------------------------------------------------
(***************************************************************************)
(* GoodsReceiptsService.validate.                                          *)
(***************************************************************************)
\* Mutant: the receipt is marked before its goods are entered.
ValidateMarksFirst(v, g) ==
  /\ pc[v] = "idle"
  /\ receipt[g].status = "DRAFT"
  /\ Goto(v, "open")
  /\ receipt' = [receipt EXCEPT ![g].status = "VALIDATED"]
  /\ mine' = [mine EXCEPT ![v] = g]
  /\ was' = [was EXCEPT ![v] = order[receipt[g].order]]
  /\ todo' = [todo EXCEPT ![v] = {l \in Lines : receipt[g].qty[l] # Omitted}]
  /\ UNCHANGED <<approvalVars, orderVars, cur, next, deltas, goods, entry, crashes>>

\* The status of the receipt is checked before the transaction.
ValidateRead(v, g) ==
  /\ pc[v] = "idle"
  /\ receipt[g].status = "DRAFT"
  /\ Goto(v, "open")
  /\ mine' = [mine EXCEPT ![v] = g]
  /\ was' = [was EXCEPT ![v] = order[receipt[g].order]]
  /\ todo' = [todo EXCEPT ![v] = {l \in Lines : receipt[g].qty[l] # Omitted}]
  /\ UNCHANGED <<approvalVars, orderVars, receipt, cur, next, deltas, goods, entry, crashes>>

Begin(v, l) ==
  /\ pc[v] = "open"
  /\ l \in todo[v]
  /\ cur' = [cur EXCEPT ![v] = l]
  /\ Goto(v, IF Qty(v, l) > 0 THEN "stock" ELSE "line")
  /\ UNCHANGED <<approvalVars, orderVars, receipt, mine, was, todo, next, deltas, goods, entry, crashes>>

\* The upsert of the stock row, the lot and the movement.
StockIn(v) ==
  /\ pc[v] = "stock"
  /\ MayLock(v)
  /\ dStock' = [dStock EXCEPT ![v][ProductOf[cur[v]]] = @ + Qty(v, cur[v])]
  /\ Goto(v, "line")
  /\ UNCHANGED <<approvalVars, orderVars, receipt, mine, was, todo, cur, next, dLine, goods, entry, crashes>>

LineIn(v) ==
  /\ pc[v] = "line"
  /\ MayLock(v)
  /\ dLine' = [dLine EXCEPT ![v][cur[v]] = Qty(v, cur[v])]
  /\ todo' = [todo EXCEPT ![v] = @ \ {cur[v]}]
  /\ Goto(v, "open")
  /\ UNCHANGED <<approvalVars, orderVars, receipt, mine, was, cur, next, dStock, goods, entry, crashes>>

\* What the transaction reads: committed quantities and its own.
Received(v, l) == received[l] + (IF dLine[v][l] = Unlocked THEN 0 ELSE dLine[v][l])

\* Mutant: some for every.
NextStatusSome(v, o) ==
  IF \E l \in LinesOf(o) : Received(v, l) >= Ordered[l] THEN "RECEIVED"
  ELSE IF \E l \in LinesOf(o) : Received(v, l) > 0 THEN "PARTIALLY_RECEIVED"
  ELSE was[v]

NextStatus(v, o) ==
  IF \A l \in LinesOf(o) : Received(v, l) >= Ordered[l] THEN "RECEIVED"
  ELSE IF \E l \in LinesOf(o) : Received(v, l) > 0 THEN "PARTIALLY_RECEIVED"
  ELSE was[v]

Tally(v) ==
  /\ pc[v] = "open"
  /\ todo[v] = {}
  /\ next' = [next EXCEPT ![v] = NextStatus(v, receipt[mine[v]].order)]
  /\ Goto(v, "tallied")
  /\ UNCHANGED <<approvalVars, orderVars, receipt, mine, was, todo, cur, deltas, goods, entry, crashes>>

SetStatus(v) ==
  /\ pc[v] = "tallied"
  /\ MayLock(v)
  /\ Goto(v, "set")
  /\ UNCHANGED <<approvalVars, orderVars, receipt, mine, was, todo, cur, next, deltas, goods, entry, crashes>>

Rollback(v) ==
  /\ dStock' = [dStock EXCEPT ![v] = NoStock]
  /\ dLine' = [dLine EXCEPT ![v] = NoLines]

Enter(v, g) ==
  /\ Goto(v, "committed")
  /\ order' = [order EXCEPT ![receipt[g].order] = next[v]]
  /\ receipt' = [receipt EXCEPT ![g].status = "VALIDATED"]
  /\ stock' = [p \in Products |-> stock[p] + dStock[v][p]]
  /\ lots' = [p \in Products |-> lots[p] + (IF TrackLots[p] THEN dStock[v][p] ELSE 0)]
  /\ moved' = [p \in Products |-> moved[p] + dStock[v][p]]
  /\ times' = [times EXCEPT ![g] = @ + 1]
  /\ Rollback(v)
  /\ UNCHANGED <<approvalVars, send, cancel, mine, was, todo, cur, next, entry, crashes>>

\* tx.goodsReceipt.update, and the transaction commits.
Commit(v) ==
  /\ pc[v] = "set"
  /\ Enter(v, mine[v])
  /\ received' = [l \in Lines |-> Received(v, l)]

BreakDeadlock(v) ==
  /\ Deadlocked(v)
  /\ Goto(v, "failed")
  /\ Rollback(v)
  /\ UNCHANGED <<approvalVars, orderVars, receipt, mine, was, todo, cur, next, goods, entry, crashes>>

\* postAccountingEntry, best effort: no entry is fine, and one may stay unlinked.
PostEntry(v) ==
  /\ pc[v] = "committed"
  /\ \/ Goto(v, "ended") /\ entry' \in {[entry EXCEPT ![v] = e] : e \in {"none", "unlinked"}}
     \/ Goto(v, "posted") /\ entry' = [entry EXCEPT ![v] = "unlinked"]
  /\ UNCHANGED <<approvalVars, orderVars, receipt, mine, was, todo, cur, next, deltas, goods, crashes>>

LinkEntry(v) ==
  /\ pc[v] = "posted"
  /\ Goto(v, "ended")
  /\ entry' = [entry EXCEPT ![v] = "linked"]
  /\ UNCHANGED <<approvalVars, orderVars, receipt, mine, was, todo, cur, next, deltas, goods, crashes>>

Settled(at) == at \in {"idle", "ended", "failed"}

Stopped(calls) == [x \in DOMAIN calls |-> IF calls[x].at = "idle" THEN calls[x]
                                           ELSE [calls[x] EXCEPT !.at = "ended"]]

Crash ==
  /\ crashes < MaxCrashes
  /\ crashes' = crashes + 1
  /\ DecisionsLost
  /\ send' = Stopped(send) /\ cancel' = Stopped(cancel)
  /\ receipt' = [g \in Receipts |-> IF receipt[g].status = "creating"
                                    THEN [receipt[g] EXCEPT !.status = "lost"] ELSE receipt[g]]
  /\ pc' = [v \in Validates |-> IF Settled(pc[v]) THEN pc[v]
                                ELSE IF pc[v] \in {"committed", "posted"} THEN "ended" ELSE "failed"]
  /\ dStock' = [v \in Validates |-> NoStock]
  /\ dLine' = [v \in Validates |-> NoLines]
  /\ UNCHANGED <<rules, request, approved, ruleEdits, order, mine, was, todo, cur, next, goods, entry>>

Ordering ==
  \/ \E o \in Orders : CreateOrder(o)
  \/ \E s \in Sends : (\E o \in Orders : SendRead(s, o)) \/ SendLook(s) \/ SendHold(s) \/ SendWrite(s)
  \/ \E c \in Cancels : (\E o \in Orders : CancelRead(c, o)) \/ CancelWrite(c)

Receiving == \E g \in Receipts : (\E o \in Orders : ReceiptRead(g, o)) \/ ReceiptInsert(g)

ValidateStep(v) ==
  \/ \E l \in Lines : Begin(v, l)
  \/ StockIn(v)
  \/ LineIn(v)
  \/ Tally(v)
  \/ SetStatus(v)
  \/ Commit(v)
  \/ BreakDeadlock(v)
  \/ PostEntry(v)
  \/ LinkEntry(v)

Next ==
  /\ \/ ApprovalsNext /\ UNCHANGED <<orderVars, receiveVars, crashes>>
     \/ Ordering
     \/ Receiving
     \/ \E v \in Validates : ValidateStep(v) \/ \E g \in Receipts : ValidateRead(v, g)
     \/ Crash
  /\ UNCHANGED plan

Spec == Init /\ [][Next]_vars

-----------------------------------------------------------------------------
\* What the commits of receipt g entered of line l, and the lines of a product.
Entered(g, l) == IF receipt[g].qty[l] = Omitted THEN 0 ELSE times[g] * receipt[g].qty[l]

LinesFor(p) == {l \in Lines : ProductOf[l] = p}

(***************************************************************************)
(* A draft has entered nothing and a validated receipt has entered all its *)
(* lines, through deadlocks, rollbacks and restarts; and what all lines of *)
(* a product have received is what came into its stock, is what its        *)
(* movements say and, if it is tracked, what its new lots hold.            *)
(***************************************************************************)
StockIsReceived ==
  /\ \A g \in Receipts : receipt[g].status = "VALIDATED" <=> times[g] > 0
  /\ \A l \in Lines :
       received[l] = SumFunction([g \in Receipts |-> Entered(g, l)])
  /\ \A p \in Products :
       LET in == SumFunctionOnSet(received, LinesFor(p))
       IN stock[p] = in /\ moved[p] = in /\ (TrackLots[p] => lots[p] = in)

(***************************************************************************)
(* An order is RECEIVED only if every line has received what was ordered:  *)
(* of two transactions that complete it together each may miss the other's *)
(* line and leave it PARTIALLY_RECEIVED, never the reverse.                *)
(***************************************************************************)
ReceivedIsComplete ==
  \A o \in Orders : order[o] = "RECEIVED" => \A l \in LinesOf(o) : received[l] >= Ordered[l]

(***************************************************************************)
(* Above the threshold of a rule an order is sent only once a request for  *)
(* it was approved, however the calls that send it and the decisions       *)
(* interleave.                                                             *)
(***************************************************************************)
SentWasApproved ==
  ruleEdits = 0 =>
    \A o \in Orders : (order[o] = "SENT" /\ plan.order[o] # "SENT" /\ NeedsApproval(o)) => o \in approved
=============================================================================
