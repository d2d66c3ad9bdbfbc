----------------------------- MODULE StockMoves -----------------------------
(***************************************************************************)
(* Transfers between warehouses, manual adjustments and the sales they     *)
(* compete with (stock/stock-transfers.service.ts,                         *)
(* stock/stock-movements.service.ts, pos/stock.service.ts).                *)
(*                                                                         *)
(* A bin is a product in a warehouse, the key of a Stock row.  Quantities  *)
(* are checked by one statement and changed by another.  A transfer has    *)
(* one line: how several lines of one transaction lock their rows and roll *)
(* back is the subject of Sales, as is the choice among the lots of a bin. *)
(***************************************************************************)
EXTENDS Calls, Functions

CONSTANTS Bins,         \* pairs of product and warehouse
          Tracked,      \* products sold by lots
          OpeningStock, \* OpeningStock[b]: the quantity of the Stock row, or None
          OpeningLots,  \* OpeningLots[b]: the quantity of the lots of b
          Moves,        \* documents that are transfers
          Move,         \* Move[t]: from, to (bins of one product), quantity
          Counts,       \* documents that are adjustments
          Count,        \* Count[a]: bin, delta
          Sellings,     \* documents that are sales of one line
          Selling       \* Selling[v]: bin, quantity

ASSUME StockMovesAssumption ==
  /\ None \notin Int
  /\ OpeningStock \in [Bins -> Int \cup {None}] /\ OpeningLots \in [Bins -> Int]
  /\ Moves \cup Counts \cup Sellings \subseteq Docs
  /\ Move \in [Moves -> [from : Bins, to : Bins, quantity : Nat]]
  /\ \A t \in Moves : /\ Move[t].from # Move[t].to
                      /\ Move[t].from[1] = Move[t].to[1]
  /\ Count \in [Counts -> [bin : Bins, delta : Int]]
  /\ Selling \in [Sellings -> [bin : Bins, quantity : Nat]]

VARIABLES stock,    \* stock[b]: the quantity of the Stock row, or None without a row
          lots,     \* lots[b]: what the lots of b hold
          net,      \* net[b]: the movements into b less those out of it
          move,     \* move[t]: the status of transfer t, or "absent"
          credited, \* credited[t]: receptions of t
          sales,    \* sales that are committed
          counted,  \* adjustments that have changed a row
          rowless,  \* bins adjusted downwards before they had a row
          bought    \* bought[b]: what came into b from suppliers

stockVars == <<stock, lots, net, move, credited, sales, counted, rowless, bought>>

StockInit ==
  /\ stock = OpeningStock
  /\ lots = OpeningLots
  /\ net = [b \in Bins |-> 0]
  /\ move = [t \in Moves |-> "absent"]
  /\ credited = [t \in Moves |-> 0]
  /\ sales = {} /\ counted = {} /\ rowless = {}
  /\ bought = [b \in Bins |-> 0]

Quantity(b) == IF stock[b] = None THEN 0 ELSE stock[b]
Holds(b, n) == stock[b] # None /\ Quantity(b) >= n
Add(b, n)   == [stock EXCEPT ![b] = Quantity(b) + n]
Book(b, n)  == net' = [net EXCEPT ![b] = net[b] + n]

-----------------------------------------------------------------------------
(***************************************************************************)
(* Transfers.                                                              *)
(***************************************************************************)
CreateMove(k, t) ==
  /\ move[t] = "absent" /\ InFlight(t) = {}
  /\ Holds(Move[t].from, Move[t].quantity)
  /\ Enter(k, "ship", t, 0, <<>>)
  /\ UNCHANGED stockVars

Ship(k) ==
  /\ At(k, "ship")
  /\ move' = [move EXCEPT ![Doc(k)] = "IN_TRANSIT"]
  /\ stock' = Add(Move[Doc(k)].from, 0 - Move[Doc(k)].quantity)
  /\ Book(Move[Doc(k)].from, 0 - Move[Doc(k)].quantity)
  /\ Leave(k)
  /\ UNCHANGED <<lots, credited, sales, counted, rowless, bought>>

\* The status is read before the transaction.
ReceiveMove(k, t) ==
  /\ move[t] = "IN_TRANSIT"
  /\ Enter(k, "credit", t, 0, <<>>)
  /\ UNCHANGED stockVars

\* Mutant: the transfer stays in transit.
CreditOnly(k) ==
  /\ At(k, "credit")
  /\ credited' = [credited EXCEPT ![Doc(k)] = credited[Doc(k)] + 1]
  /\ stock' = Add(Move[Doc(k)].to, Move[Doc(k)].quantity)
  /\ Book(Move[Doc(k)].to, Move[Doc(k)].quantity)
  /\ Leave(k)
  /\ UNCHANGED <<move, lots, sales, counted, rowless, bought>>

Credit(k) ==
  /\ At(k, "credit")
  /\ move' = [move EXCEPT ![Doc(k)] = "RECEIVED"]
  /\ credited' = [credited EXCEPT ![Doc(k)] = credited[Doc(k)] + 1]
  /\ stock' = Add(Move[Doc(k)].to, Move[Doc(k)].quantity)
  /\ Book(Move[Doc(k)].to, Move[Doc(k)].quantity)
  /\ Leave(k)
  /\ UNCHANGED <<lots, sales, counted, rowless, bought>>

-----------------------------------------------------------------------------
(***************************************************************************)
(* Sales: by lots, which alone are looked at, or by the row.               *)
(***************************************************************************)
Lotted(b) == b[1] \in Tracked

Sell(k, v) ==
  LET b == Selling[v].bin
  IN /\ v \notin sales /\ InFlight(v) = {}
     /\ IF Lotted(b) THEN lots[b] >= Selling[v].quantity ELSE Holds(b, Selling[v].quantity)
     /\ Enter(k, "deduct", v, 0, <<>>)
     /\ UNCHANGED stockVars

\* Updating a row that does not exist is an error, and the sale rolls back.
Deduct(k) ==
  LET b == Selling[Doc(k)].bin
      n == Selling[Doc(k)].quantity
  IN /\ At(k, "deduct")
     /\ IF stock[b] = None THEN UNCHANGED <<stock, lots, net, sales>>
        ELSE /\ stock' = Add(b, 0 - n)
             /\ lots' = IF Lotted(b) THEN [lots EXCEPT ![b] = lots[b] - n] ELSE lots
             /\ Book(b, 0 - n)
             /\ sales' = sales \cup {Doc(k)}
     /\ Leave(k)
     /\ UNCHANGED <<move, credited, counted, rowless, bought>>

-----------------------------------------------------------------------------
(***************************************************************************)
(* Adjustments: the upsert of the row, then the insert of the movement.    *)
(***************************************************************************)
Adjust(k, a) ==
  LET b == Count[a].bin
      n == Count[a].delta
  IN /\ a \notin counted
     /\ stock' = IF stock[b] = None /\ n < 0 THEN Add(b, 0) ELSE Add(b, n)
     /\ rowless' = IF stock[b] = None /\ n < 0 THEN rowless \cup {b} ELSE rowless
     /\ counted' = counted \cup {a}
     /\ Enter(k, "log", a, 0, <<>>)
     /\ UNCHANGED <<lots, net, move, credited, sales, bought>>

LogCount(k) ==
  /\ At(k, "log")
  /\ Book(Count[Doc(k)].bin, Count[Doc(k)].delta)
  /\ Leave(k)
  /\ UNCHANGED <<stock, lots, move, credited, sales, counted, rowless, bought>>

StockGoesOn(k) == Ship(k) \/ Credit(k) \/ Deduct(k) \/ LogCount(k)

StockStep(k) ==
  \/ \E t \in Moves : CreateMove(k, t) \/ ReceiveMove(k, t)
  \/ \E v \in Sellings : Sell(k, v)
  \/ \E a \in Counts : Adjust(k, a)
  \/ StockGoesOn(k)

-----------------------------------------------------------------------------
SoldFrom(b) == {v \in sales : Selling[v].bin = b}
Logged(b)   == \A a \in Counts : Count[a].bin = b => a \notin cut /\ InFlight(a) = {}
Taken       == [v \in Sellings |-> Selling[v].quantity]

(***************************************************************************)
(* A transfer is credited as often as it is received: once, unless two     *)
(* receptions crossed.  A row differs from its opening by its movements,   *)
(* unless an adjustment stopped between the two or had no row to take      *)
(* from.  The lots of a bin have gained what was bought and lost what was  *)
(* sold, and nothing else: what is in transit can still be sold by lots.   *)
(***************************************************************************)
GoodsConserved ==
  /\ \A t \in Moves : /\ move[t] = "RECEIVED" <=> credited[t] > 0
                      /\ t \in crossed \/ credited[t] <= 1
  /\ \A b \in Bins : b \notin rowless /\ Logged(b) =>
       Quantity(b) = net[b] + (IF OpeningStock[b] = None THEN 0 ELSE OpeningStock[b])
  /\ \A b \in Bins : Lotted(b) =>
       lots[b] + SumFunctionOnSet(Taken, SoldFrom(b)) = OpeningLots[b] + bought[b]
=============================================================================
