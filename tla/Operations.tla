----------------------------- MODULE Operations -----------------------------
(***************************************************************************)
(* What the API does around the sales themselves, in one process: the      *)
(* requests on stock, reorder checks, reminders, sessions and carts share  *)
(* its slots and are all gone when it restarts.  The scheduler is a timer  *)
(* of that process: it starts a run when the process starts and goes on,   *)
(* as does every request that has begun.  Only the fairness of those that  *)
(* are about goods is stated: nothing else is asked to happen.             *)
(***************************************************************************)
EXTENDS Reorder, Reminders, Sessions, Realtime

\* Documents of different kinds are rows of different tables.
Tables == <<Moves, Counts, Sellings, {Checker}, Products, {Agenda}, Bills, Clients, CartsOnShow>>

ASSUME TablesAssumption == \A i, j \in DOMAIN Tables : i # j => Tables[i] \cap Tables[j] = {}

vars == <<callVars, stockVars, reorderVars, reminderVars, sessionVars, realtimeVars>>

goodsVars == <<stockVars, reorderVars>>

Init ==
  /\ CallsInit /\ StockInit /\ ReorderInit /\ RemindersInit /\ SessionsInit /\ RealtimeInit

Serve(k) ==
  \/ StockStep(k) /\ UNCHANGED <<reorderVars, reminderVars, sessionVars, realtimeVars>>
  \/ ReorderStep(k) /\ UNCHANGED <<reminderVars, sessionVars, realtimeVars>>
  \/ RemindersStep(k) /\ UNCHANGED <<goodsVars, sessionVars, realtimeVars>>
  \/ SessionsStep(k) /\ UNCHANGED <<goodsVars, reminderVars, realtimeVars>>
  \/ CartStep(k) /\ UNCHANGED <<goodsVars, reminderVars, sessionVars>>

\* A restart that finds no request drops the sockets, as each of them drops by itself.
Restart == Crash /\ SocketsDrop /\ UNCHANGED <<goodsVars, reminderVars, sessionVars>>

Around ==
  \/ \E c \in Clients : Expire(c) /\ UNCHANGED <<goodsVars, reminderVars, realtimeVars>>
  \/ \E t \in Terminals : TerminalStep(t) /\ UNCHANGED <<goodsVars, reminderVars, sessionVars>>

Next == (\E k \in Slots : Serve(k)) \/ Around \/ Restart

otherVars == <<reminderVars, sessionVars, realtimeVars>>

GoodsGoOn(k) ==
  \/ StockGoesOn(k) /\ UNCHANGED <<reorderVars, otherVars>>
  \/ CheckGoesOn(k) /\ UNCHANGED otherVars

Fairness ==
  /\ \A k \in Slots : WF_vars(GoodsGoOn(k))
  /\ WF_vars(\E k \in Slots : CheckByTimer(k) /\ UNCHANGED otherVars)

Spec == Init /\ [][Next]_vars /\ Fairness
=============================================================================
