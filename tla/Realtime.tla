------------------------------ MODULE Realtime ------------------------------
(***************************************************************************)
(* The list of open carts that every terminal of a store shows, kept up    *)
(* to date by socket events (realtime/pos.gateway.ts, the emissions of     *)
(* pos/carts.service.ts and pos/sales.service.ts, usePosSocket.ts and      *)
(* caisse/page.tsx of the POS).                                            *)
(*                                                                         *)
(* An event is a snapshot of a cart, emitted once to the sockets in the    *)
(* room at that moment.  The terminal loads the whole list when its page   *)
(* is mounted, when its drawer is opened and after each sale, not when its *)
(* socket comes back.  A terminal only watches; the requests on carts come *)
(* from anywhere.                                                          *)
(***************************************************************************)
EXTENDS Calls, SequencesExt

CONSTANTS CartsOnShow, \* documents that are carts of the store
          OldCarts,    \* those that are open already
          Terminals,   \* pages that show the list
          MaxFetches   \* bound: loads of the list a page waits for at a time

ASSUME RealtimeAssumption == CartsOnShow \subseteq Docs /\ OldCarts \subseteq CartsOnShow

VARIABLES version,  \* version[c]: 0 before c exists, then one more with every change
          open,     \* carts that are ACTIVE
          link,     \* link[t]: the socket of t
          wire,     \* wire[t]: events on their way to t, oldest first
          shown,    \* shown[t]: the version of each cart on the screen, 0 for none
          fetches,  \* fetches[t]: loads under way: what was read, what is newer than that
          missed    \* missed[t]: carts that changed and whose event the screen never had

realtimeVars == <<version, open, link, wire, shown, fetches, missed>>
serverVars   == <<version, open>>
socketVars   == <<link, wire>>
screenVars   == <<shown, fetches, missed>>

Blank == [c \in CartsOnShow |-> 0]
Asked == [read |-> FALSE, snap |-> Blank, newer |-> {}]

RealtimeInit ==
  /\ open = OldCarts
  /\ version = [c \in CartsOnShow |-> IF c \in open THEN 1 ELSE 0]
  /\ link = [t \in Terminals |-> "off"]
  /\ wire = [t \in Terminals |-> <<>>]
  /\ shown = [t \in Terminals |-> Blank]
  /\ fetches = [t \in Terminals |-> <<>>]
  /\ missed = [t \in Terminals |-> CartsOnShow]

Visible(c) == IF c \in open THEN version[c] ELSE 0

\* What a load has read of c is not what c shows after an event.
Outdate(list, c, sight) ==
  [n \in DOMAIN list |-> IF list[n].read /\ list[n].snap[c] # sight
                         THEN [list[n] EXCEPT !.newer = @ \cup {c}] ELSE list[n]]

\* The terminals of T have no way to learn what c now is.
Miss(T, c, sight) ==
  /\ missed' = [t \in Terminals |-> IF t \in T THEN missed[t] \cup {c} ELSE missed[t]]
  /\ fetches' = [t \in Terminals |-> IF t \in T THEN Outdate(fetches[t], c, sight)
                                     ELSE fetches[t]]

-----------------------------------------------------------------------------
(***************************************************************************)
(* The API: a change, a read of the cart, an emission.                     *)
(***************************************************************************)
Joined == {t \in Terminals : link[t] = "joined"}

\* A new cart is announced to nobody.
OpenCart(k, c) ==
  /\ version[c] = 0
  /\ AtOnce(k, c)
  /\ version' = [version EXCEPT ![c] = 1]
  /\ open' = open \cup {c}
  /\ Miss(Terminals, c, 1)
  /\ UNCHANGED <<socketVars, shown>>

EditCart(k, c) ==
  /\ c \in open
  /\ Enter(k, "snapshot", c, 0, <<>>)
  /\ version' = [version EXCEPT ![c] = version[c] + 1]
  /\ UNCHANGED <<open, socketVars, screenVars>>

Snapshot(k) ==
  /\ At(k, "snapshot")
  /\ GotoWith(k, "emit_cart", Visible(Doc(k)))
  /\ UNCHANGED realtimeVars

SellCart(k, c) ==
  /\ c \in open
  /\ Enter(k, "emit_sale", c, 0, <<>>)
  /\ open' = open \ {c}
  /\ UNCHANGED <<version, socketVars, screenVars>>

Emit(event) ==
  /\ wire' = [t \in Terminals |-> IF t \in Joined THEN Append(wire[t], event) ELSE wire[t]]
  /\ Miss(Terminals \ Joined, event.cart, event.sight)
  /\ UNCHANGED <<serverVars, link, shown>>

EmitCartUpdated(k) ==
  /\ At(k, "emit_cart")
  /\ Emit([type |-> "cart:updated", cart |-> Doc(k), sight |-> Figure(k)])
  /\ Leave(k)

EmitSaleCompleted(k) ==
  /\ At(k, "emit_sale")
  /\ Emit([type |-> "sale:completed", cart |-> Doc(k), sight |-> 0])
  /\ Leave(k)

-----------------------------------------------------------------------------
(***************************************************************************)
(* The page: its socket.                                                   *)
(***************************************************************************)
\* The page is opened, or opened again; bound: when carts are in question.
Mount(t) ==
  /\ CartsOnShow \cap scope # {}
  /\ link' = [link EXCEPT ![t] = "connecting"]
  /\ wire' = [wire EXCEPT ![t] = <<>>]
  /\ shown' = [shown EXCEPT ![t] = Blank]
  /\ fetches' = [fetches EXCEPT ![t] = <<Asked>>]
  /\ missed' = [missed EXCEPT ![t] = CartsOnShow]
  /\ UNCHANGED <<callVars, serverVars>>

Connect(t) ==
  /\ link[t] = "connecting"
  /\ link' = [link EXCEPT ![t] = "joining"]
  /\ UNCHANGED <<callVars, serverVars, wire, screenVars>>

\* The socket presents the token the page had when it was mounted.  When that has
\* expired the API closes it, and a socket closed by its server does not come back.
Refuse(t) ==
  /\ link[t] = "connecting"
  /\ link' = [link EXCEPT ![t] = "refused"]
  /\ UNCHANGED <<callVars, serverVars, wire, screenVars>>

JoinStore(t) ==
  /\ link[t] = "joining"
  /\ link' = [link EXCEPT ![t] = "joined"]
  /\ UNCHANGED <<callVars, serverVars, wire, screenVars>>

\* What was on the way to the sockets of T is lost; they will be opened again.
Cut(T) ==
  /\ link' = [t \in Terminals |-> IF t \in T THEN "connecting" ELSE link[t]]
  /\ wire' = [t \in Terminals |-> IF t \in T THEN <<>> ELSE wire[t]]
  /\ missed' = [t \in Terminals |-> IF t \in T THEN missed[t] \cup {e.cart : e \in ToSet(wire[t])}
                                    ELSE missed[t]]
  /\ fetches' = [t \in Terminals |->
       IF t \in T THEN FoldLeft(LAMBDA list, e : Outdate(list, e.cart, e.sight), fetches[t], wire[t])
       ELSE fetches[t]]
  /\ UNCHANGED <<serverVars, shown>>

Disconnect(t) == link[t] \in {"joining", "joined"} /\ Cut({t}) /\ UNCHANGED callVars

SocketsDrop == Cut({t \in Terminals : link[t] \in {"joining", "joined"}})

-----------------------------------------------------------------------------
(***************************************************************************)
(* The page: its list.                                                     *)
(***************************************************************************)
ReceiveCart(t) ==
  LET e == Head(wire[t])
  IN /\ wire[t] # <<>> /\ e.type = "cart:updated"
     /\ wire' = [wire EXCEPT ![t] = Tail(wire[t])]
     /\ shown' = [shown EXCEPT ![t][e.cart] = e.sight]
     /\ missed' = [missed EXCEPT ![t] = missed[t] \ {e.cart}]
     /\ fetches' = [fetches EXCEPT ![t] = Outdate(fetches[t], e.cart, e.sight)]
     /\ UNCHANGED <<callVars, serverVars, link>>

\* Mutant: the list is not loaded again after a sale.
ReceiveNoSale(t) ==
  LET e == Head(wire[t])
  IN /\ wire[t] # <<>> /\ e.type = "sale:completed"
     /\ wire' = [wire EXCEPT ![t] = Tail(wire[t])]
     /\ fetches' = [fetches EXCEPT ![t] = Outdate(fetches[t], e.cart, e.sight)]
     /\ UNCHANGED <<callVars, serverVars, link, shown, missed>>

ReceiveSale(t) ==
  LET e == Head(wire[t])
  IN /\ wire[t] # <<>> /\ e.type = "sale:completed"
     /\ Len(fetches[t]) < MaxFetches
     /\ wire' = [wire EXCEPT ![t] = Tail(wire[t])]
     /\ fetches' = [fetches EXCEPT ![t] = Append(Outdate(fetches[t], e.cart, e.sight), Asked)]
     /\ UNCHANGED <<callVars, serverVars, link, shown, missed>>

\* Bound: when no load is under way.
OpenDrawer(t) ==
  /\ link[t] # "off" /\ fetches[t] = <<>>
  /\ fetches' = [fetches EXCEPT ![t] = Append(fetches[t], Asked)]
  /\ UNCHANGED <<callVars, serverVars, socketVars, shown, missed>>

ListActive(t, n) ==
  /\ ~fetches[t][n].read
  /\ fetches' = [fetches EXCEPT ![t][n] = [read  |-> TRUE, newer |-> {},
                                           snap  |-> [c \in CartsOnShow |-> Visible(c)]]]
  /\ UNCHANGED <<callVars, serverVars, socketVars, shown, missed>>

\* The last answer to come in is shown, whatever the order of the questions.
LoadActiveCarts(t, n) ==
  /\ fetches[t][n].read
  /\ shown' = [shown EXCEPT ![t] = fetches[t][n].snap]
  /\ missed' = [missed EXCEPT ![t] = fetches[t][n].newer]
  /\ fetches' = [fetches EXCEPT ![t] = RemoveAt(fetches[t], n)]
  /\ UNCHANGED <<callVars, serverVars, socketVars>>

\* Without an answer the page shows an empty list.
LoadFails(t, n) ==
  /\ shown' = [shown EXCEPT ![t] = Blank]
  /\ missed' = [missed EXCEPT ![t] = CartsOnShow]
  /\ fetches' = [fetches EXCEPT ![t] = RemoveAt(fetches[t], n)]
  /\ UNCHANGED <<callVars, serverVars, socketVars>>

CartStep(k) ==
  \/ \E c \in CartsOnShow : OpenCart(k, c) \/ EditCart(k, c) \/ SellCart(k, c)
  \/ Snapshot(k) \/ EmitCartUpdated(k) \/ EmitSaleCompleted(k)

TerminalStep(t) ==
  \/ Mount(t) \/ Connect(t) \/ JoinStore(t) \/ Refuse(t) \/ Disconnect(t)
  \/ ReceiveCart(t) \/ ReceiveSale(t) \/ OpenDrawer(t)
  \/ \E n \in DOMAIN fetches[t] : ListActive(t, n) \/ LoadActiveCarts(t, n) \/ LoadFails(t, n)

-----------------------------------------------------------------------------
(***************************************************************************)
(* A terminal in the room that waits for nothing shows each cart as it is, *)
(* and no cart that is sold: unless two requests on the cart crossed or    *)
(* one stopped, or the terminal was not in the room, or a load that was    *)
(* older than an event was answered after it.                              *)
(***************************************************************************)
Settled(t) == t \in Joined /\ wire[t] = <<>> /\ fetches[t] = <<>>

InSync ==
  \A t \in Terminals : Settled(t) =>
    \A c \in CartsOnShow \ missed[t] :
      Undisturbed(c) /\ InFlight(c) = {} => shown[t][c] = Visible(c)
=============================================================================
