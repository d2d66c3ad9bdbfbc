-------------------------------- MODULE Carts --------------------------------
(***************************************************************************)
(* Shared carts of the point of sale (modules/pos/carts.service.ts).       *)
(*                                                                         *)
(* A cart is edited by API calls that run concurrently: the cashier's      *)
(* terminal, a second terminal of the same store, the replay of an offline *)
(* queue.  Every call is a read (requireActiveCart and the checks made on  *)
(* what it returned) followed by one write; nothing holds the two          *)
(* together, so any other call may run in between.                         *)
(***************************************************************************)
EXTENDS Integers, FiniteSets

CONSTANTS Carts,        \* cart ids
          Products,     \* product ids
          Items,        \* cart-line ids
          Edits,        \* editing calls; a call that creates a line names it
          Quantities,   \* quantities a call may send (positive)
          Discounts,    \* discounts a call may send
          Overrides,    \* unit prices a call may send, Undefined included
          CatalogPrice, \* Product.sellingPrice
          NoItem,       \* a line id with no row (not created, or deleted)
          InitCart,     \* cart rows at the start
          InitItem      \* line rows at the start

Undefined == -1         \* an optional field the caller left out

CartStatus == {"absent", "ACTIVE", "CONVERTED"}

ItemRow == [cart: Carts, product: Products, qty: Nat, price: Nat, disc: Nat]

ASSUME CartsAssumption ==
  /\ Edits \subseteq Items
  /\ Quantities \subseteq Nat \ {0}
  /\ Discounts \subseteq Nat
  /\ Overrides \subseteq Nat \cup {Undefined}
  /\ CatalogPrice \in [Products -> Nat]
  /\ NoItem \notin ItemRow
  /\ InitCart \in [Carts -> {"absent", "ACTIVE"}]
  /\ InitItem \in [Items -> ItemRow \cup {NoItem}]
  /\ \A e \in Edits : InitItem[e] = NoItem

VARIABLES cart,   \* cart[c]: status of the cart row
          item,   \* item[i]: the CartItem row, or NoItem
          edit    \* edit[e]: what call e has decided to write

cartVars == <<cart, item, edit>>

(***************************************************************************)
(* The write a call is left with once its read and its checks are done.    *)
(***************************************************************************)
Write == [op: {"create"}, row: ItemRow]
    \cup [op: {"increment"}, item: Items, qty: Nat, disc: Nat]
    \cup [op: {"set"}, item: Items, qty: Nat \cup {Undefined},
                                    disc: Nat \cup {Undefined}]
    \cup [op: {"delete"}, item: Items]

Idle  == [op |-> "idle"]
Ended == [op |-> "ended"]

CartsInit ==
  /\ cart = InitCart
  /\ item = InitItem
  /\ edit = [e \in Edits |-> Idle]

Present(i) == item[i] # NoItem

CartLines(c) == {i \in Items : Present(i) /\ item[i].cart = c}

LineTotal(row) == row.qty * row.price

\* assertDiscountWithinLineTotal
DiscountAllowed(price, qty, disc) == disc <= price * qty

OrElse(new, old) == IF new = Undefined THEN old ELSE new

-----------------------------------------------------------------------------
CreateCart(c) ==
  /\ cart[c] = "absent"
  /\ cart' = [cart EXCEPT ![c] = "ACTIVE"]
  /\ UNCHANGED <<item, edit>>

Decide(e, write) ==
  /\ edit[e].op = "idle"
  /\ edit' = [edit EXCEPT ![e] = write]
  /\ UNCHANGED <<cart, item>>

(***************************************************************************)
(* addItem, up to its write: the line of that product, if the cart has     *)
(* one, gets the quantity and the discount of the call but keeps its own   *)
(* price; the discount was checked against the price of the call.          *)
(***************************************************************************)
AddItemRead(e, c, p, q, d, o) ==
  LET price    == OrElse(o, CatalogPrice[p])
      existing == {i \in CartLines(c) : item[i].product = p}
  IN /\ cart[c] = "ACTIVE"
     /\ \/ /\ existing = {}
           /\ DiscountAllowed(price, q, d)
           /\ Decide(e, [op |-> "create",
                         row |-> [cart |-> c, product |-> p, qty |-> q,
                                  price |-> price, disc |-> d]])
        \/ \E i \in existing :
             /\ DiscountAllowed(price, item[i].qty + q, d)
             /\ Decide(e, [op |-> "increment", item |-> i, qty |-> q, disc |-> d])

UpdateItemRead(e, c, i, q, d) ==
  /\ cart[c] = "ACTIVE"
  /\ i \in CartLines(c)
  /\ DiscountAllowed(item[i].price, OrElse(q, item[i].qty), OrElse(d, item[i].disc))
  /\ Decide(e, [op |-> "set", item |-> i, qty |-> q, disc |-> d])

RemoveItemRead(e, c, i) ==
  /\ cart[c] = "ACTIVE"
  /\ i \in CartLines(c)
  /\ Decide(e, [op |-> "delete", item |-> i])

-----------------------------------------------------------------------------
(***************************************************************************)
(* The single write statement of each call.  An update or a delete of a    *)
(* row another call removed throws, and the call ends with no effect.      *)
(***************************************************************************)
End(e) == edit' = [edit EXCEPT ![e] = Ended] /\ UNCHANGED cart

WriteCreate(e) ==
  /\ edit[e].op = "create"
  /\ item' = [item EXCEPT ![e] = edit[e].row]
  /\ End(e)

WriteIncrement(e) ==
  /\ edit[e].op = "increment"
  /\ Present(edit[e].item)
  /\ item' = [item EXCEPT ![edit[e].item].qty = @ + edit[e].qty,
                          ![edit[e].item].disc = edit[e].disc]
  /\ End(e)

WriteSet(e) ==
  /\ edit[e].op = "set"
  /\ Present(edit[e].item)
  /\ item' = [item EXCEPT ![edit[e].item].qty = OrElse(edit[e].qty, @),
                          ![edit[e].item].disc = OrElse(edit[e].disc, @)]
  /\ End(e)

WriteDelete(e) ==
  /\ edit[e].op = "delete"
  /\ Present(edit[e].item)
  /\ item' = [item EXCEPT ![edit[e].item] = NoItem]
  /\ End(e)

WriteMissing(e) ==
  /\ edit[e].op \in {"increment", "set", "delete"}
  /\ ~Present(edit[e].item)
  /\ UNCHANGED item
  /\ End(e)

EditRead(e) ==
  \E c \in Carts :
    \/ \E p \in Products, q \in Quantities, d \in Discounts, o \in Overrides :
         AddItemRead(e, c, p, q, d, o)
    \/ \E i \in Items, q \in Quantities \cup {Undefined},
          d \in Discounts \cup {Undefined} : UpdateItemRead(e, c, i, q, d)
    \/ \E i \in Items : RemoveItemRead(e, c, i)

EditWrite(e) ==
  \/ WriteCreate(e)
  \/ WriteIncrement(e)
  \/ WriteSet(e)
  \/ WriteDelete(e)
  \/ WriteMissing(e)

CartsNext ==
  \/ \E c \in Carts : CreateCart(c)
  \/ \E e \in Edits : EditRead(e) \/ EditWrite(e)

CartsSpec == CartsInit /\ [][CartsNext]_cartVars

-----------------------------------------------------------------------------
CartsTypeOK ==
  /\ cart \in [Carts -> CartStatus]
  /\ item \in [Items -> ItemRow \cup {NoItem}]
  /\ edit \in [Edits -> Write \cup {Idle, Ended}]
=============================================================================
