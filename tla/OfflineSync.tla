------------------------------ MODULE OfflineSync ------------------------------
(***************************************************************************)
(* The outbox of a point-of-sale terminal (packages/sync-client, the hook  *)
(* useOfflineSync and the page caisse that calls it).                      *)
(*                                                                         *)
(* An item scanned while the terminal is offline, or whose request fails,  *)
(* is stored in IndexedDB; every online event replays what is stored, one  *)
(* request after the other.  Only item additions are queued: a checkout is *)
(* a direct call.  The server applies an addition to an ACTIVE cart and    *)
(* refuses it otherwise; it does not recognise a request it has had        *)
(* before.                                                                 *)
(***************************************************************************)
EXTENDS Integers, SequencesExt

CONSTANTS Adds,         \* the additions the cashier makes: 1, 2, ... in that order
          Uuid,         \* Uuid[a]: the random id its mutation gets, as a rank
          Carts,        \* cart ids: 1, 2, ... in the order they are created
          Flushes,      \* flush calls that can run at the same time
          MaxNow,       \* bound: the clock (Date.now)
          MaxFaults,    \* bound: faults the terminal notices
          MaxCheckouts  \* bound: carts checked out

ASSUME SyncAssumption ==
  /\ Adds \subseteq Nat \ {0} /\ IsFiniteSet(Adds) /\ IsFiniteSet(Flushes)
  /\ Uuid \in [Adds -> Nat]
  /\ \A a, b \in Adds : Uuid[a] = Uuid[b] => a = b
  /\ 1 \in Carts /\ Carts \subseteq Nat \ {0}
  /\ MaxNow \in Nat /\ MaxFaults \in Nat /\ MaxCheckouts \in Nat

VARIABLES
  online,   \* navigator.onLine, and the connection itself
  mounted,  \* online, as it was when the page was loaded
  now,      \* the terminal's clock
  cur,      \* the cart on the screen (0: none)
  saved,    \* the cart id kept in localStorage (0: none)
  at,       \* at[a]: the cart addition a is for (0 before the scan)
  call,     \* call[a]: where addProductToCart stands for a
  store,    \* store[a]: createdAt of the stored mutation, or Absent
  flush,    \* flush[f]: a replay in progress
  late,     \* late[a]: requests whose caller gave up, still under way
  applied,  \* applied[a]: times the server has applied a
  cart,     \* cart[c]: status of the cart on the server
  faults    \* answers missed, reloads, and flushes started over another

shown  == <<cur, saved>>
server == <<applied, cart>>
vars   == <<online, mounted, now, shown, at, call, store, flush, late, server, faults>>

Absent == -1

NoFlush == [phase |-> "off", todo |-> <<>>]

Stored(a) == store[a] # Absent

Running == {f \in Flushes : flush[f].phase # "off"}

\* Calls of addProductToCart that have not been answered.
CallWaits(a) == call[a] \in {"wait", "ok", "refused"}

Init ==
  /\ online = TRUE /\ mounted = TRUE
  /\ now = 0
  /\ cur = 1 /\ saved = 1
  /\ at = [a \in Adds |-> 0]
  /\ call = [a \in Adds |-> "new"]
  /\ store = [a \in Adds |-> Absent]
  /\ flush = [f \in Flushes |-> NoFlush]
  /\ late = [a \in Adds |-> 0]
  /\ applied = [a \in Adds |-> 0]
  /\ cart = [c \in Carts |-> IF c = 1 THEN "ACTIVE" ELSE "absent"]
  /\ faults = 0

Fault == faults < MaxFaults /\ faults' = faults + 1

Fresh == {c \in Carts : cart[c] = "absent"}

-----------------------------------------------------------------------------
(***************************************************************************)
(* The environment: the clock and the connection.                          *)
(***************************************************************************)
Tick ==
  /\ now < MaxNow
  /\ now' = now + 1
  /\ UNCHANGED <<online, mounted, shown, at, call, store, flush, late, server, faults>>

Disconnect ==
  /\ online
  /\ online' = FALSE
  /\ UNCHANGED <<mounted, now, shown, at, call, store, flush, late, server, faults>>

\* The online event: flush is called whether or not another one still runs.
Reconnect(f) ==
  /\ ~online
  /\ online' = TRUE
  /\ f \notin Running
  /\ flush' = [flush EXCEPT ![f].phase = "list"]
  /\ IF Running = {} THEN UNCHANGED faults ELSE Fault
  /\ UNCHANGED <<mounted, now, shown, at, call, store, late, server>>

-----------------------------------------------------------------------------
(***************************************************************************)
(* What the server does with a request.                                    *)
(***************************************************************************)
Accepts(a) == cart[at[a]] = "ACTIVE"

Apply(a) == applied' = [applied EXCEPT ![a] = IF Accepts(a) THEN @ + 1 ELSE @]

Answer(a) == IF Accepts(a) THEN "ok" ELSE "refused"

ServeCall(a) ==
  /\ call[a] = "wait"
  /\ Apply(a)
  /\ call' = [call EXCEPT ![a] = Answer(a)]
  /\ UNCHANGED <<online, mounted, now, shown, at, store, flush, late, cart, faults>>

ServeFlush(f) ==
  /\ flush[f].phase = "wait"
  /\ LET a == Head(flush[f].todo) IN
       /\ Apply(a)
       /\ flush' = [flush EXCEPT ![f].phase = Answer(a)]
  /\ UNCHANGED <<online, mounted, now, shown, at, call, store, late, cart, faults>>

\* A request whose caller gave up arrives, or never does.
ServeLate(a) ==
  /\ late[a] > 0
  /\ late' = [late EXCEPT ![a] = @ - 1]
  /\ Apply(a) \/ UNCHANGED applied
  /\ UNCHANGED <<online, mounted, now, shown, at, call, store, flush, cart, faults>>

-----------------------------------------------------------------------------
(***************************************************************************)
(* addProductToCart: a direct request when online; the outbox when offline *)
(* and when the request failed, for whatever reason.  The barcode handler  *)
(* is created once, with the page, and keeps the value online had then.    *)
(***************************************************************************)
Scan(a) ==
  /\ call[a] = "new"
  /\ \A b \in Adds : b < a => call[b] # "new"
  /\ cur # 0
  /\ at' = [at EXCEPT ![a] = cur]
  /\ \/ call' = [call EXCEPT ![a] = IF online THEN "wait" ELSE "unsent"]
     \/ online /\ ~mounted /\ call' = [call EXCEPT ![a] = "unsent"]
  /\ UNCHANGED <<online, mounted, now, shown, store, flush, late, server, faults>>

CallAnswered(a) ==
  /\ call[a] \in {"ok", "refused"}
  /\ online
  /\ call' = [call EXCEPT ![a] = IF call[a] = "ok" THEN "done" ELSE "unsent"]
  /\ UNCHANGED <<online, mounted, now, shown, at, store, flush, late, server, faults>>

\* No answer comes: the request or its answer is lost, or late.
CallFails(a) ==
  /\ CallWaits(a)
  /\ Fault
  /\ call' = [call EXCEPT ![a] = "unsent"]
  /\ late' = [late EXCEPT ![a] = IF call[a] = "wait" THEN @ + 1 ELSE @]
  /\ UNCHANGED <<online, mounted, now, shown, at, store, flush, server>>

Enqueue(a) ==
  /\ call[a] = "unsent"
  /\ call' = [call EXCEPT ![a] = "queued"]
  /\ store' = [store EXCEPT ![a] = now]
  /\ UNCHANGED <<online, mounted, now, shown, at, flush, late, server, faults>>

-----------------------------------------------------------------------------
(***************************************************************************)
(* SyncQueue.replay.                                                       *)
(***************************************************************************)
Waiting == {a \in Adds : Stored(a)}

\* getAll lists by id; the sort on createdAt is stable.
Before(a, b) == store[a] < store[b] \/ (store[a] = store[b] /\ Uuid[a] < Uuid[b])

\* Mutant: the list is not sorted by time.
PendingById == SetToSortSeq(Waiting, LAMBDA a, b : Uuid[a] < Uuid[b])

Pending ==
  CHOOSE s \in SetToSeqs(Waiting) :
    \A i, j \in 1..Cardinality(Waiting) : i < j => Before(s[i], s[j])

List(f) ==
  /\ flush[f].phase = "list"
  /\ flush' = [flush EXCEPT ![f] = [phase |-> "send", todo |-> Pending]]
  /\ UNCHANGED <<online, mounted, now, shown, at, call, store, late, server, faults>>

Stop(f) == flush' = [flush EXCEPT ![f] = NoFlush]

Send(f) ==
  /\ flush[f].phase = "send"
  /\ flush[f].todo # <<>>
  /\ online
  /\ flush' = [flush EXCEPT ![f].phase = "wait"]
  /\ UNCHANGED <<online, mounted, now, shown, at, call, store, late, server, faults>>

\* Nothing left, or no connection to send on.
SendStops(f) ==
  /\ flush[f].phase = "send"
  /\ flush[f].todo = <<>> \/ ~online
  /\ Stop(f)
  /\ UNCHANGED <<online, mounted, now, shown, at, call, store, late, server, faults>>

\* Mutant: a mutation that was applied stays in the outbox.
AcknowledgeKeeps(f) ==
  /\ flush[f].phase = "ok"
  /\ online
  /\ flush' = [flush EXCEPT ![f] = [phase |-> "send", todo |-> Tail(flush[f].todo)]]
  /\ UNCHANGED <<online, mounted, now, shown, at, call, store, late, server, faults>>

\* Mutant: a replay sends the first mutation only.
AcknowledgeOne(f) ==
  /\ flush[f].phase = "ok"
  /\ online
  /\ store' = [store EXCEPT ![Head(flush[f].todo)] = Absent]
  /\ Stop(f)
  /\ UNCHANGED <<online, mounted, now, shown, at, call, late, server, faults>>

\* Mutant: the mutation is removed before its answer is known.
AcknowledgeEarly(f) ==
  /\ flush[f].phase = "wait"
  /\ store' = [store EXCEPT ![Head(flush[f].todo)] = Absent]
  /\ flush' = [flush EXCEPT ![f] = [phase |-> "send", todo |-> Tail(flush[f].todo)]]
  /\ UNCHANGED <<online, mounted, now, shown, at, call, late, server, faults>>

Acknowledge(f) ==
  /\ flush[f].phase = "ok"
  /\ online
  /\ store' = [store EXCEPT ![Head(flush[f].todo)] = Absent]
  /\ flush' = [flush EXCEPT ![f] = [phase |-> "send", todo |-> Tail(flush[f].todo)]]
  /\ UNCHANGED <<online, mounted, now, shown, at, call, late, server, faults>>

Refused(f) ==
  /\ flush[f].phase = "refused"
  /\ online
  /\ Stop(f)
  /\ UNCHANGED <<online, mounted, now, shown, at, call, store, late, server, faults>>

FlushFails(f) ==
  /\ flush[f].phase \in {"wait", "ok", "refused"}
  /\ Fault
  /\ Stop(f)
  /\ late' = [late EXCEPT ![Head(flush[f].todo)] =
                IF flush[f].phase = "wait" THEN @ + 1 ELSE @]
  /\ UNCHANGED <<online, mounted, now, shown, at, call, store, server>>

-----------------------------------------------------------------------------
\* The cart of the page: the saved one while it is ACTIVE, or a new one.
ShowCart(c) ==
  /\ cur' = c /\ saved' = c
  /\ cart' = [cart EXCEPT ![c] = "ACTIVE"]

(***************************************************************************)
(* confirmCheckout: a direct call, whatever the outbox holds.  The page    *)
(* moves to a fresh cart if it hears of the sale and can create one.       *)
(***************************************************************************)
SoldCarts == {c \in Carts : cart[c] = "CONVERTED"}

Checkout ==
  /\ Cardinality(SoldCarts) < MaxCheckouts
  /\ online /\ cur # 0
  /\ cart[cur] = "ACTIVE"
  /\ \E a \in Adds : at[a] = cur /\ applied[a] > 0
  /\ \/ \E c \in Fresh :
          /\ cur' = c /\ saved' = c
          /\ cart' = [cart EXCEPT ![cur] = "CONVERTED", ![c] = "ACTIVE"]
          /\ UNCHANGED faults
     \/ /\ cart' = [cart EXCEPT ![cur] = "CONVERTED"]
        /\ Fault
        /\ cur' = cur
        /\ saved' \in {saved, 0}
  /\ UNCHANGED <<online, mounted, now, at, call, store, flush, late, applied>>

\* The cashier picks a cart of the store from the list of active ones.
Resume(c) ==
  /\ cart[c] = "ACTIVE" /\ cur # c
  /\ cur' = c /\ saved' = c
  /\ UNCHANGED <<online, mounted, now, at, call, store, flush, late, server, faults>>

(***************************************************************************)
(* The page is reloaded: its calls are gone, the outbox is not, and the    *)
(* cart comes back from the server if the server can be reached.  Loading  *)
(* the page does not replay anything.                                      *)
(***************************************************************************)
Cut(a) == Cardinality({f \in Flushes : flush[f].phase = "wait" /\ Head(flush[f].todo) = a})
            + (IF call[a] = "wait" THEN 1 ELSE 0)

Reload ==
  /\ Fault
  /\ call' = [a \in Adds |-> IF CallWaits(a) \/ call[a] = "unsent" THEN "gone" ELSE call[a]]
  /\ flush' = [f \in Flushes |-> NoFlush]
  /\ late' = [a \in Adds |-> late[a] + Cut(a)]
  /\ \/ ~online /\ cur' = 0 /\ UNCHANGED <<saved, cart>>
     \/ online /\ saved # 0 /\ cart[saved] = "ACTIVE" /\ ShowCart(saved)
     \/ online /\ \E c \in Fresh : ShowCart(c)
  /\ mounted' = online
  /\ UNCHANGED <<online, now, at, store, applied>>

-----------------------------------------------------------------------------
FlushStep(f) ==
  \/ List(f)
  \/ Send(f)
  \/ SendStops(f)
  \/ ServeFlush(f)
  \/ Acknowledge(f)
  \/ Refused(f)

CallStep(a) ==
  \/ ServeCall(a)
  \/ CallAnswered(a)
  \/ Enqueue(a)

Next ==
  \/ Tick
  \/ Disconnect
  \/ \E f \in Flushes : Reconnect(f) \/ FlushStep(f) \/ FlushFails(f)
  \/ \E a \in Adds : Scan(a) \/ CallStep(a) \/ CallFails(a) \/ ServeLate(a)
  \/ Checkout
  \/ \E c \in Carts : Resume(c)
  \/ Reload

Spec == Init /\ [][Next]_vars

(***************************************************************************)
(* What the browser has started it goes on with, and the server answers    *)
(* what reaches it.  The connection itself is left free.                   *)
(***************************************************************************)
FairSpec == Spec /\ \A f \in Flushes : WF_vars(FlushStep(f))

-----------------------------------------------------------------------------
(***************************************************************************)
(* An addition the page is done with has reached the cart: it was answered *)
(* with success, or it left the outbox after the server applied it.        *)
(* Reloads, lost answers and flushes that overlap never make it vanish     *)
(* from both sides.                                                        *)
(***************************************************************************)
NothingVanishes ==
  \A a \in Adds : call[a] = "done" \/ (call[a] = "queued" /\ ~Stored(a)) => applied[a] > 0

(***************************************************************************)
(* Delivery is at least once; every further copy has a cause: an answer    *)
(* that was missed, a reload, or a flush started while another ran.        *)
(***************************************************************************)
CopiesHaveCauses == \A a \in Adds : applied[a] <= 1 + faults

(***************************************************************************)
(* A replay never applies a mutation while an older one is still waiting   *)
(* and unknown to the server (SyncQueue.replay stops at the first          *)
(* failure), even when two replays overlap.                                *)
(***************************************************************************)
OlderFirst ==
  \A f \in Flushes, a, b \in Adds :
    (flush[f].phase = "ok" /\ Head(flush[f].todo) = b /\ Stored(a) /\ Stored(b)
       /\ store[a] < store[b]) => applied[a] > 0

(***************************************************************************)
(* What is stored during an outage leaves the outbox once the connection   *)
(* is back for good and no further request fails, unless the cart of a     *)
(* stored addition was sold: nothing else can hold the outbox up.          *)
(***************************************************************************)
DrainsUnlessSold ==
  <>[]online =>
    \A a \in Adds : (Stored(a) /\ ~online /\ faults = MaxFaults)
      ~> (~Stored(a) \/ \E b \in Adds : Stored(b) /\ cart[at[b]] = "CONVERTED")

(***************************************************************************)
(* The same whatever was sold: "a sale started with no signal is never     *)
(* lost" (useOfflineSync.ts).                                              *)
(***************************************************************************)
QueueDrains ==
  <>[]online =>
    \A a \in Adds : (Stored(a) /\ ~online /\ faults = MaxFaults) ~> ~Stored(a)
=============================================================================
