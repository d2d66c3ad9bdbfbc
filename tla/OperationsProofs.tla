--------------------------- MODULE OperationsProofs ---------------------------
(***************************************************************************)
(* Proofs about Operations: goods, orders, reminders, sessions and screens *)
(* under every interleaving of the requests, restarts included.            *)
(***************************************************************************)
EXTENDS Operations, SumTheorems

(***************************************************************************)
(* What a request is about, and what it has read, by where it stands.      *)
(***************************************************************************)
Stocked  == Moves \cup Counts \cup Sellings
Work     == [bin : Bins, supplier : Suppliers \cup {None}]
Bearing  == {"find_token", "rotate", "logout", "save_tokens"}
Sights   == [type : {"cart:updated", "sale:completed"}, cart : CartsOnShow, sight : Nat]
Loads    == [read : BOOLEAN, snap : [CartsOnShow -> Nat], newer : SUBSET CartsOnShow]

Record(r) == r = [at |-> r.at, doc |-> r.doc, sum |-> r.sum, todo |-> r.todo]

ForStock(r) ==
  \/ r.at \in {"ship", "credit"} /\ r.doc \in Moves
  \/ r.at = "deduct" /\ r.doc \in Sellings
  \/ r.at = "log" /\ r.doc \in Counts

ForChecks(r) ==
  /\ r.at \in {"read_open", "quote", "notify"} /\ r.doc = Checker
  /\ r.todo \in Seq(Work)
  /\ r.at = "notify" => \E n \in DOMAIN r.todo : r.todo[n].supplier = None

ForReminders(r) ==
  /\ r.doc = Agenda
  /\ \/ r.at \in {"next_bill", "insert_reminder"} /\ r.todo \in Seq(Bills)
     \/ r.at \in {"next_reminder", "mark_sent", "mark_failed"} /\ r.todo \in Seq(Bills \X Nat)
  /\ r.at \in {"insert_reminder", "mark_sent", "mark_failed"} => r.todo # <<>>

ForSessions(r) ==
  /\ r.at \in Bearing \cup {"revoke_all", "issue", "clear_tokens"} /\ r.doc \in Clients
  /\ r.sum \in Nat

ForCarts(r) ==
  /\ r.at \in {"snapshot", "emit_cart", "emit_sale"} /\ r.doc \in CartsOnShow
  /\ r.sum \in Nat

Placed(r) ==
  /\ Record(r)
  /\ r = Free \/ ForStock(r) \/ ForChecks(r) \/ ForReminders(r) \/ ForSessions(r) \/ ForCarts(r)

Served == call = [k \in Slots |-> call[k]] /\ \A k \in Slots : Placed(call[k])

\* Of a document that two requests never met on, at most one is in flight.
Alone == \A d \in Docs \ crossed : \A j, k \in InFlight(d) : j = k

(***************************************************************************)
(* Goods.                                                                  *)
(***************************************************************************)
StockTypes ==
  /\ stock \in [Bins -> Int \cup {None}] /\ lots \in [Bins -> Int]
  /\ net \in [Bins -> Int] /\ bought \in [Bins -> Int]
  /\ move \in [Moves -> {"absent", "IN_TRANSIT", "RECEIVED"}] /\ credited \in [Moves -> Nat]
  /\ sales \in SUBSET Sellings /\ IsFiniteSet(sales)
  /\ counted \in SUBSET Counts /\ IsFiniteSet(counted)

\* A transfer about to be shipped is shipped by nobody else; one that may be
\* credited has been shipped.
TransferHeld(t) ==
  /\ move[t] = "RECEIVED" <=> credited[t] > 0
  /\ \A k \in InFlight(t) : At(k, "ship") => move[t] = "absent" /\ InFlight(t) = {k}
  /\ \A k \in InFlight(t) : At(k, "credit") => move[t] # "absent"
  /\ t \notin crossed => /\ credited[t] <= 1
                         /\ \A k \in InFlight(t) : At(k, "credit") => move[t] = "IN_TRANSIT"

TransfersHeld == \A t \in Moves : TransferHeld(t)

\* Adjustments of b that changed the row, and whose movement is not written.
Unlogged(b) == {a \in counted : Count[a].bin = b /\ (a \in cut \/ InFlight(a) # {})}
Deltas      == [a \in Counts |-> Count[a].delta]
Opening(b)  == IF OpeningStock[b] = None THEN 0 ELSE OpeningStock[b]

CountHeld(a) ==
  /\ a \in cut \/ InFlight(a) # {} => a \in counted
  /\ a \in cut => InFlight(a) = {}
  /\ \A j, k \in InFlight(a) : j = k

RowHeld(b) == Quantity(b) = net[b] + Opening(b) + SumFunctionOnSet(Deltas, Unlogged(b))

CountsHeld == (\A a \in Counts : CountHeld(a)) /\ \A b \in Bins \ rowless : RowHeld(b)

SaleHeld(v) == (InFlight(v) # {} => v \notin sales) /\ \A j, k \in InFlight(v) : j = k

LotsHeld(b) == lots[b] + SumFunctionOnSet(Taken, SoldFrom(b)) = OpeningLots[b] + bought[b]

SalesHeld == (\A v \in Sellings : SaleHeld(v)) /\ \A b \in Bins : Lotted(b) => LotsHeld(b)

(***************************************************************************)
(* Orders.                                                                 *)
(***************************************************************************)
OrderTypes ==
  /\ quoted \in [Products -> SUBSET Suppliers]
  /\ orders \in Seq([bins : SUBSET Bins, supplier : Suppliers \cup {None},
                     status : {"DRAFT", "RECEIVED", "CANCELLED"}])

OpenApart == \A m, n \in OpenOrders : m # n => orders[m].bins \cap orders[n].bins = {}

Distinct(list) == \A i, j \in DOMAIN list : list[i].bin = list[j].bin => i = j
Unordered(list) == \A i \in DOMAIN list, n \in OpenOrders : list[i].bin \notin orders[n].bins

\* A run that has read what is ordered has only bins to order that are not.
RunHeld(r) == Distinct(r.todo) /\ (r.at \in {"quote", "notify"} => Unordered(r.todo))

OrdersHeld ==
  Checker \notin crossed => OpenApart /\ \A k \in InFlight(Checker) : RunHeld(call[k])

(***************************************************************************)
(* Reminders.                                                              *)
(***************************************************************************)
ReminderTypes ==
  /\ overdue \in SUBSET Bills
  /\ reminder \in [Bills -> Seq({"SCHEDULED", "SENT", "FAILED"})]
  /\ mails \in [Bills -> Nat] /\ unmarked \in [Bills -> Nat]

Dispatching == {"next_reminder", "mark_sent", "mark_failed"}

\* What is marked SENT was sent, and what a run is about to mark too.
MailHeld(i) == With(i, "SENT") # {} => mails[i] > 0

RunMails(at, todo) ==
  /\ at = "mark_sent" => mails[Head(todo)[1]] > 0
  /\ at \in Dispatching => \A n \in DOMAIN todo : todo[n][2] \in DOMAIN reminder[todo[n][1]]

MailsHeld ==
  /\ \A i \in Bills : MailHeld(i)
  /\ \A k \in InFlight(Agenda) : RunMails(call[k].at, Todo(k))

\* One run at a time: it goes through reminders that wait, one for a bill, each once.
BillHeld(i, marking) ==
  /\ \A m, n \in With(i, "SCHEDULED") : m = n
  /\ mails[i] = Cardinality(With(i, "SENT")) + marking + unmarked[i]

RunReminds(at, todo) ==
  /\ at = "insert_reminder" => With(Head(todo), "SCHEDULED") = {}
  /\ at \in Dispatching => /\ \A n \in DOMAIN todo : todo[n] \in Scheduled
                           /\ \A m, n \in DOMAIN todo : todo[m] = todo[n] => m = n

RemindersHeld ==
  Undisturbed(Agenda) =>
    /\ \A i \in Bills : BillHeld(i, Cardinality(Marking(i)))
    /\ \A k \in InFlight(Agenda) : RunReminds(call[k].at, Todo(k))

(***************************************************************************)
(* Sessions.                                                               *)
(***************************************************************************)
\* Token n of list, if it is one of the user of c.
Owned(list, n, c) == n \in DOMAIN list /\ list[n].user = UserOf[c]

Token == [user : Users, live : BOOLEAN]

SessionTypes ==
  /\ token \in Seq(Token)
  /\ stored \in [Clients -> Nat]
  /\ \A c \in Clients : stored[c] # 0 => Owned(token, stored[c], c)
  /\ \A k \in Slots : call[k].at \in Bearing => Owned(token, Figure(k), Doc(k))

\* What c has in its storage, or while it exchanges it what the exchange carries.
Held(c) == IF InFlight(c) = {} THEN {stored[c]} \ {0}
           ELSE {Figure(k) : k \in {j \in InFlight(c) : call[j].at \in Bearing}}

Calm(u) == u \notin changed /\ \A c \in ClientsOf(u) : Undisturbed(c)

SessionHeld(u) ==
  /\ Live(u) = UNION {Held(c) : c \in ClientsOf(u)}
  /\ \A c, d \in ClientsOf(u) : c # d => Held(c) \cap Held(d) = {}
  /\ \A c \in ClientsOf(u) : \A k \in InFlight(c) : ~At(k, "revoke_all")

SessionsHeld == \A u \in Users : Calm(u) => SessionHeld(u)

(***************************************************************************)
(* Terminals.                                                              *)
(***************************************************************************)
ServerTypes ==
  /\ version \in [CartsOnShow -> Nat] /\ open \in SUBSET CartsOnShow
  /\ \A c \in open : version[c] > 0

PageTypes ==
  /\ link \in [Terminals -> {"off", "connecting", "refused", "joining", "joined"}]
  /\ wire \in [Terminals -> Seq(Sights)] /\ shown \in [Terminals -> [CartsOnShow -> Nat]]
  /\ fetches \in [Terminals -> Seq(Loads)] /\ missed \in [Terminals -> SUBSET CartsOnShow]
  /\ \A t \in Terminals \ Joined : wire[t] = <<>>

\* What is announced, or about to be, exists.
Announcing == {"snapshot", "emit_cart", "emit_sale"}

Known ==
  /\ \A t \in Terminals : \A n \in DOMAIN wire[t] : version[wire[t][n].cart] > 0
  /\ \A k \in Slots : call[k].at \in Announcing => version[Doc(k)] > 0

\* What a request is about to announce is what the cart is.
Announced ==
  \A c \in CartsOnShow \ crossed : \A k \in InFlight(c) :
    /\ At(k, "emit_cart") => Figure(k) = Visible(c)
    /\ At(k, "emit_sale") => c \notin open

Steady(c) == Undisturbed(c) /\ InFlight(c) = {}

(***************************************************************************)
(* A page whose cart c is at v: the last event about c on its way says so. *)
(* Without one, a load that has been read says so, or knows that it is     *)
(* outdated; and so does a screen that waits for no load.                  *)
(***************************************************************************)
Silent(events, c) == \A n \in DOMAIN events : events[n].cart # c

LastSays(events, c, v) ==
  \A n \in DOMAIN events :
    events[n].cart = c /\ (\A m \in DOMAIN events : events[m].cart = c => m <= n) => events[n].sight = v

LoadsSay(loads, c, v) ==
  \A n \in DOMAIN loads : loads[n].read /\ c \notin loads[n].newer => loads[n].snap[c] = v

Tuned(events, loads, unseen, screen, c, v) ==
  /\ LastSays(events, c, v)
  /\ Silent(events, c) => /\ LoadsSay(loads, c, v)
                          /\ loads = <<>> /\ c \notin unseen => screen[c] = v

InTune(t, c) == Tuned(wire[t], fetches[t], missed[t], shown[t], c, Visible(c))

TerminalsHeld == \A t \in Terminals, c \in CartsOnShow : Steady(c) => InTune(t, c)

(***************************************************************************)
(* One step of a request about documents of D: its record changes, and     *)
(* only documents of D are crossed or cut.                                 *)
(***************************************************************************)
Moved(k, r, D) ==
  /\ call' = [call EXCEPT ![k] = r]
  /\ Placed(r)
  /\ call[k].doc \in D \cup {None} /\ r.doc \in D \cup {None}
  /\ r.doc \in {None, call[k].doc} \/ InFlight(r.doc) = {} \/ r.doc \in crossed'
  /\ crossed \subseteq crossed' /\ crossed' \subseteq crossed \cup D
  /\ cut \subseteq cut' /\ cut' \subseteq cut \cup D

\* What a step that is about other documents leaves of those of D.
Quiet(D) ==
  \A d \in D : /\ InFlight(d)' = InFlight(d) /\ \A k \in InFlight(d) : call'[k] = call[k]
               /\ d \in crossed' <=> d \in crossed
               /\ d \in cut' <=> d \in cut

-----------------------------------------------------------------------------
\* Documents of different tables are different, and none is None.
LEMMA Kinds ==
  /\ Stocked \cap ({Checker, Agenda} \cup Products \cup Bills \cup Clients \cup CartsOnShow) = {}
  /\ Clients \cap ({Checker, Agenda} \cup Products \cup Bills \cup CartsOnShow) = {}
  /\ CartsOnShow \cap ({Checker, Agenda} \cup Products \cup Bills) = {}
  /\ Checker \notin Products \cup Bills /\ Agenda \notin Products \cup Bills /\ Checker # Agenda
  /\ Moves \cap (Counts \cup Sellings) = {} /\ Counts \cap Sellings = {}
  /\ Stocked \cup {Checker, Agenda} \cup Products \cup Bills \cup Clients \cup CartsOnShow \subseteq Docs
  /\ None \notin Docs
<1>1. /\ Tables[1] = Moves /\ Tables[2] = Counts /\ Tables[3] = Sellings /\ Tables[4] = {Checker}
      /\ Tables[5] = Products /\ Tables[6] = {Agenda} /\ Tables[7] = Bills /\ Tables[8] = Clients
      /\ Tables[9] = CartsOnShow /\ DOMAIN Tables = 1..9
  BY DEF Tables
<1>2. \A d, i, j : i \in 1..9 /\ j \in 1..9 /\ d \in Tables[i] /\ d \in Tables[j] => i = j
  BY <1>1, TablesAssumption
<1> DEFINE Kind(d) == CHOOSE i \in 1..9 : d \in Tables[i]
<1>3. \A d : \A i \in 1..9 : d \in Tables[i] => Kind(d) = i
  BY <1>2
<1> HIDE DEF Kind
<1>4. /\ \A d \in Moves : Kind(d) = 1
      /\ \A d \in Counts : Kind(d) = 2
      /\ \A d \in Sellings : Kind(d) = 3
      /\ Kind(Checker) = 4
      /\ \A d \in Products : Kind(d) = 5
      /\ Kind(Agenda) = 6
      /\ \A d \in Bills : Kind(d) = 7
      /\ \A d \in Clients : Kind(d) = 8
      /\ \A d \in CartsOnShow : Kind(d) = 9
  BY <1>1, <1>3
<1>5. /\ Stocked \cup {Checker, Agenda} \cup Products \cup Bills \cup Clients \cup CartsOnShow \subseteq Docs
      /\ None \notin Docs
  BY CallsAssumption, StockMovesAssumption, ReorderAssumption, RemindersAssumption,
     SessionsAssumption, RealtimeAssumption DEF Stocked
<1> QED BY <1>4, <1>5 DEF Stocked

LEMMA FreePlaced == Placed(Free) /\ Free.doc = None /\ Free.at = "free"
BY DEF Placed, Record, Free

LEMMA Placing == \A r : Placed(r) => /\ r.doc \in Docs \cup {None}
                                     /\ r.at = "free" <=> r.doc = None
                                     /\ r.doc = None => r = Free
<1> SUFFICES ASSUME NEW r, Placed(r)
             PROVE  r.doc \in Docs \cup {None} /\ (r.at = "free" <=> r.doc = None) /\ (r.doc = None => r = Free)
  OBVIOUS
<1>1. CASE r = Free
  BY <1>1 DEF Free
<1>2. CASE ForStock(r)
  BY <1>2, Kinds DEF ForStock, Stocked
<1>3. CASE ForChecks(r)
  BY <1>3, Kinds DEF ForChecks
<1>4. CASE ForReminders(r)
  BY <1>4, Kinds DEF ForReminders
<1>5. CASE ForSessions(r)
  BY <1>5, Kinds DEF ForSessions, Bearing
<1>6. CASE ForCarts(r)
  BY <1>6, Kinds DEF ForCarts
<1> QED BY <1>1, <1>2, <1>3, <1>4, <1>5, <1>6 DEF Placed

\* A document is in flight at the places of its kind.
LEMMA Places ==
  ASSUME NEW r, Placed(r)
  PROVE  /\ r.doc \in Stocked => ForStock(r)
         /\ r.doc = Checker => ForChecks(r)
         /\ r.doc = Agenda => ForReminders(r)
         /\ r.doc \in Clients => ForSessions(r)
         /\ r.doc \in CartsOnShow => ForCarts(r)
         /\ r.doc \notin Products \cup Bills
<1>1. ForStock(r) => r.doc \in Stocked
  BY DEF ForStock, Stocked
<1>2. /\ ForChecks(r) => r.doc = Checker
      /\ ForReminders(r) => r.doc = Agenda
      /\ ForSessions(r) => r.doc \in Clients
      /\ ForCarts(r) => r.doc \in CartsOnShow
      /\ r = Free => r.doc = None
  BY DEF ForChecks, ForReminders, ForSessions, ForCarts, Free
<1> QED BY <1>1, <1>2, Kinds DEF Placed

\* And at such a place it is a document of the kind.
LEMMA PlacesOf ==
  ASSUME NEW r, Placed(r)
  PROVE  /\ r.at \in {"ship", "credit", "deduct", "log"} => ForStock(r)
         /\ r.at \in {"read_open", "quote", "notify"} => ForChecks(r)
         /\ r.at \in {"next_bill", "insert_reminder", "next_reminder", "mark_sent", "mark_failed"}
              => ForReminders(r)
         /\ r.at \in Bearing \cup {"revoke_all", "issue", "clear_tokens"} => ForSessions(r)
         /\ r.at \in {"snapshot", "emit_cart", "emit_sale"} => ForCarts(r)
         /\ r.at = "free" => r = Free
BY DEF Placed, ForStock, ForChecks, ForReminders, ForSessions, ForCarts, Free, Bearing

-----------------------------------------------------------------------------
(***************************************************************************)
(* The moves of Calls.                                                     *)
(***************************************************************************)
LEMMA EnterMoves ==
  ASSUME Served, NEW k \in Slots, NEW D, NEW place, NEW d \in D, NEW sum, NEW todo,
         Enter(k, place, d, sum, todo) \/ Timed(k, place, d, sum, todo),
         Placed([at |-> place, doc |-> d, sum |-> sum, todo |-> todo])
  PROVE  /\ Moved(k, [at |-> place, doc |-> d, sum |-> sum, todo |-> todo], D)
         /\ call[k] = Free /\ cut' = cut
         /\ InFlight(d) = {} \/ d \in crossed'
<1>1. call[k] = Free
  BY PlacesOf DEF Enter, Timed, At, Served
<1> QED BY <1>1, FreePlaced DEF Enter, Timed, Moved

LEMMA AtOnceMoves ==
  ASSUME Served, NEW k \in Slots, NEW D, NEW d \in D, AtOnce(k, d)
  PROVE  Moved(k, call[k], D) /\ call' = call /\ cut' = cut /\ (InFlight(d) = {} \/ d \in crossed')
<1>1. call[k] = Free /\ Placed(call[k])
  BY PlacesOf DEF AtOnce, At, Served
<1>2. call = [call EXCEPT ![k] = call[k]]
  BY DEF Served
<1> QED BY <1>1, <1>2, FreePlaced DEF AtOnce, Moved

LEMMA NewSum ==
  ASSUME NEW r, Record(r), NEW place, NEW new
  PROVE  [r EXCEPT !.at = place, !.sum = new]
           = [at |-> place, doc |-> r.doc, sum |-> new, todo |-> r.todo]
<1> DEFINE Fields == {"at", "doc", "sum", "todo"}
<1>1. DOMAIN r = Fields /\ r = [x \in Fields |-> r[x]]
  BY DEF Record
<1>2. [r EXCEPT !.at = place, !.sum = new]
        = [x \in Fields |-> IF x = "at" THEN place ELSE IF x = "sum" THEN new ELSE r[x]]
  BY <1>1
<1>3. [at |-> place, doc |-> r.doc, sum |-> new, todo |-> r.todo]
        = [x \in Fields |-> IF x = "at" THEN place ELSE IF x = "sum" THEN new ELSE r[x]]
  BY <1>1
<1> QED BY <1>2, <1>3

LEMMA GotoMoves ==
  ASSUME Served, NEW k \in Slots, NEW D, call[k].doc \in D, NEW place, Goto(k, place),
         Placed([at |-> place, doc |-> call[k].doc, sum |-> call[k].sum, todo |-> call[k].todo])
  PROVE  /\ Moved(k, [at |-> place, doc |-> call[k].doc, sum |-> call[k].sum, todo |-> call[k].todo], D)
         /\ UNCHANGED <<crossed, cut>>
<1>1. Record(call[k])
  BY DEF Served, Placed
<1>2. [call[k] EXCEPT !.at = place]
        = [at |-> place, doc |-> call[k].doc, sum |-> call[k].sum, todo |-> call[k].todo]
  BY <1>1 DEF Record
<1> QED BY <1>2 DEF Goto, Moved, Served

LEMMA GotoWithMoves ==
  ASSUME Served, NEW k \in Slots, NEW D, call[k].doc \in D, NEW place, NEW sum,
         GotoWith(k, place, sum),
         Placed([at |-> place, doc |-> call[k].doc, sum |-> sum, todo |-> call[k].todo])
  PROVE  /\ Moved(k, [at |-> place, doc |-> call[k].doc, sum |-> sum, todo |-> call[k].todo], D)
         /\ UNCHANGED <<crossed, cut>>
<1>1. Record(call[k])
  BY DEF Served, Placed
<1>2. [call[k] EXCEPT !.at = place, !.sum = sum]
        = [at |-> place, doc |-> call[k].doc, sum |-> sum, todo |-> call[k].todo]
  BY <1>1, NewSum
<1> QED BY <1>2 DEF GotoWith, Moved, Served

LEMMA GotoLeftMoves ==
  ASSUME Served, NEW k \in Slots, NEW D, call[k].doc \in D, NEW place, NEW rest,
         GotoLeft(k, place, rest),
         Placed([at |-> place, doc |-> call[k].doc, sum |-> call[k].sum, todo |-> rest])
  PROVE  /\ Moved(k, [at |-> place, doc |-> call[k].doc, sum |-> call[k].sum, todo |-> rest], D)
         /\ UNCHANGED <<crossed, cut>>
<1> DEFINE Fields == {"at", "doc", "sum", "todo"}
           r == [at |-> place, doc |-> call[k].doc, sum |-> call[k].sum, todo |-> rest]
<1>1. DOMAIN call[k] = Fields /\ call[k] = [x \in Fields |-> call[k][x]]
  BY DEF Served, Placed, Record
<1>2. [call[k] EXCEPT !.at = place, !.todo = rest]
        = [x \in Fields |-> IF x = "at" THEN place ELSE IF x = "todo" THEN rest ELSE call[k][x]]
  BY <1>1
<1>3. r = [x \in Fields |-> IF x = "at" THEN place ELSE IF x = "todo" THEN rest ELSE call[k][x]]
  BY <1>1
<1>4. call' = [call EXCEPT ![k] = [call[k] EXCEPT !.at = place, !.todo = rest]]
  BY DEF GotoLeft, Served
<1>5. call' = [call EXCEPT ![k] = r]
  BY <1>2, <1>3, <1>4
<1> QED BY <1>5 DEF GotoLeft, Moved

LEMMA LeaveMoves ==
  ASSUME Served, NEW k \in Slots, NEW D, call[k].doc \in D, Leave(k)
  PROVE  Moved(k, Free, D) /\ UNCHANGED <<crossed, cut>>
BY FreePlaced DEF Leave, Moved, Free

LEMMA FailMoves ==
  ASSUME Served, NEW k \in Slots, NEW D, call[k].doc \in D, Fail(k)
  PROVE  Moved(k, Free, D) /\ call[k].doc \in cut'
BY FreePlaced DEF Fail, Moved, Free, Doc

\* A move keeps the requests served and alone,
LEMMA MovedKeeps ==
  ASSUME Served, Alone, NEW k \in Slots, NEW r, NEW D, Moved(k, r, D)
  PROVE  Served' /\ Alone'
<1>2. \A j \in Slots : call'[j] = IF j = k THEN r ELSE call[j]
  BY DEF Moved, Served
<1>3. Served'
  BY <1>2 DEF Moved, Served
<1>4. Alone'
  <2> SUFFICES ASSUME NEW d \in Docs \ crossed', NEW i \in Slots, NEW j \in Slots,
                      call'[i].doc = d, call'[j].doc = d, i # j
               PROVE  FALSE
    BY DEF Alone, InFlight
  <2>1. d \notin crossed /\ d # None
    BY CallsAssumption DEF Moved
  <2>2. ~(call[i].doc = d /\ call[j].doc = d)
    BY <2>1 DEF Alone, InFlight
  <2>3. r.doc = d /\ call[k].doc # d /\ InFlight(d) # {}
    BY <1>2, <2>2 DEF InFlight
  <2> QED BY <2>1, <2>3 DEF Moved
<1> QED BY <1>3, <1>4

\* and leaves other documents.
LEMMA MovedAway ==
  ASSUME Served, NEW k \in Slots, NEW r, NEW D, Moved(k, r, D), NEW E, E \cap D = {}, None \notin E
  PROVE  Quiet(E)
<1>1. \A j \in Slots : call'[j] = IF j = k THEN r ELSE call[j]
  BY DEF Moved, Served
<1>2. call[k].doc \notin E /\ r.doc \notin E
  BY DEF Moved
<1> QED BY <1>1, <1>2 DEF Quiet, InFlight, Moved

\* Where a move leaves the requests.
LEMMA MovedFlights ==
  ASSUME Served, NEW k \in Slots, NEW r, NEW D, Moved(k, r, D)
  PROVE  /\ \A j \in Slots : call'[j] = IF j = k THEN r ELSE call[j]
         /\ \A d : InFlight(d)' = IF r.doc = d THEN InFlight(d) \cup {k} ELSE InFlight(d) \ {k}
<1>1. \A j \in Slots : call'[j] = IF j = k THEN r ELSE call[j]
  BY DEF Moved, Served
<1> QED BY <1>1 DEF InFlight

LEMMA FlightsOf ==
  ASSUME Served, NEW k \in Slots, NEW r, NEW D, Moved(k, r, D), NEW d
  PROVE  /\ r.doc = d => InFlight(d)' = InFlight(d) \cup {k}
         /\ r.doc # d => InFlight(d)' = InFlight(d) \ {k}
         /\ InFlight(d) \subseteq Slots
         /\ call'[k] = r
         /\ \A j \in Slots : j # k => call'[j] = call[j]
<1>1. InFlight(d)' = IF r.doc = d THEN InFlight(d) \cup {k} ELSE InFlight(d) \ {k}
  BY MovedFlights
<1>2. InFlight(d) \subseteq Slots
  BY DEF InFlight
<1>3. \A j \in Slots : call'[j] = IF j = k THEN r ELSE call[j]
  BY MovedFlights
<1> QED BY <1>1, <1>2, <1>3

\* After a restart nothing is in flight; what was in flight is cut.
LEMMA CrashClears ==
  ASSUME Served, Crash
  PROVE  /\ Served' /\ Alone' /\ crossed' = crossed /\ cut \subseteq cut'
         /\ \A d \in Docs : InFlight(d)' = {} /\ (d \in cut' <=> d \in cut \/ InFlight(d) # {})
<1>1. call' = [k \in Slots |-> Free] /\ crossed' = crossed
  BY DEF Crash
<1>2. Served'
  BY <1>1, FreePlaced DEF Served
<1>3. \A d \in Docs : InFlight(d)' = {}
  BY <1>1, FreePlaced, Kinds DEF InFlight
<1>4. \A d \in Docs : d \in cut' <=> d \in cut \/ InFlight(d) # {}
  BY Kinds DEF Crash, InFlight, Doc
<1>5. Alone'
  BY <1>3 DEF Alone
<1> QED BY <1>1, <1>2, <1>3, <1>4, <1>5 DEF Crash

-----------------------------------------------------------------------------
(***************************************************************************)
(* Goods.                                                                  *)
(***************************************************************************)
GoodsHeld == StockTypes /\ TransfersHeld /\ CountsHeld /\ SalesHeld

LEMMA GoodsStart == CallsInit /\ StockInit => GoodsHeld
<1> SUFFICES ASSUME CallsInit, StockInit PROVE GoodsHeld
  OBVIOUS
<1>1. \A d \in Docs : InFlight(d) = {}
  BY Kinds DEF CallsInit, InFlight, Free
<1>2. Moves \cup Counts \cup Sellings \subseteq Docs
  BY Kinds DEF Stocked
<1>3. StockTypes
  <2>1. IsFiniteSet({})
    BY FS_EmptySet
  <2> QED BY <2>1, StockMovesAssumption DEF StockInit, StockTypes
<1>4. TransfersHeld
  BY <1>1, <1>2 DEF StockInit, TransfersHeld, TransferHeld
<1>5. CountsHeld
  <2>1. \A b \in Bins : Unlogged(b) = {} /\ Quantity(b) = Opening(b) /\ net[b] = 0 /\ Opening(b) \in Int
    BY StockMovesAssumption DEF StockInit, Unlogged, Quantity, Opening
  <2>2. \A b \in Bins : Quantity(b) = net[b] + Opening(b) + SumFunctionOnSet(Deltas, Unlogged(b))
    BY <2>1, SumEmpty
  <2> QED BY <1>1, <1>2, <2>2 DEF CountsHeld, CountHeld, RowHeld, CallsInit
<1>6. SalesHeld
  <2>1. \A b \in Bins : SoldFrom(b) = {} /\ lots[b] = OpeningLots[b] /\ bought[b] = 0 /\ lots[b] \in Int
    BY StockMovesAssumption DEF StockInit, SoldFrom
  <2>2. \A b \in Bins : lots[b] + SumFunctionOnSet(Taken, SoldFrom(b)) = OpeningLots[b] + bought[b]
    BY <2>1, SumEmpty
  <2> QED BY <1>1, <1>2, <2>2 DEF SalesHeld, SaleHeld, LotsHeld, StockInit
<1> QED BY <1>3, <1>4, <1>5, <1>6 DEF GoodsHeld

\* What a transfer, an adjustment and a sale are of.
LEMMA Rows ==
  /\ \A t \in Moves : Move[t].from \in Bins /\ Move[t].to \in Bins /\ Move[t].quantity \in Nat
  /\ \A a \in Counts : Count[a].bin \in Bins /\ Count[a].delta \in Int /\ Deltas[a] = Count[a].delta
  /\ \A v \in Sellings : Selling[v].bin \in Bins /\ Selling[v].quantity \in Nat
                         /\ Taken[v] = Selling[v].quantity
BY StockMovesAssumption DEF Deltas, Taken

\* The row and the movements of a bin change together.
LEMMA AddBook ==
  ASSUME StockTypes, NEW b \in Bins, NEW n \in Int, stock' = Add(b, n), Book(b, n)
  PROVE  /\ stock' \in [Bins -> Int \cup {None}] /\ net' \in [Bins -> Int]
         /\ \A c \in Bins : Quantity(c)' - net'[c] = Quantity(c) - net[c]
<1>1. \A c \in Bins : Quantity(c) \in Int /\ net[c] \in Int
  BY DEF StockTypes, Quantity
<1>2. /\ stock' = [stock EXCEPT ![b] = Quantity(b) + n] /\ net' = [net EXCEPT ![b] = net[b] + n]
      /\ Quantity(b) + n \in Int /\ net[b] + n \in Int
  BY <1>1 DEF Add, Book
<1>3. stock' \in [Bins -> Int \cup {None}] /\ net' \in [Bins -> Int]
  BY <1>2 DEF StockTypes
<1>4. \A c \in Bins : Quantity(c)' = (IF c = b THEN Quantity(b) + n ELSE Quantity(c))
  BY <1>2, StockMovesAssumption DEF Quantity, StockTypes
<1>5. \A c \in Bins : net'[c] = (IF c = b THEN net[b] + n ELSE net[c])
  BY <1>2 DEF StockTypes
<1> QED BY <1>1, <1>3, <1>4, <1>5

LEMMA Shifted ==
  \A p, n, q, m, o, x \in Int : q = m + o + x /\ p - n = q - m => p = n + o + x
OBVIOUS

\* Steps about other documents keep the transfers, the adjustments and the sales.
LEMMA TransferQuiet ==
  ASSUME NEW t \in Moves, TransferHeld(t), move'[t] = move[t], credited'[t] = credited[t],
         NEW D, Quiet(D), t \in D
  PROVE  TransferHeld(t)'
BY DEF TransferHeld, Quiet, At

LEMMA UnloggedFinite ==
  ASSUME StockTypes, NEW b
  PROVE  /\ IsFiniteSet(Unlogged(b)) /\ Unlogged(b) \subseteq Counts
         /\ SumFunctionOnSet(Deltas, Unlogged(b)) \in Int
<1>1. IsFiniteSet(Unlogged(b)) /\ Unlogged(b) \subseteq Counts
  BY FS_Subset DEF Unlogged, StockTypes
<1>2. \A a \in Unlogged(b) : Deltas[a] \in Int
  BY <1>1, Rows
<1> QED BY <1>1, <1>2, SumInt

LEMMA SoldFinite ==
  ASSUME StockTypes, NEW b
  PROVE  /\ IsFiniteSet(SoldFrom(b)) /\ SoldFrom(b) \subseteq Sellings
         /\ SumFunctionOnSet(Taken, SoldFrom(b)) \in Int
<1>1. IsFiniteSet(SoldFrom(b)) /\ SoldFrom(b) \subseteq Sellings
  BY FS_Subset DEF SoldFrom, StockTypes
<1>2. \A v \in SoldFrom(b) : Taken[v] \in Int
  BY <1>1, Rows
<1> QED BY <1>1, <1>2, SumInt

LEMMA CountQuiet ==
  ASSUME NEW a \in Counts, CountHeld(a), UNCHANGED counted, NEW D, Quiet(D), a \in D
  PROVE  CountHeld(a)'
BY DEF CountHeld, Quiet

LEMMA RowQuiet ==
  ASSUME StockTypes, StockTypes', NEW b \in Bins, RowHeld(b), Unlogged(b)' = Unlogged(b),
         Quantity(b)' - net'[b] = Quantity(b) - net[b]
  PROVE  RowHeld(b)'
<1> DEFINE s == SumFunctionOnSet(Deltas, Unlogged(b))
<1>1. Quantity(b) \in Int /\ net[b] \in Int /\ Quantity(b)' \in Int /\ net'[b] \in Int
  BY DEF StockTypes, Quantity
<1>2. Opening(b) \in Int /\ s \in Int
  BY StockMovesAssumption, UnloggedFinite DEF Opening
<1>3. Quantity(b) = net[b] + Opening(b) + s /\ Quantity(b)' - net'[b] = Quantity(b) - net[b]
  BY DEF RowHeld
<1>4. SumFunctionOnSet(Deltas, Unlogged(b)') = s
  OBVIOUS
<1> HIDE DEF s
<1>5. \E p, n, q, m, o \in Int : /\ p = Quantity(b)' /\ n = net'[b] /\ q = Quantity(b)
                                 /\ m = net[b] /\ o = Opening(b)
  BY <1>1, <1>2
<1>6. PICK p, n, q, m, o \in Int : /\ p = Quantity(b)' /\ n = net'[b] /\ q = Quantity(b)
                                   /\ m = net[b] /\ o = Opening(b)
  BY <1>5
<1>7. q = m + o + s /\ p - n = q - m
  BY <1>3, <1>6
<1>8. p = n + o + s
  BY <1>2, <1>7, Shifted
<1>9. Quantity(b)' = net'[b] + Opening(b) + s
  BY <1>6, <1>8
<1> QED BY <1>4, <1>9 DEF RowHeld, Opening, Deltas

LEMMA UnloggedQuiet ==
  ASSUME StockTypes, UNCHANGED counted, Quiet(Counts), NEW b
  PROVE  Unlogged(b)' = Unlogged(b)
BY DEF Unlogged, Quiet, StockTypes

LEMMA CountsQuiet ==
  ASSUME StockTypes, StockTypes', CountsHeld, UNCHANGED <<counted, rowless>>, Quiet(Counts),
         \A b \in Bins : Quantity(b)' - net'[b] = Quantity(b) - net[b]
  PROVE  CountsHeld'
<1>1. \A a \in Counts : CountHeld(a)'
  BY CountQuiet DEF CountsHeld
<1>2. \A b \in Bins \ rowless' : RowHeld(b)'
  BY UnloggedQuiet, RowQuiet DEF CountsHeld
<1> QED BY <1>1, <1>2 DEF CountsHeld

LEMMA SaleQuiet ==
  ASSUME NEW v \in Sellings, SaleHeld(v), v \in sales' <=> v \in sales, NEW D, Quiet(D), v \in D
  PROVE  SaleHeld(v)'
BY DEF SaleHeld, Quiet

LEMMA LotsQuiet ==
  ASSUME StockTypes, StockTypes', NEW b \in Bins, LotsHeld(b), SoldFrom(b)' = SoldFrom(b),
         lots'[b] - bought'[b] = lots[b] - bought[b]
  PROVE  LotsHeld(b)'
<1> DEFINE s == SumFunctionOnSet(Taken, SoldFrom(b))
<1>1. /\ lots[b] \in Int /\ bought[b] \in Int /\ lots'[b] \in Int /\ bought'[b] \in Int
      /\ OpeningLots[b] \in Int /\ s \in Int
  BY StockMovesAssumption, SoldFinite DEF StockTypes
<1>2. lots[b] + s = OpeningLots[b] + bought[b]
  BY DEF LotsHeld
<1>3. SumFunctionOnSet(Taken, SoldFrom(b)') = s
  OBVIOUS
<1> HIDE DEF s
<1>4. lots'[b] + s = OpeningLots[b] + bought'[b]
  BY <1>1, <1>2
<1> QED BY <1>3, <1>4 DEF LotsHeld, Taken

LEMMA SalesQuiet ==
  ASSUME StockTypes, StockTypes', SalesHeld, UNCHANGED sales, Quiet(Sellings),
         \A b \in Bins : Lotted(b) => lots'[b] - bought'[b] = lots[b] - bought[b]
  PROVE  SalesHeld'
<1>1. \A v \in Sellings : SaleHeld(v)'
  BY SaleQuiet DEF SalesHeld
<1>2. ASSUME NEW b \in Bins, Lotted(b) PROVE LotsHeld(b)'
  <2>1. SoldFrom(b)' = SoldFrom(b)
    BY DEF SoldFrom
  <2> QED BY <1>2, <2>1, LotsQuiet DEF SalesHeld
<1> QED BY <1>1, <1>2 DEF SalesHeld, Lotted

LEMMA GoodsQuiet ==
  ASSUME GoodsHeld, UNCHANGED stockVars, Quiet(Stocked)
  PROVE  GoodsHeld'
<1>1. StockTypes /\ StockTypes'
  BY DEF GoodsHeld, StockTypes, stockVars
<1>2. Quiet(Moves) /\ Quiet(Counts) /\ Quiet(Sellings)
  BY DEF Quiet, Stocked
<1>3. \A b \in Bins : /\ Quantity(b)' - net'[b] = Quantity(b) - net[b]
                      /\ lots'[b] - bought'[b] = lots[b] - bought[b]
  BY DEF stockVars, Quantity
<1>4. TransfersHeld'
  BY <1>2, TransferQuiet DEF GoodsHeld, TransfersHeld, stockVars
<1>5. CountsHeld'
  BY <1>1, <1>2, <1>3, CountsQuiet DEF GoodsHeld, stockVars
<1>6. SalesHeld'
  BY <1>1, <1>2, <1>3, SalesQuiet DEF GoodsHeld, stockVars
<1> QED BY <1>1, <1>4, <1>5, <1>6 DEF GoodsHeld

LEMMA GoodsCrash ==
  ASSUME GoodsHeld, Served, Crash, UNCHANGED stockVars
  PROVE  GoodsHeld'
<1>1. \A d \in Stocked : /\ InFlight(d)' = {}
                         /\ d \in crossed' <=> d \in crossed
                         /\ d \in cut' <=> d \in cut \/ InFlight(d) # {}
  BY CrashClears, Kinds
<1>2. StockTypes'
  BY DEF GoodsHeld, StockTypes, stockVars
<1>3. TransfersHeld'
  BY <1>1 DEF GoodsHeld, TransfersHeld, TransferHeld, stockVars, Stocked
<1>4. CountsHeld'
  <2>1. \A b \in Bins : Unlogged(b)' = Unlogged(b)
    BY <1>1 DEF Unlogged, stockVars, Stocked, GoodsHeld, StockTypes
  <2>2. \A b \in Bins : Quantity(b)' - net'[b] = Quantity(b) - net[b]
    BY DEF Quantity, stockVars
  <2>3. \A b \in Bins \ rowless' : RowHeld(b)'
    BY <1>2, <2>1, <2>2, RowQuiet DEF GoodsHeld, CountsHeld, stockVars
  <2>4. \A a \in Counts : CountHeld(a)'
    BY <1>1 DEF GoodsHeld, CountsHeld, CountHeld, stockVars, Stocked
  <2> QED BY <2>3, <2>4 DEF CountsHeld
<1>5. SalesHeld'
  <2>1. \A b \in Bins : SoldFrom(b)' = SoldFrom(b) /\ lots'[b] - bought'[b] = lots[b] - bought[b]
    BY DEF SoldFrom, stockVars
  <2>2. \A b \in Bins : Lotted(b) => LotsHeld(b)'
    BY <1>2, <2>1, LotsQuiet DEF GoodsHeld, SalesHeld
  <2>3. \A v \in Sellings : SaleHeld(v)'
    BY <1>1 DEF GoodsHeld, SalesHeld, SaleHeld, stockVars, Stocked
  <2> QED BY <2>2, <2>3 DEF SalesHeld, Lotted
<1> QED BY <1>2, <1>3, <1>4, <1>5 DEF GoodsHeld

-----------------------------------------------------------------------------
\* The requests on goods, one after the other.
LEMMA StockPlaces ==
  ASSUME Served, NEW k \in Slots
  PROVE  /\ At(k, "ship") \/ At(k, "credit") => Doc(k) \in Moves /\ call[k].doc = Doc(k) /\ k \in InFlight(Doc(k))
         /\ At(k, "deduct") => Doc(k) \in Sellings /\ call[k].doc = Doc(k) /\ k \in InFlight(Doc(k))
         /\ At(k, "log") => Doc(k) \in Counts /\ call[k].doc = Doc(k) /\ k \in InFlight(Doc(k))
<1>1. Placed(call[k])
  BY DEF Served
<1> QED BY <1>1, PlacesOf DEF At, Doc, ForStock, InFlight

LEMMA StockKinds ==
  /\ \A t \in Moves : t # None /\ {t} \cap Counts = {} /\ {t} \cap Sellings = {}
  /\ \A a \in Counts : a # None /\ {a} \cap Moves = {} /\ {a} \cap Sellings = {}
  /\ \A v \in Sellings : v # None /\ {v} \cap Moves = {} /\ {v} \cap Counts = {}
  /\ None \notin Moves /\ None \notin Counts /\ None \notin Sellings
BY Kinds DEF Stocked

LEMMA CreateMoveKeeps ==
  ASSUME GoodsHeld, Served, NEW k \in Slots, NEW t \in Moves, CreateMove(k, t)
  PROVE  GoodsHeld' /\ \E r : Moved(k, r, {t})
<1> DEFINE r == [at |-> "ship", doc |-> t, sum |-> 0, todo |-> <<>>]
<1>1. Placed(r)
  BY DEF Placed, Record, ForStock
<1>2. Moved(k, r, {t}) /\ call[k] = Free /\ cut' = cut
  BY <1>1, EnterMoves DEF CreateMove
<1>3. UNCHANGED stockVars /\ move[t] = "absent" /\ InFlight(t) = {}
  BY DEF CreateMove
<1>4. r.doc = t /\ r.at = "ship"
  OBVIOUS
<1> HIDE DEF r
<1>5. Quiet(Counts) /\ Quiet(Sellings) /\ Quiet(Moves \ {t})
  BY <1>2, MovedAway, StockKinds
<1>6. InFlight(t)' = {k} /\ call'[k] = r
  BY <1>2, <1>3, <1>4, FlightsOf
<1>7. TransfersHeld'
  <2>1. ASSUME NEW m \in Moves, m # t PROVE TransferHeld(m)'
    BY <1>3, <1>5, <2>1, TransferQuiet DEF GoodsHeld, TransfersHeld, stockVars
  <2>2. TransferHeld(t)'
    <3>1. /\ move[t] = "RECEIVED" <=> credited[t] > 0
          /\ t \notin crossed => credited[t] <= 1
      BY DEF GoodsHeld, TransfersHeld, TransferHeld
    <3>2. t \notin crossed' => t \notin crossed
      BY <1>2 DEF Moved
    <3>3. \A j \in InFlight(t)' : j = k /\ call'[j].at = "ship"
      BY <1>4, <1>6
    <3>4. move'[t] = move[t] /\ credited'[t] = credited[t]
      BY <1>3 DEF stockVars
    <3> QED BY <1>3, <1>6, <3>1, <3>2, <3>3, <3>4 DEF TransferHeld, At
  <2> QED BY <2>1, <2>2 DEF TransfersHeld
<1>8. StockTypes'
  BY <1>3 DEF GoodsHeld, StockTypes, stockVars
<1>9. \A b \in Bins : /\ Quantity(b)' - net'[b] = Quantity(b) - net[b]
                      /\ lots'[b] - bought'[b] = lots[b] - bought[b]
  BY <1>3 DEF stockVars, Quantity
<1>10. CountsHeld' /\ SalesHeld'
  BY <1>3, <1>5, <1>8, <1>9, CountsQuiet, SalesQuiet DEF GoodsHeld, stockVars
<1> QED BY <1>2, <1>7, <1>8, <1>10 DEF GoodsHeld

LEMMA ReceiveMoveKeeps ==
  ASSUME GoodsHeld, Served, NEW k \in Slots, NEW t \in Moves, ReceiveMove(k, t)
  PROVE  GoodsHeld' /\ \E r : Moved(k, r, {t})
<1> DEFINE r == [at |-> "credit", doc |-> t, sum |-> 0, todo |-> <<>>]
<1>1. Placed(r)
  BY DEF Placed, Record, ForStock
<1>2. Moved(k, r, {t}) /\ call[k] = Free /\ cut' = cut /\ (InFlight(t) = {} \/ t \in crossed')
  BY <1>1, EnterMoves DEF ReceiveMove
<1>3. UNCHANGED stockVars /\ move[t] = "IN_TRANSIT"
  BY DEF ReceiveMove
<1>4. r.doc = t /\ r.at = "credit"
  OBVIOUS
<1> HIDE DEF r
<1>5. Quiet(Counts) /\ Quiet(Sellings) /\ Quiet(Moves \ {t})
  BY <1>2, MovedAway, StockKinds
<1>6. /\ InFlight(t)' = InFlight(t) \cup {k} /\ call'[k] = r /\ InFlight(t) \subseteq Slots
      /\ \A j \in Slots : j # k => call'[j] = call[j]
  BY <1>2, <1>4, FlightsOf
<1>7. TransfersHeld'
  <2>1. ASSUME NEW m \in Moves, m # t PROVE TransferHeld(m)'
    BY <1>3, <1>5, <2>1, TransferQuiet DEF GoodsHeld, TransfersHeld, stockVars
  <2>2. TransferHeld(t)
    BY DEF GoodsHeld, TransfersHeld
  <2>3. ASSUME NEW j \in InFlight(t)'
        PROVE  call'[j].at # "ship"
    <3>1. CASE j = k
      BY <1>4, <1>6, <3>1
    <3>2. CASE j # k
      <4>1. j \in InFlight(t) /\ j \in Slots /\ call'[j] = call[j]
        BY <1>6, <3>2
      <4> QED BY <1>3, <2>2, <4>1 DEF TransferHeld, At
    <3> QED BY <3>1, <3>2
  <2>4. t \notin crossed' => t \notin crossed
    BY <1>2 DEF Moved
  <2>5. TransferHeld(t)'
    BY <1>3, <2>2, <2>3, <2>4 DEF TransferHeld, stockVars, At
  <2> QED BY <2>1, <2>5 DEF TransfersHeld
<1>8. StockTypes'
  BY <1>3 DEF GoodsHeld, StockTypes, stockVars
<1>9. \A b \in Bins : /\ Quantity(b)' - net'[b] = Quantity(b) - net[b]
                      /\ lots'[b] - bought'[b] = lots[b] - bought[b]
  BY <1>3 DEF stockVars, Quantity
<1>10. CountsHeld' /\ SalesHeld'
  BY <1>3, <1>5, <1>8, <1>9, CountsQuiet, SalesQuiet DEF GoodsHeld, stockVars
<1> QED BY <1>2, <1>7, <1>8, <1>10 DEF GoodsHeld

LEMMA ShipKeeps ==
  ASSUME GoodsHeld, Served, NEW k \in Slots, Ship(k)
  PROVE  GoodsHeld' /\ \E t \in Moves : Moved(k, Free, {t})
<1>0. PICK t \in Moves : t = Doc(k)
  BY StockPlaces DEF Ship
<1>1. t \in Moves /\ call[k].doc = t /\ k \in InFlight(t) /\ At(k, "ship")
  BY <1>0, StockPlaces DEF Ship
<1>2. Moved(k, Free, {t}) /\ UNCHANGED <<crossed, cut>>
  BY <1>1, LeaveMoves DEF Ship
<1>3. /\ move' = [move EXCEPT ![t] = "IN_TRANSIT"]
      /\ stock' = Add(Move[t].from, 0 - Move[t].quantity)
      /\ Book(Move[t].from, 0 - Move[t].quantity)
      /\ UNCHANGED <<lots, credited, sales, counted, rowless, bought>>
  BY <1>0 DEF Ship
<1>4. Quiet(Counts) /\ Quiet(Sellings) /\ Quiet(Moves \ {t})
  BY <1>1, <1>2, MovedAway, StockKinds
<1>5. move[t] = "absent" /\ InFlight(t) = {k}
  BY <1>1 DEF GoodsHeld, TransfersHeld, TransferHeld
<1>6. InFlight(t)' = {}
  <2>1. Free.doc # t
    BY <1>1, FreePlaced, StockKinds
  <2> QED BY <1>2, <1>5, <2>1, FlightsOf
<1>7. TransfersHeld'
  <2>1. ASSUME NEW m \in Moves, m # t PROVE TransferHeld(m)'
    <3>1. move'[m] = move[m] /\ credited'[m] = credited[m]
      BY <1>3, <2>1 DEF GoodsHeld, StockTypes
    <3> QED BY <1>4, <2>1, <3>1, TransferQuiet DEF GoodsHeld, TransfersHeld
  <2>2. move'[t] = "IN_TRANSIT" /\ credited'[t] = credited[t]
    BY <1>1, <1>3 DEF GoodsHeld, StockTypes
  <2>3. TransferHeld(t)
    BY <1>1 DEF GoodsHeld, TransfersHeld
  <2>4. credited[t] \in Nat /\ ~(credited[t] > 0)
    BY <1>1, <1>5, <2>3 DEF GoodsHeld, StockTypes, TransferHeld
  <2>5. TransferHeld(t)'
    BY <1>6, <2>2, <2>4 DEF TransferHeld
  <2> QED BY <2>1, <2>5 DEF TransfersHeld
<1>8. /\ stock' \in [Bins -> Int \cup {None}] /\ net' \in [Bins -> Int]
      /\ \A c \in Bins : Quantity(c)' - net'[c] = Quantity(c) - net[c]
  <2>1. Move[t].from \in Bins /\ 0 - Move[t].quantity \in Int
    BY <1>1, Rows
  <2> QED BY <1>3, <2>1, AddBook DEF GoodsHeld
<1>9. StockTypes'
  BY <1>1, <1>3, <1>8 DEF GoodsHeld, StockTypes
<1>10. CountsHeld' /\ SalesHeld'
  BY <1>3, <1>4, <1>8, <1>9, CountsQuiet, SalesQuiet DEF GoodsHeld
<1> QED BY <1>1, <1>2, <1>7, <1>9, <1>10 DEF GoodsHeld

LEMMA CreditKeeps ==
  ASSUME GoodsHeld, Served, Alone, NEW k \in Slots, Credit(k)
  PROVE  GoodsHeld' /\ \E t \in Moves : Moved(k, Free, {t})
<1>0. PICK t \in Moves : t = Doc(k)
  BY StockPlaces DEF Credit
<1>1. t \in Moves /\ call[k].doc = t /\ k \in InFlight(t) /\ At(k, "credit")
  BY <1>0, StockPlaces DEF Credit
<1>2. Moved(k, Free, {t}) /\ UNCHANGED <<crossed, cut>>
  BY <1>1, LeaveMoves DEF Credit
<1>3. /\ move' = [move EXCEPT ![t] = "RECEIVED"]
      /\ credited' = [credited EXCEPT ![t] = credited[t] + 1]
      /\ stock' = Add(Move[t].to, Move[t].quantity)
      /\ Book(Move[t].to, Move[t].quantity)
      /\ UNCHANGED <<lots, sales, counted, rowless, bought>>
  BY <1>0 DEF Credit
<1>4. Quiet(Counts) /\ Quiet(Sellings) /\ Quiet(Moves \ {t})
  BY <1>1, <1>2, MovedAway, StockKinds
<1>5. /\ InFlight(t)' = InFlight(t) \ {k} /\ InFlight(t) \subseteq Slots
      /\ \A j \in Slots : j # k => call'[j] = call[j]
  <2>1. Free.doc # t
    BY <1>1, FreePlaced, StockKinds
  <2> QED BY <1>2, <2>1, FlightsOf
<1>6. TransferHeld(t)
  BY <1>1 DEF GoodsHeld, TransfersHeld
<1>7. TransfersHeld'
  <2>1. ASSUME NEW m \in Moves, m # t PROVE TransferHeld(m)'
    <3>1. move'[m] = move[m] /\ credited'[m] = credited[m]
      BY <1>3, <2>1 DEF GoodsHeld, StockTypes
    <3> QED BY <1>4, <2>1, <3>1, TransferQuiet DEF GoodsHeld, TransfersHeld
  <2>2. /\ move'[t] = "RECEIVED" /\ credited[t] \in Nat
        /\ credited'[t] = credited[t] + 1 /\ credited'[t] > 0
    BY <1>1, <1>3 DEF GoodsHeld, StockTypes
  <2>3. \A j \in InFlight(t)' : j \in InFlight(t) /\ call'[j] = call[j]
    BY <1>5
  <2>4. ASSUME t \notin crossed'
        PROVE  InFlight(t)' = {} /\ credited'[t] <= 1
    <3>1. t \in Docs \ crossed
      BY <1>1, <1>2, <2>4, Kinds DEF Stocked
    <3>2. InFlight(t)' = {}
      BY <1>1, <1>5, <3>1 DEF Alone
    <3>3. move[t] = "IN_TRANSIT"
      BY <1>1, <1>6, <3>1 DEF TransferHeld
    <3>4. credited[t] = 0
      BY <1>6, <2>2, <3>3 DEF TransferHeld
    <3> QED BY <2>2, <3>2, <3>4
  <2>5. \A j \in InFlight(t)' : call'[j].at # "ship"
    BY <1>1, <1>5, <1>6, <2>3 DEF TransferHeld, At
  <2>6. TransferHeld(t)'
    <3>1. move'[t] = "RECEIVED" /\ credited'[t] > 0
      BY <2>2
    <3>2. \A j \in InFlight(t)' : ~At(j, "ship")'
      BY <2>5 DEF At
    <3> QED BY <2>4, <3>1, <3>2 DEF TransferHeld
  <2> QED BY <2>1, <2>6 DEF TransfersHeld
<1>8. /\ stock' \in [Bins -> Int \cup {None}] /\ net' \in [Bins -> Int]
      /\ \A c \in Bins : Quantity(c)' - net'[c] = Quantity(c) - net[c]
  <2>1. Move[t].to \in Bins /\ Move[t].quantity \in Int
    BY <1>1, Rows
  <2> QED BY <1>3, <2>1, AddBook DEF GoodsHeld
<1>9. StockTypes'
  <2>1. credited[t] + 1 \in Nat
    BY <1>1 DEF GoodsHeld, StockTypes
  <2> QED BY <1>1, <1>3, <1>8, <2>1 DEF GoodsHeld, StockTypes
<1>10. CountsHeld' /\ SalesHeld'
  BY <1>3, <1>4, <1>8, <1>9, CountsQuiet, SalesQuiet DEF GoodsHeld
<1> QED BY <1>1, <1>2, <1>7, <1>9, <1>10 DEF GoodsHeld

\* A sale of a bin, and an adjustment of one.
LEMMA SoldMore ==
  ASSUME StockTypes, StockTypes', NEW b \in Bins, LotsHeld(b), NEW v \in Sellings \ sales,
         Selling[v].bin = b, sales' = sales \cup {v},
         lots'[b] = lots[b] - Selling[v].quantity, bought'[b] = bought[b]
  PROVE  LotsHeld(b)'
<1> DEFINE s == SumFunctionOnSet(Taken, SoldFrom(b))
<1>1. SoldFrom(b)' = SoldFrom(b) \cup {v} /\ v \notin SoldFrom(b)
  BY DEF SoldFrom
<1>2. IsFiniteSet(SoldFrom(b)) /\ \A w \in SoldFrom(b) \cup {v} : Taken[w] \in Int
  BY SoldFinite, Rows
<1>3. SumFunctionOnSet(Taken, SoldFrom(b)') = Taken[v] + s
  BY <1>1, <1>2, SumAdd
<1>4. s \in Int /\ lots[b] \in Int /\ bought[b] \in Int /\ OpeningLots[b] \in Int /\ Taken[v] \in Int
  BY StockMovesAssumption, SoldFinite, Rows DEF StockTypes
<1>5. lots[b] + s = OpeningLots[b] + bought[b] /\ lots'[b] = lots[b] - Taken[v]
  BY Rows DEF LotsHeld
<1> HIDE DEF s
<1>6. lots'[b] + (Taken[v] + s) = OpeningLots[b] + bought'[b]
  BY <1>4, <1>5
<1> QED BY <1>3, <1>6 DEF LotsHeld, Taken

LEMMA SellKeeps ==
  ASSUME GoodsHeld, Served, NEW k \in Slots, NEW v \in Sellings, Sell(k, v)
  PROVE  GoodsHeld' /\ \E r : Moved(k, r, {v})
<1> DEFINE r == [at |-> "deduct", doc |-> v, sum |-> 0, todo |-> <<>>]
<1>1. Placed(r)
  BY DEF Placed, Record, ForStock
<1>2. v \notin sales /\ InFlight(v) = {} /\ Enter(k, "deduct", v, 0, <<>>) /\ UNCHANGED stockVars
  BY DEF Sell
<1>3. Moved(k, r, {v}) /\ call[k] = Free /\ cut' = cut
  BY <1>1, <1>2, EnterMoves
<1>4. r.doc = v
  OBVIOUS
<1> HIDE DEF r
<1>5. Quiet(Counts) /\ Quiet(Moves) /\ Quiet(Sellings \ {v})
  BY <1>3, MovedAway, StockKinds
<1>6. InFlight(v)' = {k}
  BY <1>2, <1>3, <1>4, FlightsOf
<1>7. StockTypes'
  BY <1>2 DEF GoodsHeld, StockTypes, stockVars
<1>8. \A b \in Bins : /\ Quantity(b)' - net'[b] = Quantity(b) - net[b]
                      /\ lots'[b] - bought'[b] = lots[b] - bought[b] /\ SoldFrom(b)' = SoldFrom(b)
  BY <1>2 DEF stockVars, Quantity, SoldFrom
<1>9. TransfersHeld' /\ CountsHeld'
  BY <1>2, <1>5, <1>7, <1>8, TransferQuiet, CountsQuiet DEF GoodsHeld, TransfersHeld, stockVars
<1>10. SalesHeld'
  <2>1. ASSUME NEW w \in Sellings, w # v PROVE SaleHeld(w)'
    BY <1>2, <1>5, <2>1, SaleQuiet DEF GoodsHeld, SalesHeld, stockVars
  <2>2. SaleHeld(v)'
    BY <1>2, <1>6 DEF SaleHeld, stockVars
  <2>3. ASSUME NEW b \in Bins, Lotted(b) PROVE LotsHeld(b)'
    BY <1>7, <1>8, <2>3, LotsQuiet DEF GoodsHeld, SalesHeld
  <2> QED BY <2>1, <2>2, <2>3 DEF SalesHeld, Lotted
<1> QED BY <1>3, <1>7, <1>9, <1>10 DEF GoodsHeld

LEMMA DeductKeeps ==
  ASSUME GoodsHeld, Served, NEW k \in Slots, Deduct(k)
  PROVE  GoodsHeld' /\ \E v \in Sellings : Moved(k, Free, {v})
<1>0. PICK v \in Sellings : v = Doc(k)
  BY StockPlaces DEF Deduct
<1>1. call[k].doc = v /\ k \in InFlight(v)
  BY <1>0, StockPlaces DEF Deduct
<1>2. Moved(k, Free, {v}) /\ UNCHANGED <<crossed, cut>>
  BY <1>1, LeaveMoves DEF Deduct
<1>3. PICK b \in Bins : b = Selling[v].bin
  BY Rows
<1>4. PICK n \in Nat : n = Selling[v].quantity
  BY Rows
<1>5. /\ UNCHANGED <<move, credited, counted, rowless, bought>>
      /\ stock[b] = None => UNCHANGED <<stock, lots, net, sales>>
      /\ stock[b] # None => /\ stock' = Add(b, 0 - n) /\ Book(b, 0 - n)
                            /\ lots' = IF Lotted(b) THEN [lots EXCEPT ![b] = lots[b] - n] ELSE lots
                            /\ sales' = sales \cup {v}
  BY <1>0, <1>3, <1>4 DEF Deduct
<1>6. Quiet(Counts) /\ Quiet(Moves) /\ Quiet(Sellings \ {v})
  BY <1>2, MovedAway, StockKinds
<1>7. v \notin sales /\ InFlight(v) = {k}
  BY <1>1 DEF GoodsHeld, SalesHeld, SaleHeld
<1>8. InFlight(v)' = {}
  <2>1. Free.doc # v
    BY FreePlaced, StockKinds
  <2> QED BY <1>2, <1>7, <2>1, FlightsOf
<1>9. /\ stock' \in [Bins -> Int \cup {None}] /\ net' \in [Bins -> Int]
      /\ \A c \in Bins : Quantity(c)' - net'[c] = Quantity(c) - net[c]
  <2>1. CASE stock[b] = None
    BY <1>5, <2>1 DEF GoodsHeld, StockTypes, Quantity
  <2>2. CASE stock[b] # None
    <3>1. 0 - n \in Int
      OBVIOUS
    <3> QED BY <1>5, <2>2, <3>1, AddBook DEF GoodsHeld
  <2> QED BY <2>1, <2>2
<1>10. StockTypes'
  <2>1. lots' \in [Bins -> Int]
    <3>1. lots[b] - n \in Int
      BY DEF GoodsHeld, StockTypes
    <3> QED BY <1>5, <3>1 DEF GoodsHeld, StockTypes
  <2>2. sales' \in SUBSET Sellings /\ IsFiniteSet(sales')
    BY <1>5, FS_AddElement DEF GoodsHeld, StockTypes
  <2> QED BY <1>5, <1>9, <2>1, <2>2 DEF GoodsHeld, StockTypes
<1>11. TransfersHeld' /\ CountsHeld'
  BY <1>5, <1>6, <1>9, <1>10, TransferQuiet, CountsQuiet DEF GoodsHeld, TransfersHeld
<1>12. SalesHeld'
  <2>1. ASSUME NEW w \in Sellings, w # v PROVE SaleHeld(w)'
    <3>1. w \in sales' <=> w \in sales
      BY <1>5, <2>1
    <3> QED BY <1>6, <2>1, <3>1, SaleQuiet DEF GoodsHeld, SalesHeld
  <2>2. SaleHeld(v)'
    BY <1>8 DEF SaleHeld
  <2>3. ASSUME NEW c \in Bins, Lotted(c) PROVE LotsHeld(c)'
    <3>1. LotsHeld(c) /\ StockTypes
      BY <2>3 DEF GoodsHeld, SalesHeld
    <3>2. CASE stock[b] = None \/ c # b
      <4>1. SoldFrom(c)' = SoldFrom(c) /\ lots'[c] = lots[c]
        BY <1>3, <1>5, <3>1, <3>2 DEF SoldFrom, StockTypes
      <4> QED BY <1>5, <1>10, <3>1, <4>1, LotsQuiet
    <3>3. CASE stock[b] # None /\ c = b
      <4>1. lots'[b] = lots[b] - n
        BY <1>5, <2>3, <3>1, <3>3 DEF StockTypes
      <4>2. sales' = sales \cup {v} /\ bought'[b] = bought[b]
        BY <1>5, <3>3
      <4> QED BY <1>3, <1>4, <1>7, <1>10, <3>1, <3>3, <4>1, <4>2, SoldMore
    <3> QED BY <3>2, <3>3
  <2> QED BY <2>1, <2>2, <2>3 DEF SalesHeld, Lotted
<1> QED BY <1>2, <1>10, <1>11, <1>12 DEF GoodsHeld

LEMMA RowMore ==
  ASSUME StockTypes, StockTypes', NEW b \in Bins, RowHeld(b), NEW a \in Counts \ Unlogged(b),
         Unlogged(b)' = Unlogged(b) \cup {a},
         Quantity(b)' = Quantity(b) + Count[a].delta, net'[b] = net[b]
  PROVE  RowHeld(b)'
<1> DEFINE s == SumFunctionOnSet(Deltas, Unlogged(b))
<1>1. IsFiniteSet(Unlogged(b)) /\ \A w \in Unlogged(b) \cup {a} : Deltas[w] \in Int
  BY UnloggedFinite, Rows
<1>2. SumFunctionOnSet(Deltas, Unlogged(b)') = Deltas[a] + s
  BY <1>1, SumAdd
<1>3. s \in Int /\ Quantity(b) \in Int /\ net[b] \in Int /\ Opening(b) \in Int /\ Deltas[a] \in Int
  BY StockMovesAssumption, UnloggedFinite, Rows DEF StockTypes, Quantity, Opening
<1>4. Quantity(b) = net[b] + Opening(b) + s /\ Quantity(b)' = Quantity(b) + Deltas[a]
  BY Rows DEF RowHeld
<1> HIDE DEF s
<1>5. PICK q, m, o, d \in Int : q = Quantity(b) /\ m = net[b] /\ o = Opening(b) /\ d = Deltas[a]
  BY <1>3
<1>6. q + d = m + o + (d + s)
  <2>1. q = m + o + s
    BY <1>4, <1>5
  <2> QED BY <1>3, <2>1
<1>7. Quantity(b)' = net'[b] + Opening(b) + (Deltas[a] + s)
  BY <1>4, <1>5, <1>6
<1> QED BY <1>2, <1>7 DEF RowHeld, Opening, Deltas

LEMMA RowLess ==
  ASSUME StockTypes, StockTypes', NEW b \in Bins, RowHeld(b), NEW a \in Unlogged(b),
         Unlogged(b)' = Unlogged(b) \ {a},
         Quantity(b)' = Quantity(b), net'[b] = net[b] + Count[a].delta
  PROVE  RowHeld(b)'
<1> DEFINE s == SumFunctionOnSet(Deltas, Unlogged(b))
           t == SumFunctionOnSet(Deltas, Unlogged(b) \ {a})
<1>0. a \in Counts
  BY UnloggedFinite
<1>1. IsFiniteSet(Unlogged(b)) /\ \A w \in Unlogged(b) : Deltas[w] \in Int
  BY UnloggedFinite, Rows
<1>2. s = Deltas[a] + t /\ SumFunctionOnSet(Deltas, Unlogged(b)') = t /\ t \in Int
  <2>1. IsFiniteSet(Unlogged(b) \ {a}) /\ \A w \in Unlogged(b) \ {a} : Deltas[w] \in Int
    BY <1>1, FS_Subset
  <2> QED BY <1>1, <2>1, SumRemove, SumInt
<1>3. Quantity(b) \in Int /\ net[b] \in Int /\ Opening(b) \in Int /\ Deltas[a] \in Int
  BY <1>0, StockMovesAssumption, UnloggedFinite, Rows DEF StockTypes, Quantity, Opening
<1>4. Quantity(b) = net[b] + Opening(b) + s /\ net'[b] = net[b] + Deltas[a]
  BY <1>0, Rows DEF RowHeld
<1> HIDE DEF s, t
<1>5. PICK q, m, o, d \in Int : q = Quantity(b) /\ m = net[b] /\ o = Opening(b) /\ d = Deltas[a]
  BY <1>3
<1>6. q = m + d + o + t
  <2>1. q = m + o + (d + t)
    BY <1>2, <1>4, <1>5
  <2> QED BY <1>2, <2>1
<1>7. Quantity(b)' = net'[b] + Opening(b) + t
  BY <1>4, <1>5, <1>6
<1> QED BY <1>2, <1>7 DEF RowHeld, Opening, Deltas

LEMMA AdjustKeeps ==
  ASSUME GoodsHeld, Served, NEW k \in Slots, NEW a \in Counts, Adjust(k, a)
  PROVE  GoodsHeld' /\ \E r : Moved(k, r, {a})
<1> DEFINE r == [at |-> "log", doc |-> a, sum |-> 0, todo |-> <<>>]
<1>1. Placed(r)
  BY DEF Placed, Record, ForStock
<1>2. PICK b \in Bins : b = Count[a].bin
  BY Rows
<1>3. PICK n \in Int : n = Count[a].delta
  BY Rows
<1>4. /\ a \notin counted /\ counted' = counted \cup {a} /\ Enter(k, "log", a, 0, <<>>)
      /\ stock' = IF stock[b] = None /\ n < 0 THEN Add(b, 0) ELSE Add(b, n)
      /\ rowless' = IF stock[b] = None /\ n < 0 THEN rowless \cup {b} ELSE rowless
      /\ UNCHANGED <<lots, net, move, credited, sales, bought>>
  BY <1>2, <1>3 DEF Adjust
<1>5. Moved(k, r, {a}) /\ call[k] = Free /\ cut' = cut
  BY <1>1, <1>4, EnterMoves
<1>6. r.doc = a
  OBVIOUS
<1> HIDE DEF r
<1>7. Quiet(Moves) /\ Quiet(Sellings) /\ Quiet(Counts \ {a})
  BY <1>5, MovedAway, StockKinds
<1>8. InFlight(a) = {} /\ a \notin cut
  BY <1>4 DEF GoodsHeld, CountsHeld, CountHeld
<1>9. InFlight(a)' = {k}
  BY <1>5, <1>6, <1>8, FlightsOf
<1>10. /\ stock' \in [Bins -> Int \cup {None}]
       /\ \A c \in Bins : c # b => Quantity(c)' = Quantity(c)
       /\ b \notin rowless' => Quantity(b)' = Quantity(b) + n
  <2>1. Quantity(b) \in Int /\ Quantity(b) + n \in Int /\ Quantity(b) + 0 \in Int
    BY DEF GoodsHeld, StockTypes, Quantity
  <2>2. CASE stock[b] = None /\ n < 0
    <3>1. stock' = [stock EXCEPT ![b] = Quantity(b) + 0] /\ b \in rowless'
      BY <1>4, <2>2 DEF Add
    <3> QED BY <2>1, <3>1, StockMovesAssumption DEF GoodsHeld, StockTypes, Quantity
  <2>3. CASE ~(stock[b] = None /\ n < 0)
    <3>1. stock' = [stock EXCEPT ![b] = Quantity(b) + n]
      BY <1>4, <2>3 DEF Add
    <3>2. \A c \in Bins : stock'[c] = IF c = b THEN Quantity(b) + n ELSE stock[c]
      BY <3>1 DEF GoodsHeld, StockTypes
    <3>3. stock' \in [Bins -> Int \cup {None}]
      BY <2>1, <3>1 DEF GoodsHeld, StockTypes
    <3>4. stock'[b] = Quantity(b) + n /\ stock'[b] # None
      BY <2>1, <3>2, StockMovesAssumption
    <3>5. Quantity(b)' = Quantity(b) + n
      BY <3>4 DEF Quantity
    <3>6. \A c \in Bins : c # b => Quantity(c)' = Quantity(c)
      BY <3>2 DEF Quantity
    <3> QED BY <3>3, <3>5, <3>6
  <2> QED BY <2>2, <2>3
<1>11. StockTypes'
  <2>1. counted' \in SUBSET Counts /\ IsFiniteSet(counted')
    BY <1>4, FS_AddElement DEF GoodsHeld, StockTypes
  <2> QED BY <1>4, <1>10, <2>1 DEF GoodsHeld, StockTypes
<1>12. TransfersHeld' /\ SalesHeld'
  BY <1>4, <1>7, <1>11, TransferQuiet, SalesQuiet DEF GoodsHeld, TransfersHeld
<1>13. CountsHeld'
  <2>1. ASSUME NEW w \in Counts, w # a PROVE CountHeld(w)'
    BY <1>4, <1>7, <2>1 DEF GoodsHeld, CountsHeld, CountHeld, Quiet
  <2>2. CountHeld(a)'
    BY <1>4, <1>5, <1>8, <1>9 DEF CountHeld
  <2>3. ASSUME NEW c \in Bins \ rowless' PROVE RowHeld(c)'
    <3>1. RowHeld(c) /\ StockTypes /\ c \in Bins
      BY <1>4 DEF GoodsHeld, CountsHeld
    <3>2. Unlogged(c) \subseteq counted /\ counted \subseteq Counts
      BY <3>1 DEF Unlogged, StockTypes
    <3>3. \A w : w # a => (w \in Unlogged(c)' <=> w \in Unlogged(c))
      BY <1>4, <1>7, <3>2 DEF Unlogged, Quiet
    <3>4. CASE c # b
      <4>1. a \notin Unlogged(c)' /\ a \notin Unlogged(c)
        BY <1>2, <3>4 DEF Unlogged
      <4>2. Unlogged(c)' = Unlogged(c)
        BY <3>3, <4>1
      <4>3. Quantity(c)' - net'[c] = Quantity(c) - net[c]
        BY <1>4, <1>10, <3>1, <3>4
      <4> QED BY <1>11, <3>1, <4>2, <4>3, RowQuiet
    <3>5. CASE c = b
      <4>1. a \in Unlogged(b)' /\ a \notin Unlogged(b)
        BY <1>2, <1>4, <1>9 DEF Unlogged
      <4>2. Unlogged(b)' = Unlogged(b) \cup {a}
        BY <3>3, <3>5, <4>1
      <4>3. Quantity(b)' = Quantity(b) + Count[a].delta /\ net'[b] = net[b]
        BY <1>3, <1>4, <1>10, <3>5
      <4> QED BY <1>11, <3>1, <3>5, <4>1, <4>2, <4>3, RowMore
    <3> QED BY <3>4, <3>5
  <2> QED BY <2>1, <2>2, <2>3 DEF CountsHeld
<1> QED BY <1>5, <1>11, <1>12, <1>13 DEF GoodsHeld

LEMMA LogCountKeeps ==
  ASSUME GoodsHeld, Served, NEW k \in Slots, LogCount(k)
  PROVE  GoodsHeld' /\ \E a \in Counts : Moved(k, Free, {a})
<1>0. PICK a \in Counts : a = Doc(k)
  BY StockPlaces DEF LogCount
<1>1. call[k].doc = a /\ k \in InFlight(a)
  BY <1>0, StockPlaces DEF LogCount
<1>2. Moved(k, Free, {a}) /\ UNCHANGED <<crossed, cut>>
  BY <1>1, LeaveMoves DEF LogCount
<1>3. PICK b \in Bins : b = Count[a].bin
  BY Rows
<1>4. PICK n \in Int : n = Count[a].delta
  BY Rows
<1>5. net' = [net EXCEPT ![b] = net[b] + n]
      /\ UNCHANGED <<stock, lots, move, credited, sales, counted, rowless, bought>>
  BY <1>0, <1>3, <1>4 DEF LogCount, Book
<1>6. Quiet(Moves) /\ Quiet(Sellings) /\ Quiet(Counts \ {a})
  BY <1>2, MovedAway, StockKinds
<1>7. a \in counted /\ a \notin cut /\ InFlight(a) = {k}
  BY <1>1 DEF GoodsHeld, CountsHeld, CountHeld
<1>8. InFlight(a)' = {}
  <2>1. Free.doc # a
    BY FreePlaced, StockKinds
  <2> QED BY <1>2, <1>7, <2>1, FlightsOf
<1>9. StockTypes'
  <2>1. net[b] + n \in Int
    BY DEF GoodsHeld, StockTypes
  <2> QED BY <1>5, <2>1 DEF GoodsHeld, StockTypes
<1>10. TransfersHeld' /\ SalesHeld'
  BY <1>5, <1>6, <1>9, TransferQuiet, SalesQuiet DEF GoodsHeld, TransfersHeld
<1>11. CountsHeld'
  <2>1. ASSUME NEW w \in Counts, w # a PROVE CountHeld(w)'
    BY <1>5, <1>6, <2>1, CountQuiet DEF GoodsHeld, CountsHeld
  <2>2. CountHeld(a)'
    BY <1>2, <1>5, <1>7, <1>8 DEF CountHeld
  <2>3. \A c \in Bins : Quantity(c)' = Quantity(c)
    BY <1>5 DEF Quantity
  <2>4. ASSUME NEW c \in Bins \ rowless' PROVE RowHeld(c)'
    <3>1. RowHeld(c) /\ StockTypes /\ c \in Bins
      BY <1>5 DEF GoodsHeld, CountsHeld
    <3>2. Unlogged(c) \subseteq counted /\ counted \subseteq Counts
      BY <3>1 DEF Unlogged, StockTypes
    <3>3. \A w : w # a => (w \in Unlogged(c)' <=> w \in Unlogged(c))
      BY <1>5, <1>6, <3>2 DEF Unlogged, Quiet
    <3>4. CASE c # b
      <4>1. a \notin Unlogged(c)' /\ a \notin Unlogged(c)
        BY <1>3, <3>4 DEF Unlogged
      <4>2. Unlogged(c)' = Unlogged(c)
        BY <3>3, <4>1
      <4>3. net'[c] = net[c]
        BY <1>5, <3>1, <3>4 DEF StockTypes
      <4>4. Quantity(c)' - net'[c] = Quantity(c) - net[c]
        BY <2>3, <4>3
      <4> QED BY <1>9, <3>1, <4>2, <4>4, RowQuiet
    <3>5. CASE c = b
      <4>1. a \notin Unlogged(b)' /\ a \in Unlogged(b)
        BY <1>2, <1>3, <1>7, <1>8 DEF Unlogged
      <4>2. Unlogged(b)' = Unlogged(b) \ {a}
        BY <3>3, <3>5, <4>1
      <4>3. Quantity(b)' = Quantity(b) /\ net'[b] = net[b] + Count[a].delta
        BY <1>4, <1>5, <2>3, <3>1 DEF StockTypes
      <4> QED BY <1>9, <3>1, <3>5, <4>1, <4>2, <4>3, RowLess
    <3> QED BY <3>4, <3>5
  <2> QED BY <2>1, <2>2, <2>4 DEF CountsHeld
<1> QED BY <1>2, <1>9, <1>10, <1>11 DEF GoodsHeld

LEMMA StockStepKeeps ==
  ASSUME GoodsHeld, Served, Alone, NEW k \in Slots, StockStep(k)
  PROVE  GoodsHeld' /\ \E r : \E d \in Stocked : Moved(k, r, {d})
<1>1. ASSUME NEW t \in Moves, CreateMove(k, t) \/ ReceiveMove(k, t)
      PROVE  GoodsHeld' /\ \E r : Moved(k, r, {t})
  BY <1>1, CreateMoveKeeps, ReceiveMoveKeeps
<1>2. ASSUME NEW v \in Sellings, Sell(k, v)
      PROVE  GoodsHeld' /\ \E r : Moved(k, r, {v})
  BY <1>2, SellKeeps
<1>3. ASSUME NEW a \in Counts, Adjust(k, a)
      PROVE  GoodsHeld' /\ \E r : Moved(k, r, {a})
  BY <1>3, AdjustKeeps
<1>4. StockGoesOn(k) => GoodsHeld' /\ \E r : \E d \in Stocked : Moved(k, r, {d})
  BY ShipKeeps, CreditKeeps, DeductKeeps, LogCountKeeps DEF StockGoesOn, Stocked
<1> QED BY <1>1, <1>2, <1>3, <1>4 DEF StockStep, Stocked

\* Goods that come in are booked and bought.
LEMMA Delivered ==
  ASSUME GoodsHeld, NEW n \in [Bins -> Nat], Quiet(Stocked),
         stock' = [b \in Bins |-> IF n[b] = 0 THEN stock[b] ELSE Quantity(b) + n[b]],
         lots' = [b \in Bins |-> lots[b] + (IF Lotted(b) THEN n[b] ELSE 0)],
         net' = [b \in Bins |-> net[b] + n[b]],
         bought' = [b \in Bins |-> bought[b] + n[b]],
         UNCHANGED <<move, credited, sales, counted, rowless>>
  PROVE  GoodsHeld'
<1>1. ASSUME NEW b \in Bins
      PROVE  /\ stock'[b] \in Int \cup {None} /\ lots'[b] \in Int /\ net'[b] \in Int /\ bought'[b] \in Int
             /\ Quantity(b)' - net'[b] = Quantity(b) - net[b]
             /\ Lotted(b) => lots'[b] - bought'[b] = lots[b] - bought[b]
  <2>1. PICK q, m, l, h, i \in Int : /\ q = Quantity(b) /\ m = net[b] /\ l = lots[b] /\ h = bought[b]
                                    /\ i = n[b] /\ i >= 0
    BY DEF GoodsHeld, StockTypes, Quantity
  <2>2. net'[b] = m + i /\ bought'[b] = h + i /\ lots'[b] = l + (IF Lotted(b) THEN i ELSE 0)
    BY <2>1
  <2>3. stock'[b] = IF i = 0 THEN stock[b] ELSE q + i
    BY <2>1
  <2>4. Quantity(b)' = q + i
    <3>1. CASE i = 0
      BY <2>1, <2>3, <3>1 DEF Quantity
    <3>2. CASE i # 0
      <4>1. stock'[b] = q + i /\ stock'[b] # None
        BY <2>3, <3>2, StockMovesAssumption
      <4> QED BY <4>1 DEF Quantity
    <3> QED BY <3>1, <3>2
  <2>5. stock'[b] \in Int \cup {None}
    <3>1. stock[b] \in Int \cup {None} /\ q + i \in Int
      BY DEF GoodsHeld, StockTypes
    <3> QED BY <2>3, <3>1
  <2> QED BY <2>1, <2>2, <2>4, <2>5
<1>2. StockTypes'
  BY <1>1 DEF GoodsHeld, StockTypes
<1>3. Quiet(Moves) /\ Quiet(Counts) /\ Quiet(Sellings)
  BY DEF Quiet, Stocked
<1>4. TransfersHeld' /\ CountsHeld' /\ SalesHeld'
  BY <1>1, <1>2, <1>3, TransferQuiet, CountsQuiet, SalesQuiet DEF GoodsHeld, TransfersHeld
<1> QED BY <1>2, <1>4 DEF GoodsHeld

\* What the check and the people around it do.
LEMMA ProductsKind ==
  /\ Stocked \cap Products = {} /\ None \notin Products /\ Stocked \cap {Checker} = {} /\ None # Checker
  /\ None \notin Stocked /\ Stocked \cap {Agenda} = {} /\ Stocked \cap Bills = {} /\ Stocked \cap Clients = {}
  /\ Stocked \cap CartsOnShow = {}
BY Kinds

LEMMA CloseOrderGoods ==
  ASSUME GoodsHeld, OrderTypes, Served, NEW k \in Slots, NEW n \in DOMAIN orders, CloseOrder(k, n)
  PROVE  GoodsHeld' /\ \E p \in Products : AtOnce(k, p)
<1>0. \A X : \A s \in Seq(X) : \A i \in DOMAIN s : s[i] \in X
  OBVIOUS
<1>1. orders[n].bins \subseteq Bins
  <2>1. orders[n] \in [bins : SUBSET Bins, supplier : Suppliers \cup {None},
                       status : {"DRAFT", "RECEIVED", "CANCELLED"}]
    BY <1>0 DEF OrderTypes
  <2> QED BY <2>1
<1>2. PICK p \in Products : AtOnce(k, p)
  BY <1>1, ReorderAssumption DEF CloseOrder, Product
<1>3. Quiet(Stocked)
  BY <1>2, AtOnceMoves, MovedAway, ProductsKind
<1>4. CASE UNCHANGED stockVars
  BY <1>2, <1>3, <1>4, GoodsQuiet
<1>5. CASE ~UNCHANGED stockVars
  <2> DEFINE in == [b \in Bins |-> IF b \in orders[n].bins THEN ReorderQuantity[Product(b)] ELSE 0]
  <2>1. in \in [Bins -> Nat]
    <3>1. \A b \in Bins : Product(b) \in Products /\ ReorderQuantity[Product(b)] \in Nat
      BY ReorderAssumption DEF Product
    <3> QED BY <3>1
  <2>2. /\ stock' = [b \in Bins |-> IF in[b] = 0 THEN stock[b] ELSE Quantity(b) + in[b]]
        /\ lots' = [b \in Bins |-> lots[b] + (IF Lotted(b) THEN in[b] ELSE 0)]
        /\ net' = [b \in Bins |-> net[b] + in[b]]
        /\ bought' = [b \in Bins |-> bought[b] + in[b]]
        /\ UNCHANGED <<move, credited, sales, counted, rowless>>
    BY <1>5 DEF CloseOrder, stockVars
  <2> HIDE DEF in
  <2> QED BY <1>2, <1>3, <2>1, <2>2, Delivered
<1> QED BY <1>2, <1>4, <1>5

-----------------------------------------------------------------------------
(***************************************************************************)
(* Orders.  What is kept of a list is some of its elements, each once.     *)
(***************************************************************************)
Keep(kept, e, S) == IF e \in S THEN Append(kept, e) ELSE kept

Keeps(g, X, list, S) ==
  /\ g \in [0..Len(list) -> Seq(X)]
  /\ g[0] = <<>> /\ Kept(list, S) = g[Len(list)]
  /\ \A n \in 1..Len(list) : g[n] = Keep(g[n - 1], list[n], S)

LEMMA KeptRun ==
  ASSUME NEW X, NEW list \in Seq(X), NEW S
  PROVE  \E g : Keeps(g, X, list, S)
<1> DEFINE Acc == Seq(X)
           step == [p \in Acc \X X |-> Keep(p[1], p[2], S)]
           Recurs(h) == h = [s \in SUBSET DOMAIN list |->
                               IF s = {} THEN <<>>
                               ELSE Keep(h[s \ {Max(s)}], list[Max(s)], S)]
           it == CHOOSE h : Recurs(h)
<1>1. Len(list) \in Nat /\ DOMAIN list = 1..Len(list) /\ \A n \in DOMAIN list : list[n] \in X
  BY LenProperties
<1>2. ASSUME NEW p \in Acc, NEW e \in X
      PROVE  Keep(p, e, S) \in Acc
  BY AppendProperties DEF Keep
<1>3. step \in [Acc \X X -> Acc] /\ \A p \in Acc, e \in X : step[<<p, e>>] = Keep(p, e, S)
  BY <1>2
<1>4. <<>> \in Acc
  OBVIOUS
<1> HIDE DEF Acc, step
<1>5. Folding(Acc, X, <<>>, list, step)
  BY <1>3, <1>4 DEF Folding
<1>6. \E h : Recurs(h)
  <2>0. PICK h \in [SUBSET DOMAIN list -> Acc] : FoldedBy(step, <<>>, list, h)
    BY <1>5, FoldClosed
  <2>1. h = [s \in SUBSET DOMAIN list |-> FoldStep(step, <<>>, list, h, s)]
    BY <2>0 DEF FoldedBy
  <2>2. ASSUME NEW s \in SUBSET DOMAIN list, s # {}
        PROVE  FoldStep(step, <<>>, list, h, s) = Keep(h[s \ {Max(s)}], list[Max(s)], S)
    <3>1. Max(s) \in DOMAIN list
      BY <1>1, <2>2, IndexIn
    <3>2. h[s \ {Max(s)}] \in Acc /\ list[Max(s)] \in X
      BY <1>1, <2>0, <3>1
    <3> QED BY <1>3, <2>2, <3>2 DEF FoldStep
  <2>3. FoldStep(step, <<>>, list, h, {}) = <<>>
    BY DEF FoldStep
  <2>4. Recurs(h)
    BY <2>1, <2>2, <2>3
  <2> QED BY <2>4
<1>7. Recurs(it)
  BY <1>6
<1>8. Kept(list, S) = it[DOMAIN list]
  BY DEF Kept, FoldLeft, MapThenFoldSet, Keep
<1> HIDE DEF it
<1>9. it[{}] = <<>>
  BY <1>7
<1>10. ASSUME NEW s \in SUBSET DOMAIN list, s # {}, it[s \ {Max(s)}] \in Acc
       PROVE  it[s] = step[<<it[s \ {Max(s)}], list[Max(s)]>>]
  <2>1. Max(s) \in DOMAIN list
    BY <1>1, <1>10, IndexIn
  <2>2. it[s] = Keep(it[s \ {Max(s)}], list[Max(s)], S)
    BY <1>7, <1>10
  <2> QED BY <1>1, <1>3, <1>10, <2>1, <2>2
<1>11. PICK g \in [0..Len(list) -> Acc] :
         /\ g[0] = <<>> /\ g[Len(list)] = it[DOMAIN list]
         /\ \A n \in 1..Len(list) : g[n] = step[<<g[n - 1], list[n]>>]
  <2>1. Follows(Acc, <<>>, list, step, it)
    BY <1>9, <1>10 DEF Follows
  <2> QED BY <1>5, <2>1, FoldRuns
<1>12. \A n \in 1..Len(list) : g[n] = Keep(g[n - 1], list[n], S)
  <2> TAKE n \in 1..Len(list)
  <2>1. g[n - 1] \in Acc /\ list[n] \in X
    BY <1>1, <1>11
  <2> QED BY <1>3, <1>11, <2>1
<1>13. Keeps(g, X, list, S)
  BY <1>8, <1>11, <1>12 DEF Acc, Keeps
<1> QED BY <1>13

\* The elements of kept are those of list at places of S below n, each from a place of its own.
Drawn(kept, list, S, n) ==
  \E m \in [DOMAIN kept -> 1..n] :
    /\ \A i \in DOMAIN kept : kept[i] = list[m[i]] /\ kept[i] \in S
    /\ \A i, j \in DOMAIN kept : m[i] = m[j] => i = j

LEMMA KeepDraws ==
  ASSUME NEW X, NEW list \in Seq(X), NEW S, NEW n \in 1..Len(list), NEW kept \in Seq(X),
         Drawn(kept, list, S, n - 1)
  PROVE  Drawn(Keep(kept, list[n], S), list, S, n)
<1>0. Len(list) \in Nat /\ n \in Nat /\ list[n] \in X /\ \A i \in 1..(n - 1) : i \in 1..n /\ i # n
  BY LenProperties
<1>1. PICK m \in [DOMAIN kept -> 1..(n - 1)] :
         /\ \A i \in DOMAIN kept : kept[i] = list[m[i]] /\ kept[i] \in S
         /\ \A i, j \in DOMAIN kept : m[i] = m[j] => i = j
  BY DEF Drawn
<1>2. CASE list[n] \notin S
  <2>1. m \in [DOMAIN kept -> 1..n]
    BY <1>0
  <2>2. Keep(kept, list[n], S) = kept
    BY <1>2 DEF Keep
  <2>3. Drawn(kept, list, S, n)
    BY <1>1, <2>1 DEF Drawn
  <2> QED BY <2>2, <2>3
<1>3. CASE list[n] \in S
  <2> DEFINE l == Len(kept)
             more == Append(kept, list[n])
             f == [i \in DOMAIN more |-> IF i = l + 1 THEN n ELSE m[i]]
  <2>1. /\ l \in Nat /\ DOMAIN kept = 1..l /\ DOMAIN more = 1..(l + 1)
        /\ more[l + 1] = list[n] /\ \A i \in 1..l : more[i] = kept[i]
    BY <1>0, LenProperties, AppendProperties
  <2>2. \A i \in 1..(l + 1) : i = l + 1 \/ (i \in 1..l /\ i # l + 1)
    BY <2>1
  <2> HIDE DEF l, more
  <2>3. \A i \in DOMAIN more : i # l + 1 => m[i] \in 1..n /\ m[i] # n /\ i \in DOMAIN kept
    BY <1>0, <2>1, <2>2
  <2>4. n \in 1..n
    BY <1>0
  <2>5. f \in [DOMAIN more -> 1..n]
    BY <2>3, <2>4
  <2>6. \A i \in DOMAIN more : f[i] = IF i = l + 1 THEN n ELSE m[i]
    OBVIOUS
  <2> HIDE DEF f
  <2>7. \A i \in DOMAIN more : more[i] = list[f[i]] /\ more[i] \in S
    BY <1>1, <1>3, <2>1, <2>2, <2>6
  <2>8. \A i, j \in DOMAIN more : f[i] = f[j] => i = j
    BY <1>1, <2>3, <2>6
  <2>9. Keep(kept, list[n], S) = more
    BY <1>3 DEF Keep, more
  <2> QED BY <2>5, <2>7, <2>8, <2>9 DEF Drawn
<1> QED BY <1>2, <1>3

LEMMA KeptDrawn ==
  ASSUME NEW X, NEW list \in Seq(X), NEW S
  PROVE  Kept(list, S) \in Seq(X) /\ Drawn(Kept(list, S), list, S, Len(list))
<1>1. Len(list) \in Nat
  BY LenProperties
<1>2. PICK g : Keeps(g, X, list, S)
  BY KeptRun
<1> USE DEF Keeps
<1> DEFINE Bad == {n \in 0..Len(list) : ~Drawn(g[n], list, S, n)}
<1>3. Bad = {}
  <2> SUFFICES ASSUME Bad # {} PROVE FALSE
    OBVIOUS
  <2>1. PICK n \in Bad : \A i \in Bad : n <= i
    <3>1. Bad \in SUBSET Nat
      BY <1>1
    <3> QED BY <3>1, LeastElement
  <2>2. n # 0
    <3>1. DOMAIN <<>> = {}
      OBVIOUS
    <3>2. [i \in {} |-> 0] \in [DOMAIN <<>> -> 1..0]
      BY <3>1
    <3>3. Drawn(<<>>, list, S, 0)
      BY <3>1, <3>2 DEF Drawn
    <3> QED BY <1>2, <2>1, <3>3
  <2>3. n \in 1..Len(list) /\ n - 1 \in 0..Len(list) /\ n - 1 \notin Bad
    BY <1>1, <2>1, <2>2
  <2>4. Drawn(g[n - 1], list, S, n - 1) /\ g[n - 1] \in Seq(X)
    BY <1>2, <2>3
  <2>5. Drawn(Keep(g[n - 1], list[n], S), list, S, n)
    BY <2>3, <2>4, KeepDraws
  <2> QED BY <1>2, <2>1, <2>3, <2>5
<1>4. Len(list) \in 0..Len(list)
  BY <1>1
<1>5. Drawn(g[Len(list)], list, S, Len(list)) /\ g[Len(list)] \in Seq(X)
  BY <1>2, <1>3, <1>4
<1> QED BY <1>2, <1>5

LEMMA KeptDistinct ==
  ASSUME NEW list \in Seq(Work), Distinct(list), NEW S
  PROVE  /\ Kept(list, S) \in Seq(Work) /\ Distinct(Kept(list, S))
         /\ \A i \in DOMAIN Kept(list, S) :
              Kept(list, S)[i] \in S /\ \E j \in DOMAIN list : Kept(list, S)[i] = list[j]
<1>1. Kept(list, S) \in Seq(Work) /\ Drawn(Kept(list, S), list, S, Len(list))
  BY KeptDrawn
<1>2. DOMAIN list = 1..Len(list)
  BY LenProperties
<1> DEFINE kept == Kept(list, S)
<1> HIDE DEF kept
<1>3. PICK m \in [DOMAIN kept -> 1..Len(list)] :
        /\ \A i \in DOMAIN kept : kept[i] = list[m[i]] /\ kept[i] \in S
        /\ \A i, j \in DOMAIN kept : m[i] = m[j] => i = j
  BY <1>1 DEF kept, Drawn
<1>4. Distinct(kept)
  BY <1>2, <1>3 DEF Distinct
<1>5. \A i \in DOMAIN kept : kept[i] \in S /\ \E j \in DOMAIN list : kept[i] = list[j]
  BY <1>2, <1>3
<1> QED BY <1>1, <1>4, <1>5 DEF kept

LEMMA Least ==
  ASSUME NEW S \in SUBSET Nat, S # {}
  PROVE  Min(S) \in S /\ \A n \in S : Min(S) <= n
<1>1. \E m \in S : \A n \in S : m <= n
  BY LeastElement
<1> QED BY <1>1 DEF Min

\* What a check has still to find a quote for.
LEMMA PendingFirst ==
  ASSUME NEW k, Todo(k) \in Seq(Work), Pending(k) # {}
  PROVE  Min(Pending(k)) \in DOMAIN Todo(k) /\ Todo(k)[Min(Pending(k))].supplier = None
<1>1. Pending(k) \in SUBSET Nat
  <2>1. DOMAIN Todo(k) \subseteq Nat
    BY LenProperties
  <2> QED BY <2>1 DEF Pending
<1> QED BY <1>1, Least DEF Pending

-----------------------------------------------------------------------------
\* A step that orders nothing: of a check, and of anybody else.
LEMMA RunMoves ==
  ASSUME Served, OrdersHeld, NEW k \in Slots, NEW r, Moved(k, r, {Checker}), UNCHANGED orders,
         Checker \notin crossed /\ OpenApart /\ r.doc = Checker => RunHeld(r)
  PROVE  OrdersHeld'
<1> SUFFICES ASSUME Checker \notin crossed'
             PROVE  OpenApart' /\ \A j \in InFlight(Checker)' : RunHeld(call[j])'
  BY DEF OrdersHeld
<1>1. Checker \notin crossed /\ OpenApart /\ \A j \in InFlight(Checker) : RunHeld(call[j])
  BY DEF OrdersHeld, Moved
<1>2. OpenOrders' = OpenOrders /\ OpenApart'
  BY <1>1 DEF OpenOrders, OpenApart
<1>3. ASSUME NEW j \in InFlight(Checker)'
      PROVE  RunHeld(call'[j])
  <2>1. j \in Slots /\ call'[j].doc = Checker
    BY DEF InFlight
  <2>2. CASE j = k
    <3>1. call'[j] = r
      BY <2>1, <2>2, MovedFlights
    <3> QED BY <1>1, <2>1, <3>1
  <2>3. CASE j # k
    <3>1. call'[j] = call[j]
      BY <2>1, <2>3, MovedFlights
    <3>2. j \in InFlight(Checker)
      BY <2>1, <3>1 DEF InFlight
    <3> QED BY <1>1, <3>1, <3>2
  <2> QED BY <2>2, <2>3
<1>4. \A j \in InFlight(Checker)' : RunHeld(call[j])'
  BY <1>2, <1>3 DEF RunHeld, Unordered, Distinct
<1> QED BY <1>2, <1>4

LEMMA OrdersQuiet ==
  ASSUME OrdersHeld, Quiet({Checker}), OpenOrders' \subseteq OpenOrders,
         \A n \in OpenOrders' : orders'[n].bins = orders[n].bins
  PROVE  OrdersHeld'
<1> SUFFICES ASSUME Checker \notin crossed'
             PROVE  OpenApart' /\ \A j \in InFlight(Checker)' : RunHeld(call[j])'
  BY DEF OrdersHeld
<1>1. /\ Checker \notin crossed /\ InFlight(Checker)' = InFlight(Checker)
      /\ \A j \in InFlight(Checker) : call'[j] = call[j]
  BY DEF Quiet
<1>2. OpenApart /\ \A j \in InFlight(Checker) : RunHeld(call[j])
  BY <1>1 DEF OrdersHeld
<1>3. OpenApart'
  BY <1>2 DEF OpenApart
<1>4. \A j \in InFlight(Checker)' : RunHeld(call[j])'
  BY <1>1, <1>2 DEF RunHeld, Unordered, Distinct
<1> QED BY <1>3, <1>4

\* What a run of the check has at hand.
LEMMA CheckPlaces ==
  ASSUME Served, NEW k \in Slots, call[k].at \in {"read_open", "quote", "notify"}
  PROVE  /\ call[k].doc = Checker /\ k \in InFlight(Checker)
         /\ Todo(k) = call[k].todo /\ Todo(k) \in Seq(Work)
         /\ At(k, "notify") => Pending(k) # {}
<1>1. ForChecks(call[k])
  BY PlacesOf DEF Served
<1> QED BY <1>1 DEF ForChecks, InFlight, Todo, At, Pending

LEMMA WorklistFit == Worklist \in Seq(Work) /\ Distinct(Worklist)
<1> DEFINE S == {Unresolved(b) : b \in Bins}
           s == SetToSeq(S)
<1>1. IsFiniteSet(S)
  <2> DEFINE f == [b \in Bins |-> Unresolved(b)]
  <2>1. f \in Surjection(Bins, S)
    BY Fun_IsSurj
  <2> QED BY <2>1, FS_Surjection, ReorderAssumption
<1>2. S \subseteq Work /\ \A e, f \in S : e.bin = f.bin => e = f
  BY DEF Unresolved, Work
<1> HIDE DEF S
<1>3. s \in Seq(S) /\ \A i, j \in DOMAIN s : s[i] = s[j] => i = j
  BY <1>1, Listing
<1>4. DOMAIN s = 1..Len(s) /\ \A i \in DOMAIN s : s[i] \in S
  BY <1>3, LenProperties
<1> HIDE DEF s
<1>5. s \in Seq(Work) /\ Distinct(s)
  <2>1. s \in Seq(Work)
    BY <1>2, <1>3, SeqMonotonic
  <2> QED BY <1>2, <1>3, <1>4, <2>1 DEF Distinct
<1>6. InOrder = s
  BY DEF InOrder, S, s
<1> QED BY <1>5, <1>6, KeptDistinct DEF Worklist

LEMMA CheckStarts ==
  ASSUME Served, OrdersHeld, NEW k \in Slots, NEW n \in {0, 1}, UNCHANGED orders,
         \/ Enter(k, "read_open", Checker, n, Worklist)
         \/ Timed(k, "read_open", Checker, n, Worklist)
  PROVE  OrdersHeld' /\ \E r : Moved(k, r, {Checker})
<1> DEFINE r == [at |-> "read_open", doc |-> Checker, sum |-> n, todo |-> Worklist]
<1>1. Placed(r)
  BY WorklistFit DEF Placed, Record, ForChecks
<1>2. Moved(k, r, {Checker})
  <2>1. Checker \in {Checker}
    OBVIOUS
  <2> QED BY <1>1, <2>1, EnterMoves
<1>3. RunHeld(r)
  BY WorklistFit DEF RunHeld
<1> HIDE DEF r
<1> QED BY <1>2, <1>3, RunMoves

\* A run goes on with what is left of its list.
LEMMA CheckGoes ==
  ASSUME Served, OrdersHeld, NEW k \in Slots, call[k].at \in {"read_open", "quote", "notify"},
         UNCHANGED orders, NEW rest \in Seq(Work), GotoLeft(k, "quote", rest),
         Checker \notin crossed /\ OpenApart => Distinct(rest) /\ Unordered(rest)
  PROVE  OrdersHeld' /\ \E r : Moved(k, r, {Checker})
<1> DEFINE r == [at |-> "quote", doc |-> call[k].doc, sum |-> call[k].sum, todo |-> rest]
<1>1. call[k].doc = Checker
  BY CheckPlaces
<1>2. Placed(r)
  BY <1>1 DEF Placed, Record, ForChecks
<1>3. Moved(k, r, {Checker})
  <2>1. call[k].doc \in {Checker}
    BY <1>1
  <2> QED BY <1>2, <2>1, GotoLeftMoves
<1>4. r.todo = rest
  OBVIOUS
<1> HIDE DEF r
<1>5. Checker \notin crossed /\ OpenApart => RunHeld(r)
  BY <1>4 DEF RunHeld
<1> QED BY <1>3, <1>5, RunMoves

LEMMA ReadOpenKeeps ==
  ASSUME Served, OrdersHeld, NEW k \in Slots, ReadOpen(k)
  PROVE  OrdersHeld' /\ \E r : Moved(k, r, {Checker})
<1> DEFINE S == {e \in ToSet(Todo(k)) : Product(e.bin) \notin OpenProducts}
           rest == Kept(Todo(k), S)
<1>1. /\ call[k].at = "read_open" /\ k \in InFlight(Checker) /\ Todo(k) \in Seq(Work)
      /\ GotoLeft(k, "quote", rest) /\ UNCHANGED orders
  BY CheckPlaces DEF ReadOpen, At, reorderVars
<1>2. \A e \in S, n \in OpenOrders : e.bin \notin orders[n].bins
  BY DEF OpenProducts
<1> HIDE DEF S
<1>3. rest \in Seq(Work)
  BY <1>1, KeptDrawn
<1>4. ASSUME Checker \notin crossed
      PROVE  Distinct(rest) /\ Unordered(rest)
  <2>1. Distinct(Todo(k))
    BY <1>1, <1>4 DEF OrdersHeld, RunHeld, Todo
  <2>2. Distinct(rest) /\ \A i \in DOMAIN rest : rest[i] \in S
    BY <1>1, <2>1, KeptDistinct
  <2> QED BY <1>2, <2>2 DEF Unordered
<1> HIDE DEF rest
<1> QED BY <1>1, <1>3, <1>4, CheckGoes

LEMMA FindQuoteKeeps ==
  ASSUME OrderTypes, Served, OrdersHeld, NEW k \in Slots, FindQuote(k)
  PROVE  OrdersHeld' /\ \E r : Moved(k, r, {Checker})
<1> DEFINE n == Min(Pending(k))
           p == Product(Todo(k)[n].bin)
<1>1. /\ call[k].at = "quote" /\ call[k].doc = Checker /\ k \in InFlight(Checker)
      /\ Todo(k) = call[k].todo /\ Todo(k) \in Seq(Work) /\ Pending(k) # {} /\ UNCHANGED orders
  BY CheckPlaces DEF FindQuote, At, reorderVars
<1>2. n \in DOMAIN Todo(k) /\ Todo(k)[n].supplier = None
  BY <1>1, PendingFirst
<1>3. Goto(k, "notify") \/ \E s \in Cheapest(p) : GotoLeft(k, "quote", [Todo(k) EXCEPT ![n].supplier = s])
  BY DEF FindQuote
<1>4. CASE Goto(k, "notify")
  <2> DEFINE r == [at |-> "notify", doc |-> call[k].doc, sum |-> call[k].sum, todo |-> call[k].todo]
  <2>1. Placed(r)
    BY <1>1, <1>2 DEF Placed, Record, ForChecks
  <2>2. Moved(k, r, {Checker})
    <3>1. call[k].doc \in {Checker}
      BY <1>1
    <3> QED BY <1>4, <2>1, <3>1, GotoMoves
  <2>3. r.todo = call[k].todo
    OBVIOUS
  <2> HIDE DEF r
  <2>4. Checker \notin crossed => RunHeld(r)
    BY <1>1, <2>3 DEF OrdersHeld, RunHeld
  <2> QED BY <1>1, <2>2, <2>4, RunMoves
<1>5. ASSUME NEW s \in Cheapest(p), GotoLeft(k, "quote", [Todo(k) EXCEPT ![n].supplier = s])
      PROVE  OrdersHeld' /\ \E r : Moved(k, r, {Checker})
  <2> DEFINE todo == Todo(k)
             rest == [todo EXCEPT ![n].supplier = s]
  <2>1. \A X : \A q \in Seq(X) : \A i \in DOMAIN q : q[i] \in X
    OBVIOUS
  <2>2. todo[n] \in Work /\ todo[n].bin \in Bins
    <3>1. todo[n] \in Work
      <4> HIDE DEF n
      <4> QED BY <1>1, <1>2, <2>1
    <3> HIDE DEF todo, n
    <3> QED BY <3>1 DEF Work
  <2>3. s \in Suppliers
    BY <2>2, ReorderAssumption DEF Cheapest, OrderTypes, Product
  <2>4. [todo[n] EXCEPT !.supplier = s] \in Work /\ [todo[n] EXCEPT !.supplier = s].bin = todo[n].bin
    BY <2>2, <2>3 DEF Work
  <2>5. rest = [todo EXCEPT ![n] = [todo[n] EXCEPT !.supplier = s]]
    OBVIOUS
  <2>6. rest \in Seq(Work) /\ DOMAIN rest = DOMAIN todo /\ \A i \in DOMAIN todo : rest[i].bin = todo[i].bin
    <3> DEFINE e == [todo[n] EXCEPT !.supplier = s]
    <3> HIDE DEF e
    <3>1. rest = [todo EXCEPT ![n] = e] /\ e \in Work /\ e.bin = todo[n].bin
      BY <2>4, <2>5 DEF e
    <3> HIDE DEF rest
    <3>2. rest \in Seq(Work)
      BY <1>1, <1>2, <3>1, ExceptSeq
    <3> QED BY <1>2, <3>1, <3>2
  <2>7. ASSUME Checker \notin crossed
        PROVE  Distinct(rest) /\ Unordered(rest)
    <3>1. Distinct(todo) /\ Unordered(todo)
      BY <1>1, <2>7 DEF OrdersHeld, RunHeld
    <3> HIDE DEF rest, todo
    <3> QED BY <2>6, <3>1 DEF Distinct, Unordered
  <2>8. GotoLeft(k, "quote", rest)
    BY <1>5
  <2> HIDE DEF rest
  <2> QED BY <1>1, <2>6, <2>7, <2>8, CheckGoes
<1> QED BY <1>3, <1>4, <1>5

LEMMA NotifyKeeps ==
  ASSUME Served, OrdersHeld, NEW k \in Slots, Notify(k)
  PROVE  OrdersHeld' /\ \E r : Moved(k, r, {Checker})
<1> DEFINE n == Min(Pending(k))
           rest == RemoveAt(Todo(k), n)
<1>1. /\ call[k].at = "notify" /\ k \in InFlight(Checker) /\ Pending(k) # {}
      /\ Todo(k) = call[k].todo /\ Todo(k) \in Seq(Work) /\ UNCHANGED orders
      /\ GotoLeft(k, "quote", rest)
  BY CheckPlaces DEF Notify, At
<1>2. n \in DOMAIN Todo(k)
  BY <1>1, PendingFirst
<1> HIDE DEF n
<1>3. /\ rest \in Seq(Work) /\ DOMAIN rest = 1..(Len(Todo(k)) - 1)
      /\ \A i \in 1..(Len(Todo(k)) - 1) :
           /\ rest[i] = Todo(k)[IF i < n THEN i ELSE i + 1]
           /\ (IF i < n THEN i ELSE i + 1) \in DOMAIN Todo(k)
  BY <1>1, <1>2, Removed
<1>4. n \in Nat /\ Len(Todo(k)) \in Nat
  BY <1>1, <1>2, LenProperties
<1> HIDE DEF rest
<1>5. ASSUME Checker \notin crossed
      PROVE  Distinct(rest) /\ Unordered(rest)
  <2>1. Distinct(Todo(k)) /\ Unordered(Todo(k))
    BY <1>1, <1>5 DEF OrdersHeld, RunHeld
  <2>2. Unordered(rest)
    BY <1>3, <2>1 DEF Unordered
  <2>3. Distinct(rest)
    <3> SUFFICES ASSUME NEW i \in DOMAIN rest, NEW j \in DOMAIN rest, rest[i].bin = rest[j].bin
                 PROVE  i = j
      BY DEF Distinct
    <3>1. (IF i < n THEN i ELSE i + 1) = (IF j < n THEN j ELSE j + 1)
      BY <1>3, <2>1 DEF Distinct
    <3> QED BY <1>3, <1>4, <3>1
  <2> QED BY <2>2, <2>3
<1> QED BY <1>1, <1>3, <1>5, CheckGoes

\* The order of a run is of bins on no other, and of none that is left to order.
LEMMA DraftOrderKeeps ==
  ASSUME OrderTypes, Served, Alone, OrdersHeld, NEW k \in Slots, DraftOrder(k)
  PROVE  OrdersHeld' /\ OrderTypes' /\ \E r : Moved(k, r, {Checker})
<1> DEFINE todo == Todo(k)
           first == Head(todo)
           group == {e \in ToSet(todo) : SameGroup(e, first)}
           others == ToSet(todo) \ group
           rest == Kept(todo, others)
           order == [bins |-> {e.bin : e \in group}, supplier |-> first.supplier, status |-> "DRAFT"]
           last == Len(orders) + 1
           r == [at |-> "quote", doc |-> call[k].doc, sum |-> call[k].sum, todo |-> rest]
<1>1. /\ call[k].at = "quote" /\ call[k].doc = Checker /\ k \in InFlight(Checker)
      /\ todo = call[k].todo /\ todo \in Seq(Work)
  BY CheckPlaces DEF DraftOrder, At
<1>2. /\ todo # <<>> /\ orders' = Append(orders, order) /\ quoted' = quoted
      /\ GotoLeft(k, "quote", rest)
  BY DEF DraftOrder
<1>3. \A X : \A s \in Seq(X) : /\ DOMAIN s = 1..Len(s) /\ Len(s) \in Nat
                               /\ \A i \in DOMAIN s : s[i] \in X
                               /\ s # <<>> => Head(s) = s[1] /\ 1 \in DOMAIN s
  OBVIOUS
<1>4. ToSet(todo) \subseteq Work /\ first \in Work /\ group \subseteq ToSet(todo)
      /\ \A e \in ToSet(todo) : \E i \in DOMAIN todo : e = todo[i]
  <2>1. \A e \in ToSet(todo) : \E i \in DOMAIN todo : e = todo[i]
    BY DEF ToSet
  <2> HIDE DEF todo
  <2> QED BY <1>1, <1>2, <1>3, <2>1
<1>5. /\ order \in [bins : SUBSET Bins, supplier : Suppliers \cup {None},
                    status : {"DRAFT", "RECEIVED", "CANCELLED"}]
      /\ order.bins = {e.bin : e \in group} /\ order.status = "DRAFT"
  <2> HIDE DEF group, first
  <2> QED BY <1>4 DEF Work
<1> HIDE DEF order, first
<1>6. /\ orders' \in Seq([bins : SUBSET Bins, supplier : Suppliers \cup {None},
                          status : {"DRAFT", "RECEIVED", "CANCELLED"}])
      /\ DOMAIN orders' = DOMAIN orders \cup {last} /\ last \notin DOMAIN orders
      /\ orders'[last] = order /\ \A n \in DOMAIN orders : orders'[n] = orders[n]
  <2>1. \A X : \A s \in Seq(X), e \in X :
          /\ Append(s, e) \in Seq(X) /\ DOMAIN Append(s, e) = DOMAIN s \cup {Len(s) + 1}
          /\ Len(s) + 1 \notin DOMAIN s
          /\ Append(s, e)[Len(s) + 1] = e /\ \A n \in DOMAIN s : Append(s, e)[n] = s[n]
    OBVIOUS
  <2> QED BY <1>2, <1>5, <2>1 DEF OrderTypes
<1>7. OrderTypes'
  BY <1>2, <1>6 DEF OrderTypes
<1> HIDE DEF last
<1>8. OpenOrders' = OpenOrders \cup {last} /\ last \notin OpenOrders
      /\ \A n \in OpenOrders : orders'[n] = orders[n]
  BY <1>5, <1>6 DEF OpenOrders
<1>9. rest \in Seq(Work)
  <2> HIDE DEF others, todo
  <2> QED BY <1>1, KeptDrawn
<1>10. Placed(r) /\ r.doc = Checker /\ r.todo = rest /\ r.at = "quote"
  <2> HIDE DEF rest
  <2> QED BY <1>1, <1>9 DEF Placed, Record, ForChecks
<1>11. Moved(k, r, {Checker})
  <2>1. call[k].doc \in {Checker}
    BY <1>1
  <2> QED BY <1>2, <1>10, <2>1, GotoLeftMoves
<1>12. OrdersHeld'
  <2> SUFFICES ASSUME Checker \notin crossed'
               PROVE  OpenApart' /\ \A j \in InFlight(Checker)' : RunHeld(call[j])'
    BY DEF OrdersHeld
  <2>0. Checker \notin crossed'
    OBVIOUS
  <2>1. Checker \notin crossed
    BY <1>11 DEF Moved
  <2>2. OpenApart /\ Distinct(todo) /\ Unordered(todo)
    BY <1>1, <2>1 DEF OrdersHeld, RunHeld
  <2>3. OpenApart'
    <3>1. \A e \in group, n \in OpenOrders : e.bin \notin orders[n].bins
      <4> HIDE DEF todo, group
      <4> QED BY <1>4, <2>2 DEF Unordered
    <3>2. \A n \in OpenOrders : order.bins \cap orders[n].bins = {}
      <4> HIDE DEF group
      <4> QED BY <1>5, <3>1
    <3> QED BY <1>6, <1>8, <2>2, <3>2 DEF OpenApart
  <2>4. Distinct(rest) /\ Unordered(rest)
        /\ \A i \in DOMAIN rest : rest[i].bin \notin order.bins
    <3>1. Distinct(rest) /\ \A i \in DOMAIN rest : rest[i] \in others /\ \E j \in DOMAIN todo : rest[i] = todo[j]
      <4> HIDE DEF others, todo
      <4> QED BY <1>1, <2>2, KeptDistinct
    <3> HIDE DEF rest
    <3>2. Unordered(rest)
      <4> HIDE DEF todo
      <4> QED BY <2>2, <3>1 DEF Unordered
    <3>3. ASSUME NEW i \in DOMAIN rest, NEW e \in group, rest[i].bin = e.bin
          PROVE  FALSE
      <4>1. PICK j \in DOMAIN todo : rest[i] = todo[j]
        BY <3>1
      <4>2. PICK m \in DOMAIN todo : e = todo[m]
        BY <1>4
      <4>3. rest[i] = e
        <5> HIDE DEF todo
        <5> QED BY <2>2, <3>3, <4>1, <4>2 DEF Distinct
      <4> QED BY <3>1, <4>3
    <3> QED BY <1>5, <3>1, <3>2, <3>3
  <2>5. ASSUME NEW j \in InFlight(Checker)'
        PROVE  Distinct(call'[j].todo) /\ \A i \in DOMAIN call'[j].todo, n \in OpenOrders' :
                                            call'[j].todo[i].bin \notin orders'[n].bins
    <3>1. j = k
      <4>1. Served' /\ Alone'
        BY <1>11, MovedKeeps
      <4>2. k \in InFlight(Checker)'
        BY <1>10, <1>11, FlightsOf
      <4> QED BY <2>0, <4>1, <4>2, Kinds DEF Alone
    <3>2. call'[j].todo = rest
      <4> HIDE DEF r
      <4>1. call'[k] = r
        BY <1>11, FlightsOf
      <4> QED BY <1>10, <3>1, <4>1
    <3> HIDE DEF rest
    <3>3. \A i \in DOMAIN rest, n \in OpenOrders' : rest[i].bin \notin orders'[n].bins
      BY <1>6, <1>8, <2>4 DEF Unordered
    <3> QED BY <2>4, <3>2, <3>3
  <2>6. \A j \in InFlight(Checker)' : RunHeld(call[j])'
    BY <2>5 DEF RunHeld, Unordered, Distinct
  <2> QED BY <2>3, <2>6
<1> QED BY <1>7, <1>11, <1>12

LEMMA CheckDoneKeeps ==
  ASSUME Served, OrdersHeld, NEW k \in Slots, CheckDone(k)
  PROVE  OrdersHeld' /\ \E r : Moved(k, r, {Checker})
<1>1. /\ call[k].at = "quote" /\ call[k].doc = Checker /\ Leave(k) /\ UNCHANGED orders
  BY CheckPlaces DEF CheckDone, At, reorderVars
<1>2. Moved(k, Free, {Checker})
  <2>1. call[k].doc \in {Checker}
    BY <1>1
  <2> QED BY <1>1, <2>1, LeaveMoves
<1>3. Free.doc # Checker
  BY FreePlaced, Kinds
<1> QED BY <1>1, <1>2, <1>3, RunMoves

\* The others touch quotes and notifications, or close an order.
LEMMA CloseOrderKeeps ==
  ASSUME OrderTypes, Served, OrdersHeld, NEW k \in Slots, NEW n \in DOMAIN orders, CloseOrder(k, n)
  PROVE  OrdersHeld' /\ OrderTypes'
<1>0. \A X : \A s \in Seq(X) : DOMAIN s = 1..Len(s) /\ \A i \in DOMAIN s : s[i] \in X
  OBVIOUS
<1>1. orders[n] \in [bins : SUBSET Bins, supplier : Suppliers \cup {None},
                     status : {"DRAFT", "RECEIVED", "CANCELLED"}]
  BY <1>0 DEF OrderTypes
<1>2. PICK status \in {"RECEIVED", "CANCELLED"} : orders' = [orders EXCEPT ![n].status = status]
  BY DEF CloseOrder
<1> DEFINE closed == [orders[n] EXCEPT !.status = status]
<1>3. closed \in [bins : SUBSET Bins, supplier : Suppliers \cup {None},
                  status : {"DRAFT", "RECEIVED", "CANCELLED"}]
      /\ closed.bins = orders[n].bins /\ closed.status # "DRAFT"
  BY <1>1
<1>4. orders' = [orders EXCEPT ![n] = closed]
  BY <1>2
<1> HIDE DEF closed
<1>5. /\ orders' \in Seq([bins : SUBSET Bins, supplier : Suppliers \cup {None},
                          status : {"DRAFT", "RECEIVED", "CANCELLED"}])
      /\ DOMAIN orders' = DOMAIN orders
      /\ \A m \in DOMAIN orders : orders'[m] = IF m = n THEN closed ELSE orders[m]
  BY <1>0, <1>3, <1>4, ExceptSeq DEF OrderTypes
<1>6. OrderTypes'
  BY <1>5 DEF OrderTypes, CloseOrder
<1>7. OpenOrders' \subseteq OpenOrders /\ \A m \in OpenOrders' : orders'[m].bins = orders[m].bins
  BY <1>3, <1>5 DEF OpenOrders
<1>8. Quiet({Checker})
  <2>1. \E p \in Products : AtOnce(k, p)
    <3>1. orders[n].bins \subseteq Bins
      BY <1>1
    <3> QED BY <3>1, ReorderAssumption DEF CloseOrder, Product
  <2>2. {Checker} \cap Products = {} /\ None \notin {Checker}
    BY Kinds
  <2> QED BY <2>1, <2>2, AtOnceMoves, MovedAway
<1> QED BY <1>6, <1>7, <1>8, OrdersQuiet

\* A request moves, about documents of D.
Moving(k, D) == \E r : Moved(k, r, D)

LEMMA MovingWider ==
  ASSUME NEW k, NEW D, NEW E, D \subseteq E, Moving(k, D)
  PROVE  Moving(k, E)
<1>1. PICK r : Moved(k, r, D)
  BY DEF Moving
<1>2. Moved(k, r, E)
  BY <1>1 DEF Moved
<1> QED BY <1>2 DEF Moving

LEMMA MovingAway ==
  ASSUME Served, NEW k \in Slots, NEW D, Moving(k, D), NEW E, E \cap D = {}, None \notin E
  PROVE  Quiet(E)
BY MovedAway DEF Moving

LEMMA AtOnceMoving ==
  ASSUME Served, NEW k \in Slots, NEW D, NEW d \in D, AtOnce(k, d)
  PROVE  Moving(k, D) /\ call' = call /\ cut' = cut /\ (InFlight(d) = {} \/ d \in crossed')
BY AtOnceMoves DEF Moving

OrdersOK == OrderTypes /\ OrdersHeld

LEMMA OrdersStart == CallsInit /\ ReorderInit => OrdersOK
<1> SUFFICES ASSUME CallsInit, ReorderInit PROVE OrdersOK
  OBVIOUS
<1>1. OrderTypes
  BY ReorderAssumption DEF ReorderInit, OrderTypes
<1>2. OpenOrders = {} /\ InFlight(Checker) = {}
  BY Kinds DEF CallsInit, InFlight, Free, ReorderInit, OpenOrders
<1> QED BY <1>1, <1>2 DEF OrdersHeld, OpenApart, OrdersOK

LEMMA OrdersAside ==
  ASSUME OrdersOK, UNCHANGED reorderVars, Quiet({Checker})
  PROVE  OrdersOK'
<1>1. OpenOrders' = OpenOrders /\ orders' = orders /\ quoted' = quoted
  BY DEF reorderVars, OpenOrders
<1>2. OrdersHeld'
  BY <1>1, OrdersQuiet DEF OrdersOK
<1> QED BY <1>1, <1>2 DEF OrdersOK, OrderTypes

LEMMA OrdersCrash ==
  ASSUME OrdersOK, Served, Crash, UNCHANGED reorderVars
  PROVE  OrdersOK'
<1>1. InFlight(Checker)' = {} /\ crossed' = crossed
  BY CrashClears, Kinds
<1>2. orders' = orders /\ quoted' = quoted
  BY DEF reorderVars
<1> QED BY <1>1, <1>2 DEF OrdersOK, OrderTypes, OrdersHeld, OpenApart, OpenOrders

LEMMA CheckStepKeeps ==
  ASSUME OrdersOK, Served, Alone, NEW k \in Slots,
         CheckByHand(k) \/ CheckByTimer(k) \/ CheckGoesOn(k)
  PROVE  OrdersOK' /\ Moving(k, {Checker}) /\ UNCHANGED stockVars
<1>0. OrderTypes /\ OrdersHeld /\ Checker \in {Checker}
  BY DEF OrdersOK
<1>1. UNCHANGED orders /\ UNCHANGED quoted => OrderTypes'
  BY <1>0 DEF OrderTypes
<1>2. CASE CheckByHand(k) /\ AtOnce(k, Checker)
  <2>1. OrdersHeld' /\ Moving(k, {Checker})
    <3>1. Moved(k, call[k], {Checker}) /\ UNCHANGED orders
      BY <1>0, <1>2, AtOnceMoves DEF CheckByHand, reorderVars
    <3>2. call[k].doc # Checker
      <4>1. call[k] = Free
        BY <1>2, PlacesOf DEF Served, AtOnce, At
      <4> QED BY <4>1, FreePlaced, Kinds
    <3> QED BY <1>0, <3>1, <3>2, RunMoves DEF Moving
  <2> QED BY <1>1, <1>2, <2>1 DEF CheckByHand, reorderVars, OrdersOK
<1>3. CASE CheckByHand(k) /\ Enter(k, "read_open", Checker, 0, Worklist)
  BY <1>0, <1>1, <1>3, CheckStarts DEF CheckByHand, reorderVars, OrdersOK, Moving
<1>4. CASE CheckByTimer(k)
  BY <1>0, <1>1, <1>4, CheckStarts DEF CheckByTimer, reorderVars, OrdersOK, Moving
<1>5. CASE ReadOpen(k)
  <2>1. OrdersHeld' /\ Moving(k, {Checker})
    BY <1>0, <1>5, ReadOpenKeeps DEF Moving
  <2> QED BY <1>1, <1>5, <2>1 DEF ReadOpen, reorderVars, OrdersOK
<1>6. CASE FindQuote(k)
  <2>1. OrdersHeld' /\ Moving(k, {Checker})
    BY <1>0, <1>6, FindQuoteKeeps DEF Moving
  <2> QED BY <1>1, <1>6, <2>1 DEF FindQuote, reorderVars, OrdersOK
<1>7. CASE Notify(k)
  <2>1. OrdersHeld' /\ Moving(k, {Checker})
    BY <1>0, <1>7, NotifyKeeps DEF Moving
  <2> QED BY <1>1, <1>7, <2>1 DEF Notify, OrdersOK
<1>8. CASE DraftOrder(k)
  BY <1>0, <1>8, DraftOrderKeeps DEF DraftOrder, OrdersOK, Moving
<1>9. CASE CheckDone(k)
  <2>1. OrdersHeld' /\ Moving(k, {Checker})
    BY <1>0, <1>9, CheckDoneKeeps DEF Moving
  <2> QED BY <1>1, <1>9, <2>1 DEF CheckDone, reorderVars, OrdersOK
<1> QED BY <1>2, <1>3, <1>4, <1>5, <1>6, <1>7, <1>8, <1>9 DEF CheckByHand, CheckGoesOn

LEMMA ReorderStepKeeps ==
  ASSUME GoodsHeld, OrdersOK, Served, Alone, NEW k \in Slots, ReorderStep(k)
  PROVE  GoodsHeld' /\ OrdersOK' /\ Moving(k, {Checker} \cup Products)
<1>1. CASE CheckByHand(k) \/ CheckByTimer(k) \/ CheckGoesOn(k)
  <2>1. OrdersOK' /\ Moving(k, {Checker}) /\ UNCHANGED stockVars
    BY <1>1, CheckStepKeeps
  <2>2. Quiet(Stocked)
    BY <2>1, MovingAway, ProductsKind
  <2> QED BY <2>1, <2>2, GoodsQuiet, MovingWider
<1>2. ASSUME NEW p \in Products, AddQuote(k, p) \/ QuoteExpires(k, p) \/ MarkAllRead(k, p)
      PROVE  GoodsHeld' /\ OrdersOK' /\ Moving(k, {Checker} \cup Products)
  <2>1. AtOnce(k, p) /\ UNCHANGED stockVars /\ orders' = orders
    BY <1>2 DEF AddQuote, QuoteExpires, MarkAllRead
  <2>2. Moving(k, Products)
    BY <2>1, AtOnceMoving
  <2>3. Quiet(Stocked) /\ Quiet({Checker})
    <3>1. {Checker} \cap Products = {} /\ None \notin {Checker}
      BY Kinds
    <3> QED BY <2>2, <3>1, MovingAway, ProductsKind
  <2>4. OrdersHeld'
    <3>1. OpenOrders' = OpenOrders
      BY <2>1 DEF OpenOrders
    <3> QED BY <2>1, <2>3, <3>1, OrdersQuiet DEF OrdersOK
  <2>5. quoted' \in [Products -> SUBSET Suppliers]
    BY <1>2 DEF AddQuote, QuoteExpires, MarkAllRead, OrdersOK, OrderTypes
  <2>6. OrderTypes'
    BY <2>1, <2>5 DEF OrderTypes, OrdersOK
  <2>7. GoodsHeld'
    BY <2>1, <2>3, GoodsQuiet
  <2> QED BY <2>2, <2>4, <2>6, <2>7, MovingWider DEF OrdersOK
<1>3. ASSUME NEW n \in DOMAIN orders, CloseOrder(k, n)
      PROVE  GoodsHeld' /\ OrdersOK' /\ Moving(k, {Checker} \cup Products)
  <2>1. OrderTypes /\ OrdersHeld
    BY DEF OrdersOK
  <2>2. GoodsHeld' /\ \E p \in Products : AtOnce(k, p)
    BY <1>3, <2>1, CloseOrderGoods
  <2>3. Moving(k, Products)
    BY <2>2, AtOnceMoving
  <2>4. OrdersHeld' /\ OrderTypes'
    BY <1>3, <2>1, CloseOrderKeeps
  <2> QED BY <2>2, <2>3, <2>4, MovingWider DEF OrdersOK
<1> QED BY <1>1, <1>2, <1>3 DEF ReorderStep

\* A set without two members has one at most.
LEMMA AtMostOne ==
  ASSUME NEW S, \A x, y \in S : x = y
  PROVE  IsFiniteSet(S) /\ Cardinality(S) \in Nat /\ Cardinality(S) <= 1
<1>1. CASE S = {}
  BY <1>1, FS_EmptySet
<1>2. CASE S # {}
  <2>1. PICK x : S = {x}
    BY <1>2
  <2>2. IsFiniteSet({x}) /\ Cardinality({x}) = 1
    BY FS_Singleton
  <2> QED BY <2>1, <2>2
<1> QED BY <1>1, <1>2

LEMMA OrdersDrafted == OrdersOK => OrderedOnce
<1> SUFFICES ASSUME OrdersOK, Checker \notin crossed, NEW b \in Bins
             PROVE  Cardinality({n \in OpenOrders : b \in orders[n].bins}) <= 1
  BY DEF OrderedOnce
<1> DEFINE S == {n \in OpenOrders : b \in orders[n].bins}
<1>1. \A m, n \in S : m = n
  BY DEF OrdersOK, OrdersHeld, OpenApart
<1> HIDE DEF S
<1>2. Cardinality(S) <= 1
  BY <1>1, AtMostOne
<1> QED BY <1>2 DEF S

-----------------------------------------------------------------------------
(***************************************************************************)
(* Sessions.  What becomes of the tokens when one is issued or revoked.    *)
(***************************************************************************)
Grows == /\ DOMAIN token \subseteq DOMAIN token'
         /\ \A n \in DOMAIN token : token'[n].user = token[n].user

LEMMA Issued ==
  ASSUME token \in Seq(Token), NEW u \in Users, Issue(u)
  PROVE  /\ token' \in Seq(Token) /\ Grows
         /\ Len(token) + 1 \in Nat \ {0} /\ Len(token) + 1 \notin DOMAIN token
         /\ Len(token) + 1 \in DOMAIN token' /\ token'[Len(token) + 1].user = u
         /\ Live(u)' = Live(u) \cup {Len(token) + 1}
         /\ \A v \in Users \ {u} : Live(v)' = Live(v)
<1> DEFINE t == [user |-> u, live |-> TRUE]
           n == Len(token) + 1
<1>1. t \in Token /\ t.user = u /\ t.live = TRUE
  BY DEF Token
<1>2. \A X : \A s \in Seq(X), e \in X :
        /\ Append(s, e) \in Seq(X) /\ DOMAIN Append(s, e) = DOMAIN s \cup {Len(s) + 1}
        /\ Len(s) + 1 \notin DOMAIN s /\ Len(s) + 1 \in Nat \ {0}
        /\ Append(s, e)[Len(s) + 1] = e /\ \A i \in DOMAIN s : Append(s, e)[i] = s[i]
  OBVIOUS
<1>3. token' = Append(token, t)
  BY DEF Issue
<1> HIDE DEF t
<1>4. /\ token' \in Seq(Token) /\ DOMAIN token' = DOMAIN token \cup {n} /\ n \notin DOMAIN token
      /\ n \in Nat \ {0} /\ token'[n] = t /\ \A i \in DOMAIN token : token'[i] = token[i]
  BY <1>1, <1>2, <1>3
<1> HIDE DEF n
<1>5. Live(u)' = Live(u) \cup {n} /\ \A v \in Users \ {u} : Live(v)' = Live(v)
  BY <1>1, <1>4 DEF Live
<1>6. Grows
  BY <1>4 DEF Grows
<1> QED BY <1>1, <1>4, <1>5, <1>6 DEF n

LEMMA Revoked ==
  ASSUME token \in Seq(Token), NEW n \in DOMAIN token, Revoke(n)
  PROVE  token' \in Seq(Token) /\ Grows /\ \A v \in Users : Live(v)' = Live(v) \ {n}
<1> DEFINE t == [token[n] EXCEPT !.live = FALSE]
<1>1. t \in Token /\ t.user = token[n].user /\ t.live = FALSE
  <2>1. \A X : \A s \in Seq(X) : \A i \in DOMAIN s : s[i] \in X
    OBVIOUS
  <2>2. token[n] \in Token
    BY <2>1
  <2> QED BY <2>2 DEF Token
<1>2. token' = [token EXCEPT ![n] = t]
  BY DEF Revoke
<1> HIDE DEF t
<1>3. /\ token' \in Seq(Token) /\ DOMAIN token' = DOMAIN token
      /\ \A i \in DOMAIN token : token'[i] = IF i = n THEN t ELSE token[i]
  BY <1>1, <1>2, ExceptSeq
<1>4. \A v \in Users : Live(v)' = Live(v) \ {n}
  BY <1>1, <1>3 DEF Live
<1> QED BY <1>1, <1>3, <1>4 DEF Grows

LEMMA RevokedAll ==
  ASSUME token \in Seq(Token), NEW u \in Users, RevokeAll(u)
  PROVE  token' \in Seq(Token) /\ Grows /\ \A v \in Users \ {u} : Live(v)' = Live(v)
<1>1. \A X : \A s \in Seq(X) : DOMAIN s = 1..Len(s) /\ Len(s) \in Nat /\ \A i \in DOMAIN s : s[i] \in X
  OBVIOUS
<1>2. \A i \in DOMAIN token : token[i].user \in Users /\ token[i] \in Token
  <2>1. \A i \in DOMAIN token : token[i] \in Token
    BY <1>1
  <2>2. \A t \in Token : t.user \in Users
    BY DEF Token
  <2> QED BY <2>1, <2>2
<1>3. token' = [i \in DOMAIN token |-> IF token[i].user = u THEN [user |-> u, live |-> FALSE] ELSE token[i]]
  BY DEF RevokeAll
<1>4. DOMAIN token' = DOMAIN token /\ \A i \in DOMAIN token : token'[i] \in Token
  BY <1>2, <1>3 DEF Token
<1>5. token' \in Seq(Token)
  <2>1. DOMAIN token = 1..Len(token) /\ Len(token) \in Nat
    BY <1>1
  <2>2. token' \in [1..Len(token) -> Token]
    BY <1>3, <1>4, <2>1
  <2> QED BY <2>1, <2>2
<1>6. \A i \in DOMAIN token : token'[i].user = token[i].user
  BY <1>3
<1>7. \A v \in Users \ {u} : Live(v)' = Live(v)
  BY <1>3, <1>4 DEF Live
<1> QED BY <1>4, <1>5, <1>6, <1>7 DEF Grows

\* One client's request moves: what is owned stays so,
LEMMA OwnedKept ==
  ASSUME SessionTypes, Served, NEW k \in Slots, NEW r, NEW D, Moved(k, r, D),
         token' \in Seq(Token), Grows, NEW c \in Clients,
         stored' \in [Clients -> Nat], \A d \in Clients \ {c} : stored'[d] = stored[d],
         stored'[c] = stored[c] \/ stored'[c] = 0 \/ Owned(token', stored'[c], c),
         r.at \in Bearing => Owned(token', r.sum, r.doc)
  PROVE  SessionTypes'
<1>1. \A n, d : Owned(token, n, d) => Owned(token', n, d)
  BY DEF Owned, Grows
<1>2. \A d \in Clients : stored'[d] # 0 => Owned(token', stored'[d], d)
  BY <1>1 DEF SessionTypes
<1>3. ASSUME NEW j \in Slots, call'[j].at \in Bearing
      PROVE  Owned(token', call'[j].sum, call'[j].doc)
  <2>1. call'[j] = IF j = k THEN r ELSE call[j]
    BY MovedFlights
  <2> QED BY <1>1, <1>3, <2>1 DEF SessionTypes, Figure, Doc
<1>4. \A j \in Slots : call'[j].at \in Bearing => Owned(token, Figure(j), Doc(j))'
  BY <1>3 DEF Figure, Doc
<1> QED BY <1>2, <1>4 DEF SessionTypes

\* what it holds is what its request carries, or what it stores,
LEMMA HeldThen ==
  ASSUME Served, Alone, NEW k \in Slots, NEW r, NEW D, Moved(k, r, D),
         NEW c \in Clients, c \notin crossed', call[k].doc = c \/ r.doc = c
  PROVE  /\ r.doc = c => Held(c)' = IF r.at \in Bearing THEN {r.sum} ELSE {}
         /\ r.doc # c => Held(c)' = {stored'[c]} \ {0}
<1>1. c \in Docs \ crossed /\ c \in Docs \ crossed'
  BY Kinds DEF Moved
<1>2. Served' /\ Alone'
  BY MovedKeeps
<1>3. call'[k] = r /\ InFlight(c) \subseteq Slots
  BY FlightsOf
<1>4. CASE r.doc = c
  <2>1. InFlight(c)' = {k}
    <3>1. InFlight(c)' = InFlight(c) \cup {k}
      BY <1>4, FlightsOf
    <3> QED BY <1>1, <1>2, <3>1 DEF Alone
  <2>2. Held(c)' = {call'[j].sum : j \in {i \in {k} : call'[i].at \in Bearing}}
    BY <2>1 DEF Held, Figure
  <2> QED BY <1>3, <1>4, <2>2
<1>5. CASE r.doc # c
  <2>1. InFlight(c)' = {}
    <3>1. InFlight(c)' = InFlight(c) \ {k} /\ k \in InFlight(c)
      BY <1>5, FlightsOf DEF InFlight
    <3> QED BY <1>1, <3>1 DEF Alone
  <2>2. Held(c)' = {stored'[c]} \ {0}
    BY <2>1 DEF Held
  <2> QED BY <1>5, <2>2
<1> QED BY <1>4, <1>5

LEMMA HeldNow ==
  ASSUME Alone, NEW k \in Slots, NEW c \in Clients, c \notin crossed, call[k].doc = c
  PROVE  Held(c) = IF call[k].at \in Bearing THEN {Figure(k)} ELSE {}
<1>1. InFlight(c) = {k}
  BY Kinds DEF Alone, InFlight
<1> QED BY <1>1 DEF Held

LEMMA HeldQuiet ==
  ASSUME NEW c \in Clients, NEW D, Quiet(D), c \in D, stored'[c] = stored[c]
  PROVE  Held(c)' = Held(c) /\ \A k \in InFlight(c)' : k \in InFlight(c) /\ call'[k] = call[k]
<1>1. InFlight(c)' = InFlight(c) /\ \A k \in InFlight(c) : call'[k] = call[k]
  BY DEF Quiet
<1> QED BY <1>1 DEF Held, Figure

LEMMA UserQuiet ==
  ASSUME NEW v \in Users, SessionHeld(v), NEW D, Quiet(D), ClientsOf(v) \subseteq D,
         Live(v)' = Live(v), \A d \in ClientsOf(v) : stored'[d] = stored[d]
  PROVE  SessionHeld(v)'
<1>1. ClientsOf(v) \subseteq Clients
  BY DEF ClientsOf
<1>2. \A d \in ClientsOf(v) : /\ Held(d)' = Held(d)
                              /\ \A k \in InFlight(d)' : k \in InFlight(d) /\ call'[k] = call[k]
  BY <1>1, HeldQuiet
<1>3. UNION {Held(d) : d \in ClientsOf(v)}' = UNION {Held(d) : d \in ClientsOf(v)}
  BY <1>2 DEF ClientsOf
<1>4. \A d \in ClientsOf(v) : \A k \in InFlight(d)' : call'[k].at # "revoke_all"
  BY <1>2 DEF SessionHeld, At
<1>5. \A d, e \in ClientsOf(v) : d # e => Held(d)' \cap Held(e)' = {}
  BY <1>2 DEF SessionHeld
<1> QED BY <1>3, <1>4, <1>5 DEF SessionHeld, ClientsOf, At

(***************************************************************************)
(* and the tokens of its user: what it gains is new, what it loses it held *)
(***************************************************************************)
Exchanges(c, r, lost, gained) ==
  /\ Live(UserOf[c])' = (Live(UserOf[c]) \ lost) \cup gained
  /\ Held(c)' = (Held(c) \ lost) \cup gained
  /\ lost \subseteq Held(c) /\ gained \cap DOMAIN token = {}
  /\ r.at # "revoke_all"

LEMMA Exchanged ==
  ASSUME NEW C, NEW H, NEW G, NEW c \in C, NEW lost, NEW gained,
         \A d \in C : G[d] = IF d = c THEN (H[c] \ lost) \cup gained ELSE H[d],
         lost \subseteq H[c], \A d, e \in C : d # e => H[d] \cap H[e] = {}
  PROVE  UNION {G[d] : d \in C} = ((UNION {H[d] : d \in C}) \ lost) \cup gained
<1>1. ASSUME NEW x, x \in UNION {G[d] : d \in C}
      PROVE  x \in ((UNION {H[d] : d \in C}) \ lost) \cup gained
  <2>1. PICK d \in C : x \in G[d]
    BY <1>1
  <2>2. x \in gained \/ (x \in H[d] /\ x \notin lost)
    BY <2>1
  <2> QED BY <2>2
<1>2. ASSUME NEW x, x \in ((UNION {H[d] : d \in C}) \ lost) \cup gained
      PROVE  x \in UNION {G[d] : d \in C}
  <2>1. CASE x \in gained
    <3>1. x \in G[c]
      BY <2>1
    <3> QED BY <3>1
  <2>2. CASE x \notin gained
    <3>1. x \in UNION {H[d] : d \in C} /\ x \notin lost
      BY <1>2, <2>2
    <3>2. PICK d \in C : x \in H[d]
      BY <3>1
    <3>3. x \in G[d]
      BY <3>1, <3>2
    <3> QED BY <3>3
  <2> QED BY <2>1, <2>2
<1> QED BY <1>1, <1>2

LEMMA CalmBefore ==
  ASSUME NEW k, NEW r, NEW D, Moved(k, r, D), UNCHANGED changed, NEW u, Calm(u)'
  PROVE  Calm(u)
BY DEF Calm, Undisturbed, Moved, ClientsOf

LEMMA OwnerExchanges ==
  ASSUME Served, NEW k \in Slots, NEW r, NEW c \in Clients, Moved(k, r, {c}),
         \A d \in Clients \ {c} : stored'[d] = stored[d],
         SessionHeld(UserOf[c]), NEW lost, NEW gained, Exchanges(c, r, lost, gained)
  PROVE  SessionHeld(UserOf[c])'
<1> DEFINE u == UserOf[c]
           C == ClientsOf(u)
<1>1. c \in C /\ C \subseteq Clients
  BY DEF ClientsOf
<1>2. Quiet(C \ {c})
  <2>1. (C \ {c}) \cap {c} = {} /\ None \notin C \ {c}
    BY <1>1, Kinds
  <2> QED BY <2>1, MovedAway
<1>3. /\ Live(u) = UNION {Held(d) : d \in C}
      /\ \A d, e \in C : d # e => Held(d) \cap Held(e) = {}
      /\ \A d \in C : \A j \in InFlight(d) : ~At(j, "revoke_all")
  BY DEF SessionHeld
<1>4. /\ Live(u)' = (Live(u) \ lost) \cup gained /\ Held(c)' = (Held(c) \ lost) \cup gained
      /\ lost \subseteq Held(c) /\ gained \cap DOMAIN token = {} /\ r.at # "revoke_all"
  BY DEF Exchanges
<1>5. Live(u) \subseteq DOMAIN token
  BY DEF Live
<1> HIDE DEF u, C
<1>6. \A d \in C \ {c} : /\ Held(d)' = Held(d)
                         /\ \A j \in InFlight(d)' : j \in InFlight(d) /\ call'[j] = call[j]
  BY <1>1, <1>2, HeldQuiet
<1> DEFINE H == [d \in C |-> Held(d)]
           G == [d \in C |-> Held(d)']
<1>7. /\ \A d \in C : G[d] = IF d = c THEN (H[c] \ lost) \cup gained ELSE H[d]
      /\ \A d \in C : H[d] = Held(d) /\ G[d] = Held(d)'
  BY <1>1, <1>4, <1>6
<1>8. UNION {Held(d) : d \in C} = UNION {H[d] : d \in C} /\ UNION {Held(d)' : d \in C} = UNION {G[d] : d \in C}
  OBVIOUS
<1> HIDE DEF H, G
<1>9. Live(u)' = UNION {Held(d)' : d \in C}
  <2>1. lost \subseteq H[c] /\ \A d, e \in C : d # e => H[d] \cap H[e] = {}
    BY <1>1, <1>3, <1>4, <1>7
  <2>2. UNION {G[d] : d \in C} = ((UNION {H[d] : d \in C}) \ lost) \cup gained
    BY <1>1, <1>7, <2>1, Exchanged
  <2> QED BY <1>3, <1>4, <1>8, <2>2
<1>10. \A d, e \in C : d # e => Held(d)' \cap Held(e)' = {}
  <2>1. \A d \in C : H[d] \subseteq DOMAIN token
    <3>1. \A d \in C : Held(d) \subseteq DOMAIN token
      BY <1>3, <1>5
    <3> QED BY <1>7, <3>1
  <2>2. \A d, e \in C : d # e => H[d] \cap H[e] = {}
    BY <1>3, <1>7
  <2>3. \A d, e \in C : d # e => G[d] \cap G[e] = {}
    BY <1>4, <1>7, <2>1, <2>2
  <2> QED BY <1>7, <2>3
<1>11. ASSUME NEW d \in C, NEW j \in InFlight(d)'
       PROVE  call'[j].at # "revoke_all"
  <2>1. CASE d # c
    <3>1. j \in InFlight(d) /\ call'[j] = call[j]
      BY <1>6, <2>1
    <3> QED BY <1>3, <3>1 DEF At
  <2>2. CASE d = c
    <3>1. j \in Slots
      BY DEF InFlight
    <3>2. CASE j = k
      BY <1>4, <3>1, <3>2, FlightsOf
    <3>3. CASE j # k
      <4>1. call'[j] = call[j]
        BY <3>1, <3>3, FlightsOf
      <4>2. j \in InFlight(d)
        BY <3>1, <4>1 DEF InFlight
      <4> QED BY <1>3, <4>1, <4>2 DEF At
    <3> QED BY <3>2, <3>3
  <2> QED BY <2>1, <2>2
<1> QED BY <1>9, <1>10, <1>11 DEF SessionHeld, u, C, At, ClientsOf

LEMMA OneClient ==
  ASSUME SessionTypes, SessionsHeld, Served, NEW k \in Slots, NEW r, NEW c \in Clients,
         Moved(k, r, {c}), UNCHANGED changed, \A d \in Clients \ {c} : stored'[d] = stored[d],
         \A v \in Users \ {UserOf[c]} : Live(v)' = Live(v),
         Calm(UserOf[c]) /\ Calm(UserOf[c])' /\ SessionHeld(UserOf[c])
           => \E lost, gained : Exchanges(c, r, lost, gained)
  PROVE  SessionsHeld'
<1> SUFFICES ASSUME NEW v \in Users, Calm(v)' PROVE SessionHeld(v)'
  BY DEF SessionsHeld
<1>1. Calm(v) /\ SessionHeld(v)
  BY CalmBefore DEF SessionsHeld
<1>2. CASE v = UserOf[c]
  <2>1. PICK lost, gained : Exchanges(c, r, lost, gained)
    BY <1>1, <1>2
  <2> QED BY <1>1, <1>2, <2>1, OwnerExchanges
<1>3. CASE v # UserOf[c]
  <2>1. c \notin ClientsOf(v) /\ ClientsOf(v) \subseteq Clients
    BY <1>3 DEF ClientsOf
  <2>2. Quiet(ClientsOf(v))
    <3>1. ClientsOf(v) \cap {c} = {} /\ None \notin ClientsOf(v)
      BY <2>1, Kinds
    <3> QED BY <3>1, MovedAway
  <2>3. Live(v)' = Live(v) /\ \A d \in ClientsOf(v) : stored'[d] = stored[d]
    BY <1>3, <2>1
  <2> QED BY <1>1, <2>2, <2>3, UserQuiet
<1> QED BY <1>2, <1>3

-----------------------------------------------------------------------------
\* Where a request on a session is, and what it carries.
LEMMA SessionPlaces ==
  ASSUME Served, NEW k \in Slots, call[k].at \in Bearing \cup {"revoke_all", "issue", "clear_tokens"}
  PROVE  /\ Doc(k) \in Clients /\ call[k].doc = Doc(k) /\ Figure(k) \in Nat /\ call[k].sum = Figure(k)
         /\ UserOf[Doc(k)] \in Users /\ k \in InFlight(Doc(k))
<1>1. ForSessions(call[k])
  BY PlacesOf DEF Served
<1> QED BY <1>1, SessionsAssumption DEF ForSessions, Doc, Figure, InFlight

SessionsOK == SessionTypes /\ SessionsHeld

\* The owner is calm: nothing else is in flight on the client.
LEMMA CalmClient ==
  ASSUME NEW c \in Clients, NEW u, u = UserOf[c], Calm(u)
  PROVE  c \in ClientsOf(u) /\ c \notin crossed /\ c \notin cut
BY DEF Calm, ClientsOf, Undisturbed

\* A request arrives, carrying a token that the client stores, or a new one.
LEMMA SessionStarts ==
  ASSUME SessionsOK, Served, Alone, NEW k \in Slots, NEW c \in Clients, NEW place \in Bearing,
         NEW n \in Nat, Enter(k, place, c, n, <<>>), UNCHANGED <<stored, changed>>,
         token' \in Seq(Token), Grows, Owned(token', n, c),
         \A v \in Users \ {UserOf[c]} : Live(v)' = Live(v),
         \/ stored[c] = 0 /\ n \notin DOMAIN token /\ Live(UserOf[c])' = Live(UserOf[c]) \cup {n}
         \/ stored[c] = n /\ n # 0 /\ Live(UserOf[c])' = Live(UserOf[c])
  PROVE  SessionsOK' /\ Moving(k, Clients)
<1> DEFINE r == [at |-> place, doc |-> c, sum |-> n, todo |-> <<>>]
           u == UserOf[c]
<1>1. Placed(r) /\ r.doc = c /\ r.at = place /\ r.sum = n
  BY DEF Placed, Record, ForSessions
<1>2. Moved(k, r, {c}) /\ (InFlight(c) = {} \/ c \in crossed')
  <2>1. c \in {c}
    OBVIOUS
  <2> QED BY <1>1, <2>1, EnterMoves
<1> HIDE DEF r
<1>3. SessionTypes'
  BY <1>1, <1>2, OwnedKept DEF SessionsOK, SessionTypes
<1>4. ASSUME Calm(u)', Calm(u), SessionHeld(u)
      PROVE  \E lost, gained : Exchanges(c, r, lost, gained)
  <2>1. c \notin crossed'
    BY <1>4, CalmClient DEF Calm, ClientsOf, Undisturbed
  <2>2. Held(c)' = {n}
    BY <1>1, <1>2, <2>1, HeldThen
  <2>3. Held(c) = {stored[c]} \ {0}
    BY <1>2, <2>1 DEF Held
  <2>4. place # "revoke_all"
    BY DEF Bearing
  <2>5. CASE stored[c] = 0 /\ n \notin DOMAIN token /\ Live(u)' = Live(u) \cup {n}
    <3>1. Exchanges(c, r, {}, {n})
      BY <1>1, <2>2, <2>3, <2>4, <2>5 DEF Exchanges
    <3> QED BY <3>1
  <2>6. CASE stored[c] = n /\ n # 0 /\ Live(u)' = Live(u)
    <3>1. Exchanges(c, r, {}, {})
      BY <1>1, <2>2, <2>3, <2>4, <2>6 DEF Exchanges
    <3> QED BY <3>1
  <2> QED BY <2>5, <2>6
<1>5. SessionsHeld'
  BY <1>2, <1>4, OneClient DEF SessionsOK
<1>6. Moving(k, Clients)
  <2>1. Moving(k, {c})
    BY <1>2 DEF Moving
  <2> QED BY <2>1, MovingWider
<1> QED BY <1>3, <1>5, <1>6 DEF SessionsOK

LEMMA LoginKeeps ==
  ASSUME SessionsOK, Served, Alone, NEW k \in Slots, NEW c \in Clients, Login(k, c)
  PROVE  SessionsOK' /\ Moving(k, Clients)
<1> DEFINE n == Len(token) + 1
<1>1. token \in Seq(Token) /\ UserOf[c] \in Users
  BY SessionsAssumption DEF SessionsOK, SessionTypes
<1>2. stored[c] = 0 /\ Issue(UserOf[c]) /\ Enter(k, "save_tokens", c, n, <<>>)
      /\ UNCHANGED <<stored, changed>>
  BY DEF Login
<1>3. /\ token' \in Seq(Token) /\ Grows /\ n \in Nat /\ n \notin DOMAIN token
      /\ n \in DOMAIN token' /\ token'[n].user = UserOf[c]
      /\ Live(UserOf[c])' = Live(UserOf[c]) \cup {n}
      /\ \A v \in Users \ {UserOf[c]} : Live(v)' = Live(v)
  BY <1>1, <1>2, Issued
<1>4. PICK m \in Nat : m = n
  BY <1>3
<1>5. Owned(token', m, c) /\ "save_tokens" \in Bearing
  BY <1>3, <1>4 DEF Owned, Bearing
<1>6. /\ Enter(k, "save_tokens", c, m, <<>>) /\ stored[c] = 0 /\ m \notin DOMAIN token
      /\ Live(UserOf[c])' = Live(UserOf[c]) \cup {m}
  BY <1>2, <1>3, <1>4
<1> HIDE DEF n
<1> QED BY <1>2, <1>3, <1>5, <1>6, SessionStarts

\* The tokens as they were.
LEMMA Unissued ==
  ASSUME SessionsOK, UNCHANGED token
  PROVE  /\ token' \in Seq(Token) /\ Grows /\ \A v : Live(v)' = Live(v)
         /\ \A n, c : Owned(token, n, c) => Owned(token', n, c)
BY DEF SessionsOK, SessionTypes, Grows, Live, Owned

LEMMA PresentKeeps ==
  ASSUME SessionsOK, Served, Alone, NEW k \in Slots, NEW c \in Clients, Refresh(k, c) \/ Logout(k, c)
  PROVE  SessionsOK' /\ Moving(k, Clients)
<1>1. PICK n \in Nat : n = stored[c]
  BY DEF SessionsOK, SessionTypes
<1>2. PICK place \in Bearing : Enter(k, place, c, n, <<>>)
  BY <1>1 DEF Refresh, Logout, Bearing
<1>3. n # 0 /\ UNCHANGED sessionVars
  BY <1>1 DEF Refresh, Logout
<1>4. Owned(token, n, c)
  BY <1>1, <1>3 DEF SessionsOK, SessionTypes
<1>5. token' = token /\ UNCHANGED <<stored, changed>>
  BY <1>3 DEF sessionVars
<1>6. token' \in Seq(Token) /\ Grows /\ (\A v : Live(v)' = Live(v)) /\ Owned(token', n, c)
  BY <1>4, <1>5, Unissued
<1> QED BY <1>1, <1>2, <1>3, <1>5, <1>6, SessionStarts

(***************************************************************************)
(* A request goes on, or is answered.                                      *)
(***************************************************************************)
LEMMA SessionGoes ==
  ASSUME SessionsOK, Served, Alone, NEW k \in Slots, NEW c \in Clients, call[k].doc = c,
         NEW r, Moved(k, r, {c}), UNCHANGED changed, stored' \in [Clients -> Nat],
         \A d \in Clients \ {c} : stored'[d] = stored[d],
         stored'[c] = stored[c] \/ stored'[c] = 0 \/ Owned(token', stored'[c], c),
         token' \in Seq(Token), Grows, r.at \in Bearing => Owned(token', r.sum, r.doc),
         \A v \in Users \ {UserOf[c]} : Live(v)' = Live(v),
         Calm(UserOf[c]) /\ Calm(UserOf[c])' /\ SessionHeld(UserOf[c])
           => \E lost, gained : Exchanges(c, r, lost, gained)
  PROVE  SessionsOK' /\ Moving(k, Clients)
<1>1. SessionTypes'
  BY OwnedKept DEF SessionsOK
<1>2. SessionsHeld'
  BY OneClient DEF SessionsOK
<1>3. Moving(k, {c})
  BY DEF Moving
<1>4. Moving(k, Clients)
  BY <1>3, MovingWider
<1> QED BY <1>1, <1>2, <1>4 DEF SessionsOK

\* What the client holds before and after.
LEMMA HeldBoth ==
  ASSUME Served, Alone, NEW k \in Slots, NEW c \in Clients, call[k].doc = c, NEW r, Moved(k, r, {c}),
         Calm(UserOf[c])
  PROVE  /\ Held(c) = IF call[k].at \in Bearing THEN {Figure(k)} ELSE {}
         /\ Calm(UserOf[c])' /\ r.doc = c => Held(c)' = IF r.at \in Bearing THEN {r.sum} ELSE {}
         /\ Calm(UserOf[c])' /\ r.doc # c => Held(c)' = {stored'[c]} \ {0}
<1>1. c \notin crossed
  BY CalmClient
<1>2. Calm(UserOf[c])' => c \notin crossed'
  BY DEF Calm, ClientsOf, Undisturbed
<1> QED BY <1>1, <1>2, HeldNow, HeldThen

OnSession == Bearing \cup {"revoke_all", "issue", "clear_tokens"}

LEMMA SessionMoves ==
  ASSUME Served, NEW k \in Slots, NEW c \in Clients, call[k].doc = c, call[k].sum \in Nat,
         NEW place \in OnSession, Goto(k, place)
  PROVE  \E r : Moved(k, r, {c}) /\ r.at = place /\ r.doc = c /\ r.sum = call[k].sum
<1> DEFINE r == [at |-> place, doc |-> call[k].doc, sum |-> call[k].sum, todo |-> call[k].todo]
<1>1. Placed(r) /\ r.at = place /\ r.doc = c /\ r.sum = call[k].sum
  BY DEF Placed, Record, ForSessions, OnSession
<1>2. Moved(k, r, {c})
  <2>1. call[k].doc \in {c}
    OBVIOUS
  <2> QED BY <1>1, <2>1, GotoMoves
<1> HIDE DEF r
<1> QED BY <1>1, <1>2

LEMMA SessionMovesWith ==
  ASSUME Served, NEW k \in Slots, NEW c \in Clients, call[k].doc = c, NEW n \in Nat,
         NEW place \in OnSession, GotoWith(k, place, n)
  PROVE  \E r : Moved(k, r, {c}) /\ r.at = place /\ r.doc = c /\ r.sum = n
<1> DEFINE r == [at |-> place, doc |-> call[k].doc, sum |-> n, todo |-> call[k].todo]
<1>1. Placed(r) /\ r.at = place /\ r.doc = c /\ r.sum = n
  BY DEF Placed, Record, ForSessions, OnSession
<1>2. Moved(k, r, {c})
  <2>1. call[k].doc \in {c}
    OBVIOUS
  <2> QED BY <1>1, <2>1, GotoWithMoves
<1> HIDE DEF r
<1> QED BY <1>1, <1>2

LEMMA SessionLeaves ==
  ASSUME Served, NEW k \in Slots, NEW c \in Clients, call[k].doc = c, Leave(k) \/ Fail(k)
  PROVE  /\ Moved(k, Free, {c}) /\ Free.doc # c /\ Free.at \notin Bearing /\ Free.at # "revoke_all"
         /\ Fail(k) => c \in cut'
<1>1. call[k].doc \in {c}
  OBVIOUS
<1>2. Free.doc # c /\ Free.at \notin Bearing /\ Free.at # "revoke_all"
  BY FreePlaced, Kinds DEF Bearing
<1> QED BY <1>1, <1>2, LeaveMoves, FailMoves

LEMMA FindTokenKeeps ==
  ASSUME SessionsOK, Served, Alone, NEW k \in Slots, FindToken(k)
  PROVE  SessionsOK' /\ Moving(k, Clients)
<1>1. At(k, "find_token") /\ UNCHANGED sessionVars /\ call[k].at \in Bearing
  BY DEF FindToken, At, Bearing
<1>2. PICK c \in Clients : c = Doc(k)
  BY <1>1, SessionPlaces
<1>3. /\ call[k].doc = c /\ Figure(k) \in Nat /\ call[k].sum = Figure(k) /\ UserOf[c] \in Users
      /\ Owned(token, Figure(k), c)
  BY <1>1, <1>2, SessionPlaces DEF SessionsOK, SessionTypes
<1>4. token' = token /\ stored' = stored /\ changed' = changed
  BY <1>1 DEF sessionVars
<1>5. token' \in Seq(Token) /\ Grows /\ (\A v : Live(v)' = Live(v)) /\ Owned(token', Figure(k), c)
  BY <1>3, <1>4, Unissued
<1>6. PICK place \in {"rotate", "revoke_all"} :
        Goto(k, place) /\ (place = "revoke_all" <=> ~token[Figure(k)].live)
  BY <1>3 DEF FindToken, SessionsOK, SessionTypes, Token, Owned
<1>7. PICK r : Moved(k, r, {c}) /\ r.at = place /\ r.doc = c /\ r.sum = Figure(k)
  <2>1. place \in OnSession
    BY DEF OnSession, Bearing
  <2> QED BY <1>3, <1>6, <2>1, SessionMoves
<1>8. ASSUME Calm(UserOf[c]), Calm(UserOf[c])', SessionHeld(UserOf[c])
      PROVE  \E lost, gained : Exchanges(c, r, lost, gained)
  <2>1. Held(c) = {Figure(k)}
    BY <1>1, <1>3, <1>7, <1>8, HeldBoth
  <2>2. Figure(k) \in Live(UserOf[c])
    BY <1>8, <2>1 DEF SessionHeld, ClientsOf
  <2>3. place = "rotate"
    BY <1>6, <2>2 DEF Live
  <2>4. Held(c)' = {Figure(k)}
    BY <1>3, <1>7, <1>8, <2>3, HeldBoth DEF Bearing
  <2>5. Exchanges(c, r, {}, {})
    BY <1>5, <1>7, <2>1, <2>3, <2>4 DEF Exchanges
  <2> QED BY <2>5
<1>9. stored' \in [Clients -> Nat] /\ \A d \in Clients : stored'[d] = stored[d]
  BY <1>4 DEF SessionsOK, SessionTypes
<1> QED BY <1>3, <1>4, <1>5, <1>7, <1>8, <1>9, SessionGoes

\* A calm client never presents a token that was used.
LEMMA RevokeUserKeeps ==
  ASSUME SessionsOK, Served, Alone, NEW k \in Slots, RevokeUser(k)
  PROVE  SessionsOK' /\ Moving(k, Clients)
<1>1. At(k, "revoke_all") /\ UNCHANGED <<stored, changed>> /\ Goto(k, "clear_tokens")
  BY DEF RevokeUser
<1>2. PICK c \in Clients : c = Doc(k)
  BY <1>1, SessionPlaces DEF At
<1>3. call[k].doc = c /\ call[k].sum \in Nat /\ UserOf[c] \in Users /\ k \in InFlight(c)
  BY <1>1, <1>2, SessionPlaces DEF At
<1>4. token' \in Seq(Token) /\ Grows /\ \A v \in Users \ {UserOf[c]} : Live(v)' = Live(v)
  BY <1>2, <1>3, RevokedAll DEF RevokeUser, User, SessionsOK, SessionTypes
<1>5. PICK r : Moved(k, r, {c}) /\ r.at = "clear_tokens"
  <2>1. PICK place : place = "clear_tokens"
    OBVIOUS
  <2>2. place \in OnSession /\ Goto(k, place)
    BY <1>1, <2>1 DEF OnSession
  <2>3. PICK r : Moved(k, r, {c}) /\ r.at = place
    BY <1>3, <2>2, SessionMoves
  <2> QED BY <2>1, <2>3
<1>6. ~(Calm(UserOf[c]) /\ SessionHeld(UserOf[c]))
  BY <1>1, <1>3 DEF SessionHeld, ClientsOf
<1>7. r.at \notin Bearing
  BY <1>5 DEF Bearing
<1>8. stored' \in [Clients -> Nat] /\ \A d \in Clients : stored'[d] = stored[d]
  BY <1>1 DEF SessionsOK, SessionTypes
<1> QED BY <1>1, <1>3, <1>4, <1>5, <1>6, <1>7, <1>8, SessionGoes

LEMMA RevokeHeldKeeps ==
  ASSUME SessionsOK, Served, Alone, NEW k \in Slots, Rotate(k) \/ RevokeOne(k)
  PROVE  SessionsOK' /\ Moving(k, Clients)
<1>1. /\ call[k].at \in {"rotate", "logout"} /\ UNCHANGED <<stored, changed>> /\ Revoke(Figure(k))
  BY DEF Rotate, RevokeOne, At
<1>2. PICK place \in {"issue", "clear_tokens"} : Goto(k, place)
  BY DEF Rotate, RevokeOne
<1>3. call[k].at \in Bearing /\ place \notin Bearing /\ place # "revoke_all"
  BY <1>1 DEF Bearing
<1>4. PICK c \in Clients : c = Doc(k)
  BY <1>3, SessionPlaces
<1>5. /\ call[k].doc = c /\ call[k].sum \in Nat /\ UserOf[c] \in Users /\ Figure(k) \in DOMAIN token
  BY <1>3, <1>4, SessionPlaces DEF SessionsOK, SessionTypes, Owned
<1>6. PICK n \in DOMAIN token : n = Figure(k)
  BY <1>5
<1>7. token' \in Seq(Token) /\ Grows /\ \A v \in Users : Live(v)' = Live(v) \ {n}
  BY <1>1, <1>6, Revoked DEF SessionsOK, SessionTypes
<1>8. \A v \in Users \ {UserOf[c]} : Live(v)' = Live(v)
  <2>1. token[n].user = UserOf[c]
    BY <1>3, <1>4, <1>6 DEF SessionsOK, SessionTypes, Owned
  <2> QED BY <1>7, <2>1 DEF Live
<1>9. PICK r : Moved(k, r, {c}) /\ r.at = place /\ r.doc = c
  <2>1. place \in OnSession
    BY <1>2 DEF OnSession
  <2> QED BY <1>2, <1>5, <2>1, SessionMoves
<1>10. ASSUME Calm(UserOf[c]), Calm(UserOf[c])', SessionHeld(UserOf[c])
       PROVE  \E lost, gained : Exchanges(c, r, lost, gained)
  <2>1. Held(c) = {n}
    BY <1>3, <1>5, <1>6, <1>9, <1>10, HeldBoth
  <2>2. Held(c)' = {}
    BY <1>3, <1>5, <1>9, <1>10, HeldBoth
  <2>3. Exchanges(c, r, {n}, {})
    BY <1>3, <1>5, <1>7, <1>9, <2>1, <2>2 DEF Exchanges
  <2> QED BY <2>3
<1>11. stored' \in [Clients -> Nat] /\ \A d \in Clients : stored'[d] = stored[d]
  BY <1>1 DEF SessionsOK, SessionTypes
<1> QED BY <1>1, <1>3, <1>5, <1>7, <1>8, <1>9, <1>10, <1>11, SessionGoes

LEMMA IssueTokenKeeps ==
  ASSUME SessionsOK, Served, Alone, NEW k \in Slots, IssueToken(k)
  PROVE  SessionsOK' /\ Moving(k, Clients)
<1> DEFINE n == Len(token) + 1
<1>1. call[k].at = "issue" /\ UNCHANGED <<stored, changed>>
  BY DEF IssueToken, At
<1>2. PICK c \in Clients : c = Doc(k)
  BY <1>1, SessionPlaces
<1>3. /\ call[k].doc = c /\ call[k].sum \in Nat /\ UserOf[c] \in Users /\ User(k) = UserOf[c]
      /\ token \in Seq(Token) /\ call[k].at \notin Bearing
  BY <1>1, <1>2, SessionPlaces DEF SessionsOK, SessionTypes, User, Bearing
<1>7. call[k].doc = c /\ call[k].sum \in Nat
  BY <1>3
<1>4. stored' \in [Clients -> Nat] /\ \A d \in Clients : stored'[d] = stored[d]
  BY <1>1 DEF SessionsOK, SessionTypes
<1>5. CASE Issue(UserOf[c]) /\ GotoWith(k, "save_tokens", n)
  <2>1. /\ token' \in Seq(Token) /\ Grows /\ n \in Nat /\ n \notin DOMAIN token
        /\ n \in DOMAIN token' /\ token'[n].user = UserOf[c]
        /\ Live(UserOf[c])' = Live(UserOf[c]) \cup {n}
        /\ \A v \in Users \ {UserOf[c]} : Live(v)' = Live(v)
    BY <1>3, <1>5, Issued
  <2>2. PICK m \in Nat : m = n
    BY <2>1
  <2>3. /\ GotoWith(k, "save_tokens", m) /\ m \notin DOMAIN token /\ Owned(token', m, c)
        /\ Live(UserOf[c])' = Live(UserOf[c]) \cup {m}
    BY <1>5, <2>1, <2>2 DEF Owned
  <2> HIDE DEF n
  <2>4. PICK r : Moved(k, r, {c}) /\ r.at = "save_tokens" /\ r.doc = c /\ r.sum = m
    <3>1. PICK place : place = "save_tokens"
      OBVIOUS
    <3>2. place \in OnSession /\ GotoWith(k, place, m)
      BY <2>3, <3>1 DEF OnSession, Bearing
    <3>3. PICK r : Moved(k, r, {c}) /\ r.at = place /\ r.doc = c /\ r.sum = m
      BY <1>7, <2>2, <3>2, SessionMovesWith
    <3> QED BY <3>1, <3>3
  <2>5. ASSUME Calm(UserOf[c]), Calm(UserOf[c])', SessionHeld(UserOf[c])
        PROVE  \E lost, gained : Exchanges(c, r, lost, gained)
    <3>1. Held(c) = {}
      BY <1>3, <2>4, <2>5, HeldBoth
    <3>2. Held(c)' = {m}
      BY <1>3, <2>4, <2>5, HeldBoth DEF Bearing
    <3>3. Exchanges(c, r, {}, {m})
      BY <2>3, <2>4, <3>1, <3>2 DEF Exchanges
    <3> QED BY <3>3
  <2> QED BY <1>1, <1>3, <1>4, <2>1, <2>3, <2>4, <2>5, SessionGoes
<1>6. CASE UNCHANGED token /\ Goto(k, "clear_tokens")
  <2>1. token' \in Seq(Token) /\ Grows /\ \A v : Live(v)' = Live(v)
    BY <1>6, Unissued
  <2>2. PICK r : Moved(k, r, {c}) /\ r.at = "clear_tokens" /\ r.doc = c
    <3>1. PICK place : place = "clear_tokens"
      OBVIOUS
    <3>2. place \in OnSession /\ Goto(k, place)
      BY <1>6, <3>1 DEF OnSession
    <3>3. PICK r : Moved(k, r, {c}) /\ r.at = place /\ r.doc = c /\ r.sum = call[k].sum
      BY <1>7, <3>2, SessionMoves
    <3> QED BY <3>1, <3>3
  <2>3. r.at \notin Bearing
    BY <2>2 DEF Bearing
  <2>4. ASSUME Calm(UserOf[c]), Calm(UserOf[c])', SessionHeld(UserOf[c])
        PROVE  \E lost, gained : Exchanges(c, r, lost, gained)
    <3>1. Held(c) = {} /\ Held(c)' = {}
      BY <1>3, <2>2, <2>3, <2>4, HeldBoth
    <3>2. Exchanges(c, r, {}, {})
      BY <2>1, <2>2, <3>1 DEF Exchanges
    <3> QED BY <3>2
  <2> QED BY <1>1, <1>3, <1>4, <2>1, <2>2, <2>3, <2>4, SessionGoes
<1> QED BY <1>3, <1>5, <1>6 DEF IssueToken

LEMMA StoreKeeps ==
  ASSUME SessionsOK, Served, Alone, NEW k \in Slots, SaveTokens(k) \/ ClearTokens(k) \/ AnswerLost(k)
  PROVE  SessionsOK' /\ Moving(k, Clients)
<1>1. /\ call[k].at \in OnSession /\ UNCHANGED <<token, changed>> /\ (Leave(k) \/ Fail(k))
      /\ SaveTokens(k) => Leave(k) /\ call[k].at = "save_tokens" /\ call[k].at \in Bearing
      /\ ClearTokens(k) => Leave(k) /\ call[k].at = "clear_tokens" /\ call[k].at \notin Bearing
      /\ AnswerLost(k) => Fail(k)
  BY DEF SaveTokens, ClearTokens, AnswerLost, At, OnSession, Bearing
<1>2. PICK c \in Clients : c = Doc(k)
  BY <1>1, SessionPlaces DEF OnSession
<1>3. PICK n \in Nat : n = Figure(k)
  BY <1>1, SessionPlaces DEF OnSession
<1>4. call[k].doc = c /\ UserOf[c] \in Users
  BY <1>1, <1>2, SessionPlaces DEF OnSession
<1>5. call[k].at \in Bearing => Owned(token, n, c) /\ n # 0
  <2>1. call[k].at \in Bearing => Owned(token, n, c)
    BY <1>2, <1>3 DEF SessionsOK, SessionTypes
  <2>2. \A X : \A s \in Seq(X) : 0 \notin DOMAIN s
    OBVIOUS
  <2>3. 0 \notin DOMAIN token
    BY <2>2 DEF SessionsOK, SessionTypes
  <2> QED BY <2>1, <2>3 DEF Owned
<1>6. token' \in Seq(Token) /\ Grows /\ (\A v : Live(v)' = Live(v))
      /\ (Owned(token, n, c) => Owned(token', n, c))
  BY <1>1, Unissued
<1>7. /\ stored' \in [Clients -> Nat] /\ \A d \in Clients \ {c} : stored'[d] = stored[d]
      /\ SaveTokens(k) => stored'[c] = n
      /\ ~SaveTokens(k) => stored'[c] = 0
  BY <1>2, <1>3 DEF SaveTokens, ClearTokens, AnswerLost, SessionsOK, SessionTypes
<1>8. /\ Moved(k, Free, {c}) /\ Free.doc # c /\ Free.at \notin Bearing /\ Free.at # "revoke_all"
      /\ Fail(k) => c \in cut'
  BY <1>1, <1>4, SessionLeaves
<1>9. ASSUME Calm(UserOf[c]), Calm(UserOf[c])', SessionHeld(UserOf[c])
      PROVE  \E lost, gained : Exchanges(c, Free, lost, gained)
  <2>1. ~AnswerLost(k)
    BY <1>1, <1>8, <1>9 DEF Calm, ClientsOf, Undisturbed
  <2>2. /\ Held(c) = IF call[k].at \in Bearing THEN {Figure(k)} ELSE {}
        /\ Held(c)' = {stored'[c]} \ {0}
    BY <1>4, <1>8, <1>9, HeldBoth
  <2>3. Held(c)' = Held(c)
    <3>1. CASE SaveTokens(k)
      BY <1>1, <1>3, <1>5, <1>7, <2>2, <3>1
    <3>2. CASE ClearTokens(k) /\ ~SaveTokens(k)
      BY <1>1, <1>7, <2>2, <3>2
    <3> QED BY <2>1, <3>1, <3>2
  <2>4. Exchanges(c, Free, {}, {})
    BY <1>6, <1>8, <2>3 DEF Exchanges
  <2> QED BY <2>4
<1>10. stored'[c] = 0 \/ Owned(token', stored'[c], c)
  BY <1>1, <1>5, <1>6, <1>7
<1>11. UNCHANGED changed
  BY <1>1
<1>12. /\ token' \in Seq(Token) /\ Grows /\ \A v \in Users \ {UserOf[c]} : Live(v)' = Live(v)
       /\ stored' \in [Clients -> Nat] /\ \A d \in Clients \ {c} : stored'[d] = stored[d]
       /\ Free.at \in Bearing => Owned(token', Free.sum, Free.doc)
  BY <1>6, <1>7, <1>8
<1> QED BY <1>4, <1>8, <1>9, <1>10, <1>11, <1>12, SessionGoes

\* Requests served by one statement: of users who did not change their password
\* no token is touched.
LEMMA AtOnceKeeps ==
  ASSUME SessionsOK, Served, NEW k \in Slots, NEW c \in Clients, AtOnce(k, c), UNCHANGED stored,
         token' \in Seq(Token), Grows, changed \subseteq changed',
         \A v \in Users \ changed' : Live(v)' = Live(v)
  PROVE  SessionsOK' /\ Moving(k, Clients)
<1>1. Moving(k, Clients) /\ call' = call /\ cut' = cut /\ crossed \subseteq crossed'
  BY AtOnceMoving DEF AtOnce
<1>2. SessionTypes'
  <2>1. \A n, d : Owned(token, n, d) => Owned(token', n, d)
    BY DEF Owned, Grows
  <2> QED BY <1>1, <2>1 DEF SessionsOK, SessionTypes, Figure, Doc
<1>3. ASSUME NEW v \in Users, Calm(v)'
      PROVE  SessionHeld(v)'
  <2>1. Calm(v) /\ Live(v)' = Live(v)
    BY <1>1, <1>3 DEF Calm, ClientsOf, Undisturbed
  <2>2. SessionHeld(v)
    BY <2>1 DEF SessionsOK, SessionsHeld
  <2>3. \A d : Held(d)' = Held(d) /\ InFlight(d)' = InFlight(d)
    BY <1>1 DEF Held, InFlight, Figure
  <2>4. ClientsOf(v)' = ClientsOf(v) /\ \A j : At(j, "revoke_all")' <=> At(j, "revoke_all")
    BY <1>1 DEF ClientsOf, At
  <2> QED BY <2>1, <2>2, <2>3, <2>4 DEF SessionHeld
<1> QED BY <1>1, <1>2, <1>3 DEF SessionsOK, SessionsHeld

LEMMA ChangePasswordKeeps ==
  ASSUME SessionsOK, Served, NEW k \in Slots, NEW c \in Clients, ChangePassword(k, c)
  PROVE  SessionsOK' /\ Moving(k, Clients)
<1>1. UserOf[c] \in Users
  BY SessionsAssumption
<1>2. AtOnce(k, c) /\ RevokeAll(UserOf[c]) /\ UNCHANGED stored /\ changed' = changed \cup {UserOf[c]}
  BY DEF ChangePassword
<1>3. token' \in Seq(Token) /\ Grows /\ \A v \in Users \ {UserOf[c]} : Live(v)' = Live(v)
  BY <1>1, <1>2, RevokedAll DEF SessionsOK, SessionTypes
<1> QED BY <1>2, <1>3, AtOnceKeeps

LEMMA SetActiveKeeps ==
  ASSUME SessionsOK, Served, NEW k \in Slots, NEW c \in Clients, SetActive(k, c)
  PROVE  SessionsOK' /\ Moving(k, Clients)
<1>1. AtOnce(k, c) /\ UNCHANGED stored /\ UNCHANGED token /\ changed' = changed
  BY DEF SetActive
<1>2. token' \in Seq(Token) /\ Grows /\ \A v : Live(v)' = Live(v)
  BY <1>1, Unissued
<1> QED BY <1>1, <1>2, AtOnceKeeps

LEMMA SessionsStepKeeps ==
  ASSUME SessionsOK, Served, Alone, NEW k \in Slots, SessionsStep(k)
  PROVE  SessionsOK' /\ Moving(k, Clients)
<1>1. CASE \E c \in Clients : Login(k, c) \/ Refresh(k, c) \/ Logout(k, c) \/ ChangePassword(k, c)
                                \/ SetActive(k, c)
  <2>1. PICK c \in Clients : Login(k, c) \/ Refresh(k, c) \/ Logout(k, c) \/ ChangePassword(k, c)
                               \/ SetActive(k, c)
    BY <1>1
  <2>2. CASE Login(k, c)
    BY <2>2, LoginKeeps
  <2>3. CASE Refresh(k, c) \/ Logout(k, c)
    BY <2>3, PresentKeeps
  <2>4. CASE ChangePassword(k, c)
    BY <2>4, ChangePasswordKeeps
  <2>5. CASE SetActive(k, c)
    BY <2>5, SetActiveKeeps
  <2> QED BY <2>1, <2>2, <2>3, <2>4, <2>5
<1>2. CASE FindToken(k)
  BY <1>2, FindTokenKeeps
<1>3. CASE RevokeUser(k)
  BY <1>3, RevokeUserKeeps
<1>4. CASE Rotate(k) \/ RevokeOne(k)
  BY <1>4, RevokeHeldKeeps
<1>5. CASE IssueToken(k)
  BY <1>5, IssueTokenKeeps
<1>6. CASE SaveTokens(k) \/ ClearTokens(k) \/ AnswerLost(k)
  BY <1>6, StoreKeeps
<1> QED BY <1>1, <1>2, <1>3, <1>4, <1>5, <1>6 DEF SessionsStep

LEMMA SessionsStart == CallsInit /\ SessionsInit => SessionsOK
<1> SUFFICES ASSUME CallsInit, SessionsInit PROVE SessionsOK
  OBVIOUS
<1>1. /\ \A d \in Docs : InFlight(d) = {}
      /\ \A k \in Slots : call[k].at \notin Bearing
  BY Kinds DEF CallsInit, InFlight, Free, Bearing
<1>2. token = <<>> /\ stored = [c \in Clients |-> 0]
  BY DEF SessionsInit
<1>3. SessionTypes
  BY <1>1, <1>2 DEF SessionTypes
<1>4. \A c \in Clients : Held(c) = {} /\ InFlight(c) = {}
  BY <1>1, <1>2, Kinds DEF Held
<1>5. \A u : Live(u) = {}
  BY <1>2 DEF Live
<1>6. SessionsHeld
  <2> SUFFICES ASSUME NEW u \in Users PROVE SessionHeld(u)
    BY DEF SessionsHeld
  <2>1. ClientsOf(u) \subseteq Clients
    BY DEF ClientsOf
  <2>2. UNION {Held(c) : c \in ClientsOf(u)} = {}
    BY <1>4, <2>1
  <2> QED BY <1>4, <1>5, <2>1, <2>2 DEF SessionHeld
<1> QED BY <1>3, <1>6 DEF SessionsOK

\* Other steps leave the sessions.
LEMMA SessionsAside ==
  ASSUME SessionsOK, Served', UNCHANGED <<token, stored, changed>>, Quiet(Clients)
  PROVE  SessionsOK'
<1>1. \A n, c : Owned(token, n, c) => Owned(token', n, c)
  BY Unissued
<1>2. ASSUME NEW k \in Slots, call'[k].at \in Bearing
      PROVE  Owned(token', call'[k].sum, call'[k].doc)
  <2>1. call'[k].doc \in Clients
    <3>1. Placed(call'[k])
      BY DEF Served
    <3>2. ForSessions(call'[k])
      BY <1>2, <3>1, PlacesOf
    <3> QED BY <3>2 DEF ForSessions
  <2>2. call'[k] = call[k]
    BY <2>1 DEF Quiet, InFlight
  <2> QED BY <1>1, <1>2, <2>2 DEF SessionsOK, SessionTypes, Figure, Doc
<1>3. SessionTypes'
  BY <1>1, <1>2 DEF SessionsOK, SessionTypes, Figure, Doc
<1>4. ASSUME NEW v \in Users, Calm(v)'
      PROVE  SessionHeld(v)'
  <2>1. ClientsOf(v) \subseteq Clients /\ Quiet(ClientsOf(v))
    BY DEF ClientsOf, Quiet
  <2>2. Calm(v)
    BY <1>4, <2>1 DEF Calm, Quiet, Undisturbed, ClientsOf
  <2>3. SessionHeld(v) /\ Live(v)' = Live(v) /\ \A d \in ClientsOf(v) : stored'[d] = stored[d]
    BY <2>2 DEF SessionsOK, SessionsHeld, Live
  <2> QED BY <2>1, <2>3, UserQuiet
<1> QED BY <1>3, <1>4 DEF SessionsOK, SessionsHeld

LEMMA ExpireKeeps ==
  ASSUME SessionsOK, Served, NEW c \in Clients, Expire(c)
  PROVE  SessionsOK'
<1>1. call' = call /\ crossed' = crossed /\ cut' = cut /\ UNCHANGED <<token, stored, changed>>
  BY DEF Expire, callVars
<1>2. Quiet(Clients) /\ Served'
  BY <1>1 DEF Quiet, InFlight, Served
<1> QED BY <1>1, <1>2, SessionsAside

\* A client whose exchange a restart stopped is cut.
LEMMA SessionsCrash ==
  ASSUME SessionsOK, Served, Crash, UNCHANGED sessionVars
  PROVE  SessionsOK'
<1>1. /\ crossed' = crossed /\ cut \subseteq cut'
      /\ \A c \in Clients : InFlight(c)' = {} /\ (c \in cut' <=> c \in cut \/ InFlight(c) # {})
  BY CrashClears, Kinds
<1>2. UNCHANGED token /\ stored' = stored /\ changed' = changed
  BY DEF sessionVars
<1>3. \A k \in Slots : call'[k].at \notin Bearing
  BY DEF Crash, Free, Bearing
<1>4. SessionTypes'
  BY <1>2, <1>3 DEF SessionsOK, SessionTypes
<1>5. ASSUME NEW v \in Users, Calm(v)'
      PROVE  SessionHeld(v)'
  <2>1. ClientsOf(v) \subseteq Clients /\ Calm(v)
    BY <1>1, <1>2, <1>5 DEF Calm, Undisturbed, ClientsOf
  <2>2. \A c \in ClientsOf(v) : InFlight(c) = {} /\ InFlight(c)' = {}
    BY <1>1, <1>5, <2>1 DEF Calm, Undisturbed, ClientsOf
  <2>3. \A c \in ClientsOf(v) : Held(c)' = Held(c)
    BY <1>2, <2>2 DEF Held
  <2>4. SessionHeld(v) /\ Live(v)' = Live(v)
    BY <1>2, <2>1 DEF SessionsOK, SessionsHeld, Live
  <2>5. ClientsOf(v)' = ClientsOf(v)
    BY DEF ClientsOf
  <2> QED BY <2>2, <2>3, <2>4, <2>5 DEF SessionHeld
<1> QED BY <1>4, <1>5 DEF SessionsOK, SessionsHeld

LEMMA SessionsAreKept == SessionsOK => SessionKept
<1> SUFFICES ASSUME SessionsOK, NEW u \in Users \ changed,
                    \A c \in ClientsOf(u) : Undisturbed(c) /\ InFlight(c) = {}
             PROVE  /\ Live(u) = {stored[c] : c \in ClientsOf(u)} \ {0}
                    /\ \A c, d \in ClientsOf(u) : c # d /\ stored[c] # 0 => stored[c] # stored[d]
  BY DEF SessionKept
<1>1. SessionHeld(u)
  BY DEF SessionsOK, SessionsHeld, Calm
<1>2. \A c \in ClientsOf(u) : Held(c) = {stored[c]} \ {0}
  BY DEF Held
<1> QED BY <1>1, <1>2 DEF SessionHeld

-----------------------------------------------------------------------------
(***************************************************************************)
(* Reminders.                                                              *)
(***************************************************************************)
RemindersOK == ReminderTypes /\ MailsHeld /\ RemindersHeld

Statuses == {"SCHEDULED", "SENT", "FAILED"}

\* A run alone marks at most one message at a time.
Marks(at, todo, i) == IF at = "mark_sent" /\ Head(todo)[1] = i THEN 1 ELSE 0

Minded(at, todo) ==
  (\A i \in Bills : BillHeld(i, Marks(at, todo, i))) /\ RunReminds(at, todo)

LEMMA Headed ==
  ASSUME NEW X, NEW s \in Seq(X), s # <<>>
  PROVE  /\ Head(s) \in X /\ Head(s) = s[1] /\ 1 \in DOMAIN s /\ Tail(s) \in Seq(X)
         /\ \A n \in DOMAIN Tail(s) : n \in Nat /\ n + 1 # 1 /\ n + 1 \in DOMAIN s /\ Tail(s)[n] = s[n + 1]
OBVIOUS

LEMMA ReminderPlaces ==
  ASSUME Served, NEW k \in Slots, call[k].at \in {"next_bill", "insert_reminder"} \cup Dispatching
  PROVE  /\ call[k].doc = Agenda /\ k \in InFlight(Agenda) /\ Todo(k) = call[k].todo
         /\ call[k].at \in {"next_bill", "insert_reminder"} => Todo(k) \in Seq(Bills)
         /\ call[k].at \in Dispatching => Todo(k) \in Seq(Bills \X Nat)
         /\ call[k].at \in {"insert_reminder", "mark_sent", "mark_failed"} => Todo(k) # <<>>
<1>1. ForReminders(call[k])
  BY PlacesOf DEF Served, Dispatching
<1> QED BY <1>1 DEF ForReminders, Dispatching, InFlight, Todo

\* A run by itself: it is the only one in flight.
LEMMA AgendaAlone ==
  ASSUME Served, Alone, NEW k \in Slots, NEW r, Moved(k, r, {Agenda}),
         call[k].doc = Agenda \/ r.doc = Agenda, Undisturbed(Agenda)'
  PROVE  /\ Undisturbed(Agenda) /\ InFlight(Agenda)' \subseteq {k} /\ call'[k] = r
         /\ \A i : /\ Cardinality(Marking(i)) = Marks(call[k].at, call[k].todo, i)
                   /\ Cardinality(Marking(i))' = Marks(r.at, r.todo, i)
<1>1. Undisturbed(Agenda) /\ Agenda \notin crossed' /\ Agenda \in Docs \ crossed
  BY Kinds DEF Undisturbed, Moved
<1>2. Served' /\ Alone' /\ call'[k] = r
  BY MovedKeeps, FlightsOf
<1>3. /\ call[k].doc = Agenda => InFlight(Agenda) = {k}
      /\ call[k].doc # Agenda => InFlight(Agenda) = {} /\ call[k] = Free
  <2>1. CASE call[k].doc = Agenda
    BY <1>1, <2>1 DEF Alone, InFlight
  <2>2. CASE call[k].doc # Agenda
    <3>1. call[k].doc = None
      BY <2>2 DEF Moved
    <3>2. call[k] = Free
      BY <3>1, Placing DEF Served
    <3>3. r.doc \notin {None, call[k].doc}
      BY <2>2, <3>1, Kinds
    <3>4. InFlight(Agenda) = {}
      BY <1>1, <2>2, <3>3 DEF Moved
    <3> QED BY <2>2, <3>2, <3>4
  <2> QED BY <2>1, <2>2
<1>4. InFlight(Agenda)' = IF r.doc = Agenda THEN {k} ELSE {}
  BY <1>3, FlightsOf
<1>5. \A j \in Slots : /\ call[j].at = "mark_sent" => j \in InFlight(Agenda)
                       /\ call'[j].at = "mark_sent" => j \in InFlight(Agenda)'
  <2>1. \A p : Placed(p) /\ p.at = "mark_sent" => p.doc = Agenda
    BY PlacesOf DEF ForReminders
  <2> QED BY <1>2, <2>1 DEF Served, InFlight
<1>6. \A i : Marking(i) = IF Marks(call[k].at, call[k].todo, i) = 1 THEN {k} ELSE {}
  <2>1. CASE call[k].doc = Agenda
    BY <1>3, <1>5, <2>1 DEF Marking, At, Todo, Marks
  <2>2. CASE call[k].doc # Agenda
    BY <1>3, <1>5, <2>2 DEF Marking, At, Todo, Marks, Free
  <2> QED BY <2>1, <2>2
<1>7. \A i : Marking(i)' = IF Marks(r.at, r.todo, i) = 1 THEN {k} ELSE {}
  <2>1. CASE r.doc = Agenda
    BY <1>2, <1>4, <1>5, <2>1 DEF Marking, At, Todo, Marks
  <2>2. CASE r.doc # Agenda
    <3>1. r.doc = None
      BY <2>2 DEF Moved
    <3>2. r.at # "mark_sent"
      BY <3>1, Placing, FreePlaced DEF Moved
    <3> QED BY <1>2, <1>4, <1>5, <2>2, <3>2 DEF Marking, At, Todo, Marks
  <2> QED BY <2>1, <2>2
<1>8. Cardinality({k}) = 1 /\ Cardinality({}) = 0
  BY FS_Singleton, FS_EmptySet
<1>9. \A at, todo, i : Marks(at, todo, i) \in {0, 1}
  BY DEF Marks
<1>10. \A i : /\ Cardinality(Marking(i)) = Marks(call[k].at, call[k].todo, i)
              /\ Cardinality(Marking(i)') = Marks(r.at, r.todo, i)
  BY <1>6, <1>7, <1>8, <1>9
<1> QED BY <1>1, <1>2, <1>4, <1>10

\* A run moves: reminders and mails are added, never removed.
LEMMA RemindersGo ==
  ASSUME RemindersOK, Served, Alone, NEW k \in Slots, NEW r, Moved(k, r, {Agenda}),
         call[k].doc = Agenda \/ r.doc = Agenda, ReminderTypes',
         \A i \in Bills : DOMAIN reminder[i] \subseteq DOMAIN reminder'[i],
         \A i \in Bills : mails[i] > 0 => mails'[i] > 0,
         \A i \in Bills : MailHeld(i)', r.doc = Agenda => RunMails(r.at, r.todo)',
         Minded(call[k].at, call[k].todo) => Minded(r.at, r.todo)'
  PROVE  RemindersOK' /\ Moving(k, {Agenda})
<1>1. call'[k] = r /\ \A j \in Slots : j # k => call'[j] = call[j]
  BY FlightsOf
<1>2. ASSUME NEW j \in InFlight(Agenda)'
      PROVE  RunMails(call[j].at, Todo(j))'
  <2>1. j \in Slots /\ call'[j].doc = Agenda
    BY DEF InFlight
  <2>4. PICK at, todo : at = call'[j].at /\ todo = call'[j].todo
    OBVIOUS
  <2> SUFFICES RunMails(at, todo)'
    BY <2>4 DEF Todo
  <2>2. CASE j = k
    BY <1>1, <2>1, <2>2, <2>4
  <2>3. CASE j # k
    <3>1. call'[j] = call[j] /\ j \in InFlight(Agenda)
      BY <1>1, <2>1, <2>3 DEF InFlight
    <3>2. at = call[j].at /\ todo = call[j].todo
      BY <2>4, <3>1
    <3>3. RunMails(at, todo)
      BY <3>1, <3>2 DEF RemindersOK, MailsHeld, Todo
    <3>4. at \in Dispatching => todo \in Seq(Bills \X Nat)
      BY <2>1, <3>2, ReminderPlaces DEF Todo
    <3>5. at \in Dispatching => \A n \in DOMAIN todo : todo[n][1] \in Bills
      <4>1. \A X : \A s \in Seq(X) : \A n \in DOMAIN s : s[n] \in X
        OBVIOUS
      <4>2. at \in Dispatching => \A n \in DOMAIN todo : todo[n] \in Bills \X Nat
        BY <3>4, <4>1
      <4> QED BY <4>2
    <3>6. at = "mark_sent" => Head(todo)[1] \in Bills
      <4>1. at = "mark_sent" => at \in Dispatching /\ todo # <<>>
        BY <2>1, <3>2, ReminderPlaces DEF Dispatching, Todo
      <4>2. at = "mark_sent" => 1 \in DOMAIN todo /\ Head(todo) = todo[1]
        BY <3>4, <4>1, Headed
      <4> QED BY <3>5, <4>1, <4>2
    <3> QED BY <3>3, <3>5, <3>6 DEF RunMails
  <2> QED BY <2>2, <2>3
<1>3. MailsHeld'
  BY <1>2 DEF MailsHeld, Todo
<1>4. RemindersHeld'
  <2> SUFFICES ASSUME Undisturbed(Agenda)'
               PROVE  /\ \A i \in Bills : BillHeld(i, Cardinality(Marking(i)))'
                      /\ \A j \in InFlight(Agenda)' : RunReminds(call[j].at, Todo(j))'
    BY DEF RemindersHeld
  <2>1. /\ Undisturbed(Agenda) /\ InFlight(Agenda)' \subseteq {k} /\ call'[k] = r
        /\ \A i : /\ Cardinality(Marking(i)) = Marks(call[k].at, call[k].todo, i)
                  /\ Cardinality(Marking(i))' = Marks(r.at, r.todo, i)
    BY AgendaAlone
  <2>2. /\ \A i \in Bills : BillHeld(i, Cardinality(Marking(i)))
        /\ \A j \in InFlight(Agenda) : RunReminds(call[j].at, Todo(j))
    BY <2>1 DEF RemindersOK, RemindersHeld
  <2>3. RunReminds(call[k].at, call[k].todo)
    <3>1. CASE call[k].doc = Agenda
      BY <2>2, <3>1 DEF InFlight, Todo
    <3>2. CASE call[k].doc # Agenda
      <4>1. call[k].doc = None
        BY <3>2 DEF Moved
      <4>2. call[k].at = "free"
        BY <4>1, Placing DEF Served
      <4> QED BY <4>2 DEF RunReminds, Dispatching
    <3> QED BY <3>1, <3>2
  <2>4. Minded(call[k].at, call[k].todo)
    BY <2>1, <2>2, <2>3 DEF Minded
  <2>5. Minded(r.at, r.todo)'
    BY <2>4
  <2>6. \A i \in Bills : BillHeld(i, Cardinality(Marking(i)))'
    BY <2>1, <2>5 DEF Minded, BillHeld
  <2>7. \A j \in InFlight(Agenda)' : RunReminds(call[j].at, Todo(j))'
    BY <2>1, <2>5 DEF Minded, Todo
  <2> QED BY <2>6, <2>7
<1>5. Moving(k, {Agenda})
  BY DEF Moving
<1> QED BY <1>3, <1>4, <1>5 DEF RemindersOK

-----------------------------------------------------------------------------
OnReminders(place, rest) ==
  /\ \/ place \in {"next_bill", "insert_reminder"} /\ rest \in Seq(Bills)
     \/ place \in Dispatching /\ rest \in Seq(Bills \X Nat)
  /\ place \in {"insert_reminder", "mark_sent", "mark_failed"} => rest # <<>>

\* The run k goes on at a place, with what is left to do.
Onwards(k, place, rest) ==
  \/ Goto(k, place) /\ rest = call[k].todo /\ call[k].doc = Agenda
  \/ GotoLeft(k, place, rest) /\ call[k].doc = Agenda
  \/ Enter(k, place, Agenda, 0, rest)

LEMMA RemindersMove ==
  ASSUME Served, NEW k \in Slots, NEW place, NEW rest, OnReminders(place, rest), Onwards(k, place, rest)
  PROVE  \E r : Moved(k, r, {Agenda}) /\ r.doc = Agenda /\ r.at = place /\ r.todo = rest
<1> DEFINE Going(d, n) == [at |-> place, doc |-> d, sum |-> n, todo |-> rest]
<1>1. \A n : /\ Placed(Going(Agenda, n)) /\ Going(Agenda, n).doc = Agenda
             /\ Going(Agenda, n).at = place /\ Going(Agenda, n).todo = rest
  BY DEF Placed, Record, ForReminders, OnReminders, Dispatching
<1>2. CASE Goto(k, place) /\ rest = call[k].todo /\ call[k].doc = Agenda
  <2>1. Moved(k, Going(call[k].doc, call[k].sum), {Agenda})
    <3>1. call[k].doc \in {Agenda} /\ Placed(Going(call[k].doc, call[k].sum))
      BY <1>1, <1>2
    <3> QED BY <1>2, <3>1, GotoMoves
  <2> HIDE DEF Going
  <2> QED BY <1>1, <1>2, <2>1
<1>3. CASE GotoLeft(k, place, rest) /\ call[k].doc = Agenda
  <2>1. Moved(k, Going(call[k].doc, call[k].sum), {Agenda})
    <3>1. call[k].doc \in {Agenda} /\ Placed(Going(call[k].doc, call[k].sum))
      BY <1>1, <1>3
    <3> QED BY <1>3, <3>1, GotoLeftMoves
  <2> HIDE DEF Going
  <2> QED BY <1>1, <1>3, <2>1
<1>4. CASE Enter(k, place, Agenda, 0, rest)
  <2>1. Moved(k, Going(Agenda, 0), {Agenda})
    <3>1. Agenda \in {Agenda} /\ Placed(Going(Agenda, 0))
      BY <1>1
    <3> QED BY <1>4, <3>1, EnterMoves
  <2> HIDE DEF Going
  <2> QED BY <1>1, <2>1
<1> QED BY <1>2, <1>3, <1>4 DEF Onwards

LEMMA ReminderGoesOn ==
  ASSUME RemindersOK, Served, Alone, NEW k \in Slots, NEW place, NEW rest,
         OnReminders(place, rest), Onwards(k, place, rest), ReminderTypes',
         \A i \in Bills : DOMAIN reminder[i] \subseteq DOMAIN reminder'[i],
         \A i \in Bills : mails[i] > 0 => mails'[i] > 0,
         \A i \in Bills : MailHeld(i)', RunMails(place, rest)',
         Minded(call[k].at, call[k].todo) => Minded(place, rest)'
  PROVE  RemindersOK' /\ Moving(k, {Agenda})
<1>1. PICK r : Moved(k, r, {Agenda}) /\ r.doc = Agenda /\ r.at = place /\ r.todo = rest
  BY RemindersMove
<1>2. RunMails(r.at, r.todo)' /\ (Minded(call[k].at, call[k].todo) => Minded(r.at, r.todo)')
  BY <1>1
<1> QED BY <1>1, <1>2, RemindersGo

\* A step that only reads: nothing is marked by it.
LEMMA ReminderReads ==
  ASSUME RemindersOK, UNCHANGED <<reminder, mails, unmarked, overdue>>
  PROVE  /\ ReminderTypes' /\ \A i \in Bills : DOMAIN reminder[i] \subseteq DOMAIN reminder'[i]
         /\ \A i \in Bills : mails[i] > 0 => mails'[i] > 0
         /\ \A i \in Bills : MailHeld(i)'
         /\ \A at, todo : /\ RunMails(at, todo)' <=> RunMails(at, todo)
                          /\ Minded(at, todo)' <=> Minded(at, todo)
<1>1. \A i, s : With(i, s)' = With(i, s)
  BY DEF With
<1>2. Scheduled' = Scheduled
  BY <1>1 DEF Scheduled
<1> QED BY <1>1, <1>2 DEF RemindersOK, ReminderTypes, MailsHeld, MailHeld, RunMails, Minded, BillHeld,
                         RunReminds

LEMMA RemindersGoOn ==
  ASSUME RemindersOK, Served, Alone, NEW k \in Slots, NEW place, NEW rest, UNCHANGED reminderVars,
         OnReminders(place, rest), Onwards(k, place, rest), RunMails(place, rest),
         call[k].at # "mark_sent", place # "mark_sent",
         RunReminds(call[k].at, call[k].todo) => RunReminds(place, rest)
  PROVE  RemindersOK' /\ Moving(k, {Agenda})
<1>1. UNCHANGED <<reminder, mails, unmarked, overdue>>
  BY DEF reminderVars
<1>2. PICK at, todo : at = call[k].at /\ todo = call[k].todo
  OBVIOUS
<1>3. Minded(at, todo) => Minded(place, rest)'
  <2>1. Minded(at, todo) => Minded(place, rest)
    BY <1>2 DEF Minded, Marks
  <2> QED BY <1>1, <2>1, ReminderReads
<1>4. RunMails(place, rest)' /\ ReminderTypes'
      /\ (\A i \in Bills : DOMAIN reminder[i] \subseteq DOMAIN reminder'[i])
      /\ (\A i \in Bills : mails[i] > 0 => mails'[i] > 0) /\ \A i \in Bills : MailHeld(i)'
  BY <1>1, ReminderReads
<1> QED BY <1>2, <1>3, <1>4, ReminderGoesOn

LEMMA GenerateKeeps ==
  ASSUME RemindersOK, Served, Alone, NEW k \in Slots, Generate(k)
  PROVE  RemindersOK' /\ Moving(k, {Agenda})
<1>1. IsFiniteSet(overdue)
  BY RemindersAssumption, FS_Subset DEF RemindersOK, ReminderTypes
<1>2. PICK rest : rest = SetToSeq(overdue)
  OBVIOUS
<1>3. rest \in Seq(Bills)
  <2>1. rest \in Seq(overdue)
    BY <1>1, <1>2, Listing
  <2> QED BY <2>1, SeqMonotonic DEF RemindersOK, ReminderTypes
<1>4. PICK place : place = "next_bill"
  OBVIOUS
<1>5. Onwards(k, place, rest) /\ UNCHANGED reminderVars /\ call[k].at = "free"
  BY <1>2, <1>4 DEF Generate, Onwards, Enter, At
<1>6. OnReminders(place, rest) /\ RunMails(place, rest) /\ RunReminds(place, rest)
      /\ place # "mark_sent" /\ call[k].at # "mark_sent"
  BY <1>3, <1>4, <1>5 DEF OnReminders, RunMails, RunReminds, Dispatching
<1> QED BY <1>5, <1>6, RemindersGoOn

LEMMA ScheduledAre ==
  ASSUME ReminderTypes
  PROVE  /\ \A i \in Bills : DOMAIN reminder[i] \subseteq Nat
         /\ IsFiniteSet(Scheduled) /\ Scheduled \subseteq Bills \X Nat
         /\ \A p : p \in Scheduled <=> /\ p \in Bills \X Nat
                                       /\ p[2] \in With(p[1], "SCHEDULED")
<1>1. \A X : \A s \in Seq(X) : DOMAIN s = 1..Len(s) /\ Len(s) \in Nat /\ DOMAIN s \subseteq Nat
  OBVIOUS
<1>2. \A i \in Bills : /\ DOMAIN reminder[i] = 1..Len(reminder[i]) /\ Len(reminder[i]) \in Nat
                       /\ DOMAIN reminder[i] \subseteq Nat
  BY <1>1 DEF ReminderTypes
<1> DEFINE F == [i \in Bills |-> {i} \X With(i, "SCHEDULED")]
<1>3. \A i \in Bills : With(i, "SCHEDULED") \subseteq DOMAIN reminder[i]
  BY DEF With
<1>4. \A i \in Bills : IsFiniteSet(F[i])
  <2> SUFFICES ASSUME NEW i \in Bills PROVE IsFiniteSet(F[i])
    OBVIOUS
  <2>1. IsFiniteSet(DOMAIN reminder[i])
    <3>1. \A n \in Nat : IsFiniteSet(1..n)
      BY FS_Interval
    <3> QED BY <1>2, <3>1
  <2>2. IsFiniteSet(With(i, "SCHEDULED")) /\ IsFiniteSet({i})
    BY <1>3, <2>1, FS_Subset, FS_Singleton
  <2> QED BY <2>2, FS_Product
<1>5. \A p : p \in Scheduled <=> \E i \in Bills : p \in F[i]
  BY DEF Scheduled
<1>6. \A p \in Scheduled : \E i \in Bills : p \in F[i]
  BY <1>5
<1>7. IsFiniteSet(Scheduled)
  <2> HIDE DEF F
  <2> QED BY <1>4, <1>6, RemindersAssumption, FiniteUnion
<1>8. \A p : p \in Scheduled <=> p \in Bills \X Nat /\ p[2] \in With(p[1], "SCHEDULED")
  BY <1>2, <1>3, <1>5
<1> QED BY <1>2, <1>7, <1>8

LEMMA DispatchKeeps ==
  ASSUME RemindersOK, Served, Alone, NEW k \in Slots, Dispatch(k)
  PROVE  RemindersOK' /\ Moving(k, {Agenda})
<1>1. PICK rest : rest = SetToSeq(Scheduled)
  OBVIOUS
<1>2. /\ rest \in Seq(Scheduled) /\ rest \in Seq(Bills \X Nat)
      /\ \A i, j \in DOMAIN rest : rest[i] = rest[j] => i = j
  <2>1. IsFiniteSet(Scheduled) /\ Scheduled \subseteq Bills \X Nat
    BY ScheduledAre DEF RemindersOK
  <2>2. rest \in Seq(Scheduled) /\ \A i, j \in DOMAIN rest : rest[i] = rest[j] => i = j
    BY <1>1, <2>1, Listing
  <2> QED BY <2>1, <2>2, SeqMonotonic
<1>3. \A n \in DOMAIN rest : rest[n] \in Scheduled
  <2>1. \A X : \A s \in Seq(X) : \A n \in DOMAIN s : s[n] \in X
    OBVIOUS
  <2> QED BY <1>2, <2>1
<1>4. \A n \in DOMAIN rest : rest[n][2] \in DOMAIN reminder[rest[n][1]]
  BY <1>3, ScheduledAre DEF RemindersOK, With
<1>5. PICK place : place = "next_reminder"
  OBVIOUS
<1>6. Onwards(k, place, rest) /\ UNCHANGED reminderVars /\ call[k].at = "free"
  BY <1>1, <1>5 DEF Dispatch, Onwards, Enter, At
<1>7. OnReminders(place, rest) /\ RunMails(place, rest) /\ RunReminds(place, rest)
      /\ place # "mark_sent" /\ call[k].at # "mark_sent"
  BY <1>2, <1>3, <1>4, <1>5, <1>6 DEF OnReminders, RunMails, RunReminds, Dispatching
<1> QED BY <1>6, <1>7, RemindersGoOn

LEMMA FindScheduledKeeps ==
  ASSUME RemindersOK, Served, Alone, NEW k \in Slots, FindScheduled(k)
  PROVE  RemindersOK' /\ Moving(k, {Agenda})
<1>1. /\ call[k].at = "next_bill" /\ call[k].todo # <<>> /\ Todo(k) = call[k].todo
      /\ UNCHANGED reminderVars
  BY DEF FindScheduled, At, Todo
<1>2. call[k].doc = Agenda /\ call[k].todo \in Seq(Bills)
  BY <1>1, ReminderPlaces
<1>3. CASE With(Bill(k), "SCHEDULED") = {}
  <2>1. PICK place : place = "insert_reminder"
    OBVIOUS
  <2>2. PICK rest : rest = call[k].todo
    OBVIOUS
  <2>3. Onwards(k, place, rest)
    BY <1>2, <1>3, <2>1, <2>2 DEF FindScheduled, Onwards
  <2>4. OnReminders(place, rest) /\ RunMails(place, rest) /\ RunReminds(place, rest)
        /\ place # "mark_sent" /\ call[k].at # "mark_sent"
    BY <1>1, <1>2, <1>3, <2>1, <2>2 DEF OnReminders, RunMails, RunReminds, Dispatching, Bill
  <2> QED BY <1>1, <2>3, <2>4, RemindersGoOn
<1>4. CASE With(Bill(k), "SCHEDULED") # {}
  <2>1. PICK place : place = "next_bill"
    OBVIOUS
  <2>2. PICK rest : rest = Tail(call[k].todo)
    OBVIOUS
  <2>3. Onwards(k, place, rest)
    BY <1>1, <1>2, <1>4, <2>1, <2>2 DEF FindScheduled, Onwards
  <2>4. rest \in Seq(Bills)
    BY <1>1, <1>2, <2>2, Headed
  <2>5. OnReminders(place, rest) /\ RunMails(place, rest) /\ RunReminds(place, rest)
        /\ place # "mark_sent" /\ call[k].at # "mark_sent"
    BY <1>1, <2>1, <2>4 DEF OnReminders, RunMails, RunReminds, Dispatching
  <2> QED BY <1>1, <2>3, <2>5, RemindersGoOn
<1> QED BY <1>3, <1>4

LEMMA SendFailsKeeps ==
  ASSUME RemindersOK, Served, Alone, NEW k \in Slots, SendFails(k)
  PROVE  RemindersOK' /\ Moving(k, {Agenda})
<1>1. /\ call[k].at = "next_reminder" /\ call[k].todo # <<>> /\ Todo(k) = call[k].todo
      /\ UNCHANGED reminderVars
  BY DEF SendFails, At, Todo
<1>2. call[k].doc = Agenda /\ call[k].todo \in Seq(Bills \X Nat) /\ RunMails(call[k].at, call[k].todo)
  BY <1>1, ReminderPlaces DEF Dispatching, RemindersOK, MailsHeld
<1>3. PICK place : place = "mark_failed"
  OBVIOUS
<1>4. PICK rest : rest = call[k].todo
  OBVIOUS
<1>5. Onwards(k, place, rest)
  BY <1>2, <1>3, <1>4 DEF SendFails, Onwards
<1>6. OnReminders(place, rest) /\ RunMails(place, rest)
      /\ (RunReminds(call[k].at, call[k].todo) => RunReminds(place, rest))
      /\ place # "mark_sent" /\ call[k].at # "mark_sent"
  BY <1>1, <1>2, <1>3, <1>4 DEF OnReminders, RunMails, RunReminds, Dispatching
<1> QED BY <1>1, <1>5, <1>6, RemindersGoOn

-----------------------------------------------------------------------------
LEMMA FewWith ==
  ASSUME ReminderTypes, NEW i \in Bills, NEW status
  PROVE  With(i, status) \subseteq DOMAIN reminder[i] /\ IsFiniteSet(With(i, status))
         /\ Cardinality(With(i, status)) \in Nat
<1>1. With(i, status) \subseteq DOMAIN reminder[i]
  BY DEF With
<1>2. IsFiniteSet(DOMAIN reminder[i])
  <2>1. \A X : \A s \in Seq(X) : DOMAIN s = 1..Len(s) /\ Len(s) \in Nat
    OBVIOUS
  <2>2. \A n \in Nat : IsFiniteSet(1..n)
    BY FS_Interval
  <2> QED BY <2>1, <2>2 DEF ReminderTypes
<1> QED BY <1>1, <1>2, FS_Subset, FS_CardinalityType

LEMMA InsertReminderKeeps ==
  ASSUME RemindersOK, Served, Alone, NEW k \in Slots, InsertReminder(k)
  PROVE  RemindersOK' /\ Moving(k, {Agenda})
<1>1. /\ call[k].at = "insert_reminder" /\ Todo(k) = call[k].todo /\ UNCHANGED <<overdue, mails, unmarked>>
      /\ reminder' = [reminder EXCEPT ![Head(call[k].todo)] = Append(reminder[Head(call[k].todo)], "SCHEDULED")]
      /\ GotoLeft(k, "next_bill", Tail(call[k].todo))
  BY DEF InsertReminder, At, Todo, Bill
<1>2. call[k].doc = Agenda /\ call[k].todo \in Seq(Bills) /\ call[k].todo # <<>>
  BY <1>1, ReminderPlaces
<1>3. PICK i \in Bills : i = Head(call[k].todo)
  BY <1>2, Headed
<1>4. PICK rest \in Seq(Bills) : rest = Tail(call[k].todo)
  BY <1>2, Headed
<1> DEFINE m == Len(reminder[i]) + 1
<1>5. /\ reminder' \in [Bills -> Seq(Statuses)]
      /\ \A b \in Bills \ {i} : reminder'[b] = reminder[b]
      /\ DOMAIN reminder'[i] = DOMAIN reminder[i] \cup {m} /\ reminder'[i][m] = "SCHEDULED"
      /\ \A n \in DOMAIN reminder[i] : reminder'[i][n] = reminder[i][n] /\ n # m
  <2>1. reminder' = [reminder EXCEPT ![i] = Append(reminder[i], "SCHEDULED")]
    BY <1>1, <1>3
  <2>2. \A X : \A s \in Seq(X), e \in X :
          /\ Append(s, e) \in Seq(X) /\ DOMAIN Append(s, e) = DOMAIN s \cup {Len(s) + 1}
          /\ Append(s, e)[Len(s) + 1] = e /\ \A n \in DOMAIN s : Append(s, e)[n] = s[n] /\ n # Len(s) + 1
    OBVIOUS
  <2>3. reminder \in [Bills -> Seq(Statuses)] /\ reminder[i] \in Seq(Statuses) /\ "SCHEDULED" \in Statuses
    BY DEF RemindersOK, ReminderTypes, Statuses
  <2> QED BY <2>1, <2>2, <2>3
<1> HIDE DEF m
<1>6. /\ \A b \in Bills : \A s : b # i \/ s # "SCHEDULED" => With(b, s)' = With(b, s)
      /\ With(i, "SCHEDULED")' = With(i, "SCHEDULED") \cup {m}
  BY <1>5 DEF With
<1>7. ReminderTypes'
  BY <1>1, <1>5 DEF RemindersOK, ReminderTypes, Statuses
<1>8. \A b \in Bills : DOMAIN reminder[b] \subseteq DOMAIN reminder'[b]
  BY <1>5
<1>9. (\A b \in Bills : mails[b] > 0 => mails'[b] > 0) /\ \A b \in Bills : MailHeld(b)'
  BY <1>1, <1>6 DEF RemindersOK, MailsHeld, MailHeld
<1>10. PICK place : place = "next_bill"
  OBVIOUS
<1>11. Onwards(k, place, rest) /\ OnReminders(place, rest) /\ RunMails(place, rest)'
  BY <1>1, <1>2, <1>4, <1>10 DEF Onwards, OnReminders, RunMails, Dispatching
<1>12. ASSUME Minded(call[k].at, call[k].todo)
       PROVE  Minded(place, rest)'
  <2>1. \A b \in Bills : BillHeld(b, 0) /\ With(i, "SCHEDULED") = {}
    BY <1>1, <1>3, <1>12 DEF Minded, Marks, RunReminds
  <2>2. \A b \in Bills : BillHeld(b, 0)'
    BY <1>1, <1>6, <2>1 DEF BillHeld
  <2>3. RunReminds(place, rest)'
    BY <1>10 DEF RunReminds, Dispatching
  <2>4. \A b \in Bills : Marks(place, rest, b) = 0
    BY <1>10 DEF Marks
  <2> QED BY <2>2, <2>3, <2>4 DEF Minded
<1> QED BY <1>7, <1>8, <1>9, <1>11, <1>12, ReminderGoesOn

\* The reminder a dispatch is about.
LEMMA DispatchAt ==
  ASSUME RemindersOK, Served, NEW k \in Slots, call[k].at \in Dispatching, call[k].todo # <<>>
  PROVE  /\ call[k].doc = Agenda /\ Todo(k) = call[k].todo /\ call[k].todo \in Seq(Bills \X Nat)
         /\ RunMails(call[k].at, call[k].todo)
         /\ \E i \in Bills, n \in Nat :
              /\ Head(call[k].todo) = <<i, n>> /\ n \in DOMAIN reminder[i]
              /\ RunReminds(call[k].at, call[k].todo) =>
                   /\ n \in With(i, "SCHEDULED")
                   /\ \A j \in DOMAIN Tail(call[k].todo) : /\ Tail(call[k].todo)[j] # <<i, n>>
                                                           /\ Tail(call[k].todo)[j] \in Scheduled
                   /\ \A h, j \in DOMAIN Tail(call[k].todo) :
                        Tail(call[k].todo)[h] = Tail(call[k].todo)[j] => h = j
         /\ Tail(call[k].todo) \in Seq(Bills \X Nat)
         /\ \A j \in DOMAIN Tail(call[k].todo) :
              /\ Tail(call[k].todo)[j] \in Bills \X Nat
              /\ Tail(call[k].todo)[j][2] \in DOMAIN reminder[Tail(call[k].todo)[j][1]]
<1>1. call[k].doc = Agenda /\ Todo(k) = call[k].todo /\ call[k].todo \in Seq(Bills \X Nat)
      /\ RunMails(call[k].at, call[k].todo)
  BY ReminderPlaces DEF RemindersOK, MailsHeld
<1>2. PICK todo \in Seq(Bills \X Nat) : todo = call[k].todo
  BY <1>1
<1>3. /\ Head(todo) \in Bills \X Nat /\ Head(todo) = todo[1] /\ 1 \in DOMAIN todo
      /\ Tail(todo) \in Seq(Bills \X Nat)
      /\ \A n \in DOMAIN Tail(todo) : n \in Nat /\ n + 1 # 1 /\ n + 1 \in DOMAIN todo /\ Tail(todo)[n] = todo[n + 1]
  BY <1>2, Headed
<1>4. \A j \in DOMAIN Tail(todo) : Tail(todo)[j] \in Bills \X Nat
  <2>1. \A X : \A s \in Seq(X) : \A n \in DOMAIN s : s[n] \in X
    OBVIOUS
  <2> QED BY <1>3, <2>1
<1>5. \A j \in DOMAIN todo : todo[j][2] \in DOMAIN reminder[todo[j][1]]
  BY <1>1, <1>2 DEF RunMails
<1>6. PICK i \in Bills, n \in Nat : Head(todo) = <<i, n>>
  BY <1>3
<1>7. n \in DOMAIN reminder[i] /\ \A j \in DOMAIN Tail(todo) :
                                    Tail(todo)[j][2] \in DOMAIN reminder[Tail(todo)[j][1]]
  BY <1>3, <1>5, <1>6
<1>8. ASSUME RunReminds(call[k].at, todo)
      PROVE  /\ n \in With(i, "SCHEDULED")
             /\ \A j \in DOMAIN Tail(todo) : Tail(todo)[j] # <<i, n>> /\ Tail(todo)[j] \in Scheduled
             /\ \A h, j \in DOMAIN Tail(todo) : Tail(todo)[h] = Tail(todo)[j] => h = j
  <2>1. /\ \A j \in DOMAIN todo : todo[j] \in Scheduled
        /\ \A h, j \in DOMAIN todo : todo[h] = todo[j] => h = j
    BY <1>8 DEF RunReminds
  <2>2. <<i, n>> \in Scheduled
    BY <1>3, <1>6, <2>1
  <2>3. n \in With(i, "SCHEDULED")
    BY <2>2, ScheduledAre DEF RemindersOK
  <2>4. \A j \in DOMAIN Tail(todo) : Tail(todo)[j] # <<i, n>> /\ Tail(todo)[j] \in Scheduled
    BY <1>3, <1>6, <2>1
  <2>5. \A h, j \in DOMAIN Tail(todo) : Tail(todo)[h] = Tail(todo)[j] => h = j
    <3>1. \A h, j \in Nat : h + 1 = j + 1 => h = j
      OBVIOUS
    <3> QED BY <1>3, <2>1, <3>1
  <2> QED BY <2>3, <2>4, <2>5
<1>9. \E ii \in Bills, nn \in Nat :
              /\ Head(todo) = <<ii, nn>> /\ nn \in DOMAIN reminder[ii]
              /\ RunReminds(call[k].at, todo) =>
                   /\ nn \in With(ii, "SCHEDULED")
                   /\ \A j \in DOMAIN Tail(todo) : /\ Tail(todo)[j] # <<ii, nn>>
                                                   /\ Tail(todo)[j] \in Scheduled
                   /\ \A h, j \in DOMAIN Tail(todo) : Tail(todo)[h] = Tail(todo)[j] => h = j
  BY <1>6, <1>7, <1>8
<1> QED BY <1>1, <1>2, <1>3, <1>4, <1>7, <1>9

LEMMA SendKeeps ==
  ASSUME RemindersOK, Served, Alone, NEW k \in Slots, Send(k)
  PROVE  RemindersOK' /\ Moving(k, {Agenda})
<1>1. /\ call[k].at = "next_reminder" /\ call[k].todo # <<>> /\ Goto(k, "mark_sent")
      /\ UNCHANGED <<overdue, reminder, unmarked>>
      /\ mails' = [mails EXCEPT ![Head(call[k].todo)[1]] = mails[Head(call[k].todo)[1]] + 1]
  BY DEF Send, At, Todo
<1>2. call[k].doc = Agenda /\ call[k].todo \in Seq(Bills \X Nat) /\ RunMails(call[k].at, call[k].todo)
  BY <1>1, DispatchAt DEF Dispatching
<1>3. PICK i \in Bills, n \in Nat : Head(call[k].todo) = <<i, n>>
  BY <1>1, DispatchAt DEF Dispatching
<1>4. mails' = [mails EXCEPT ![i] = mails[i] + 1] /\ mails[i] \in Nat
  <2>1. Head(call[k].todo)[1] = i
    BY <1>3
  <2>2. mails[i] \in Nat
    BY DEF RemindersOK, ReminderTypes
  <2> QED BY <1>1, <2>1, <2>2
<1>5. mails' \in [Bills -> Nat] /\ mails'[i] = mails[i] + 1 /\ mails'[i] > 0
      /\ \A b \in Bills \ {i} : mails'[b] = mails[b]
  BY <1>4 DEF RemindersOK, ReminderTypes
<1>6. (\A b, s : With(b, s)' = With(b, s)) /\ Scheduled' = Scheduled
  <2>1. \A b, s : With(b, s)' = With(b, s)
    BY <1>1 DEF With
  <2> QED BY <2>1 DEF Scheduled
<1>7. ReminderTypes'
  BY <1>1, <1>5 DEF RemindersOK, ReminderTypes
<1>8. (\A b \in Bills : DOMAIN reminder[b] \subseteq DOMAIN reminder'[b])
      /\ (\A b \in Bills : mails[b] > 0 => mails'[b] > 0) /\ \A b \in Bills : MailHeld(b)'
  BY <1>1, <1>5, <1>6 DEF RemindersOK, MailsHeld, MailHeld
<1>9. PICK place : place = "mark_sent"
  OBVIOUS
<1>10. PICK rest : rest = call[k].todo
  OBVIOUS
<1>11. Onwards(k, place, rest) /\ OnReminders(place, rest)
  BY <1>1, <1>2, <1>9, <1>10 DEF Onwards, OnReminders, Dispatching
<1>12. RunMails(place, rest)'
  BY <1>1, <1>2, <1>3, <1>5, <1>9, <1>10 DEF RunMails, Dispatching
<1>13. ASSUME Minded(call[k].at, call[k].todo)
       PROVE  Minded(place, rest)'
  <2>1. (\A b \in Bills : BillHeld(b, 0)) /\ RunReminds(call[k].at, call[k].todo)
    BY <1>1, <1>13 DEF Minded, Marks
  <2>2. \A b \in Bills : Marks(place, rest, b) = IF b = i THEN 1 ELSE 0
    BY <1>3, <1>9, <1>10 DEF Marks
  <2>3. \A b \in Bills : BillHeld(b, IF b = i THEN 1 ELSE 0)'
    <3>1. ASSUME NEW b \in Bills
          PROVE  BillHeld(b, IF b = i THEN 1 ELSE 0)'
      <4>1. CASE b # i
        BY <1>1, <1>5, <1>6, <2>1, <4>1 DEF BillHeld
      <4>2. CASE b = i
        <5>1. PICK c \in Nat, u \in Nat, m \in Nat :
                /\ c = Cardinality(With(b, "SENT")) /\ u = unmarked[b] /\ m = mails[b]
          BY FewWith DEF RemindersOK, ReminderTypes
        <5>2. m = c + 0 + u
          BY <2>1, <5>1 DEF BillHeld
        <5>3. mails'[b] = m + 1 /\ unmarked'[b] = u /\ Cardinality(With(b, "SENT")') = c
          BY <1>1, <1>5, <1>6, <4>2, <5>1
        <5>4. m + 1 = c + 1 + u
          BY <5>2
        <5>5. \A p, q \in With(b, "SCHEDULED")' : p = q
          BY <1>6, <2>1 DEF BillHeld
        <5>6. BillHeld(b, 1)'
          BY <5>3, <5>4, <5>5 DEF BillHeld
        <5> QED BY <4>2, <5>6
      <4> QED BY <4>1, <4>2
    <3> QED BY <3>1
  <2>4. RunReminds(place, rest)'
    BY <1>1, <1>6, <1>9, <1>10, <2>1 DEF RunReminds, Dispatching
  <2>5. \A b \in Bills : BillHeld(b, Marks(place, rest, b))'
    BY <2>2, <2>3
  <2> QED BY <2>4, <2>5 DEF Minded
<1> QED BY <1>7, <1>8, <1>11, <1>12, <1>13, ReminderGoesOn

-----------------------------------------------------------------------------
\* One reminder changes its status.
Remarked(i, n, status) == reminder' = [reminder EXCEPT ![i][n] = status]

LEMMA Marked ==
  ASSUME ReminderTypes, NEW i \in Bills, NEW n \in DOMAIN reminder[i], NEW status \in Statuses,
         Remarked(i, n, status)
  PROVE  /\ reminder' \in [Bills -> Seq(Statuses)]
         /\ \A b \in Bills : DOMAIN reminder'[b] = DOMAIN reminder[b]
         /\ \A b \in Bills \ {i} : \A s : With(b, s)' = With(b, s)
         /\ With(i, status)' = With(i, status) \cup {n}
         /\ \A s : s # status => With(i, s)' = With(i, s) \ {n}
<1>1. reminder \in [Bills -> Seq(Statuses)] /\ reminder[i] \in Seq(Statuses)
  BY DEF ReminderTypes, Statuses
<1>2. PICK list : list = [reminder[i] EXCEPT ![n] = status]
  OBVIOUS
<1>3. /\ list \in Seq(Statuses) /\ DOMAIN list = DOMAIN reminder[i]
      /\ \A m \in DOMAIN reminder[i] : list[m] = IF m = n THEN status ELSE reminder[i][m]
  BY <1>1, <1>2, ExceptSeq
<1>4. reminder' = [reminder EXCEPT ![i] = list]
  BY <1>2 DEF Remarked
<1>5. /\ reminder' \in [Bills -> Seq(Statuses)] /\ reminder'[i] = list
      /\ \A b \in Bills \ {i} : reminder'[b] = reminder[b]
  BY <1>1, <1>3, <1>4
<1> QED BY <1>3, <1>5 DEF With

LEMMA CountMore ==
  ASSUME NEW S, IsFiniteSet(S), NEW x, x \notin S, NEW c \in Nat, c = Cardinality(S)
  PROVE  Cardinality(S \cup {x}) = c + 1
BY FS_AddElement

\* What is left to do after one reminder is marked.
LEMMA MarkedRest ==
  ASSUME RemindersOK, Served, NEW k \in Slots, call[k].at \in {"mark_sent", "mark_failed"},
         NEW i \in Bills, NEW n \in Nat, Head(call[k].todo) = <<i, n>>,
         NEW status \in Statuses, status # "SCHEDULED",
         Remarked(i, n, status), NEW rest, rest = Tail(call[k].todo),
         NEW place, place = "next_reminder"
  PROVE  /\ n \in DOMAIN reminder[i] /\ OnReminders(place, rest) /\ RunMails(place, rest)'
         /\ RunReminds(call[k].at, call[k].todo) =>
              n \in With(i, "SCHEDULED") /\ RunReminds(place, rest)'
<1>1. call[k].at \in Dispatching /\ call[k].todo # <<>>
  BY ReminderPlaces DEF Dispatching, Todo
<1>2. /\ n \in DOMAIN reminder[i]
      /\ RunReminds(call[k].at, call[k].todo) =>
           /\ n \in With(i, "SCHEDULED")
           /\ \A j \in DOMAIN rest : rest[j] # <<i, n>> /\ rest[j] \in Scheduled
           /\ \A h, j \in DOMAIN rest : rest[h] = rest[j] => h = j
  <2>1. PICK ii \in Bills, nn \in Nat :
          /\ Head(call[k].todo) = <<ii, nn>> /\ nn \in DOMAIN reminder[ii]
          /\ RunReminds(call[k].at, call[k].todo) =>
               /\ nn \in With(ii, "SCHEDULED")
               /\ \A j \in DOMAIN Tail(call[k].todo) : /\ Tail(call[k].todo)[j] # <<ii, nn>>
                                                       /\ Tail(call[k].todo)[j] \in Scheduled
               /\ \A h, j \in DOMAIN Tail(call[k].todo) :
                    Tail(call[k].todo)[h] = Tail(call[k].todo)[j] => h = j
    BY <1>1, DispatchAt
  <2>2. ii = i /\ nn = n
    BY <2>1
  <2> QED BY <2>1, <2>2
<1>3. /\ rest \in Seq(Bills \X Nat)
      /\ \A j \in DOMAIN rest : /\ rest[j] \in Bills \X Nat
                                /\ rest[j][2] \in DOMAIN reminder[rest[j][1]]
  BY <1>1, DispatchAt
<1>4. /\ \A b \in Bills : DOMAIN reminder'[b] = DOMAIN reminder[b]
      /\ \A b \in Bills \ {i} : \A s : With(b, s)' = With(b, s)
      /\ With(i, "SCHEDULED")' = With(i, "SCHEDULED") \ {n}
  <2>1. ReminderTypes
    BY DEF RemindersOK
  <2>2. /\ \A b \in Bills : DOMAIN reminder'[b] = DOMAIN reminder[b]
        /\ \A b \in Bills \ {i} : \A s : With(b, s)' = With(b, s)
        /\ \A s : s # status => With(i, s)' = With(i, s) \ {n}
    BY <1>2, <2>1, Marked
  <2> QED BY <2>2
<1>5. OnReminders(place, rest)
  BY <1>3 DEF OnReminders, Dispatching
<1>6. RunMails(place, rest)'
  <2>1. \A j \in DOMAIN rest : rest[j][1] \in Bills
    BY <1>3
  <2> QED BY <1>3, <1>4, <2>1 DEF RunMails
<1>7. ASSUME RunReminds(call[k].at, call[k].todo)
      PROVE  RunReminds(place, rest)'
  <2>1. \A j \in DOMAIN rest : rest[j] \in Scheduled'
    <3> SUFFICES ASSUME NEW j \in DOMAIN rest PROVE rest[j] \in Scheduled'
      OBVIOUS
    <3>0. rest[j] \in Bills \X Nat
      BY <1>3
    <3>1. PICK b \in Bills, m \in Nat : rest[j] = <<b, m>>
      BY <3>0
    <3>2. m \in With(b, "SCHEDULED")
      <4>1. rest[j] \in Scheduled
        BY <1>2, <1>7
      <4> QED BY <3>1, <4>1, ScheduledAre DEF RemindersOK
    <3>3. m \in With(b, "SCHEDULED")'
      <4>1. <<b, m>> # <<i, n>>
        BY <1>2, <1>7, <3>1
      <4>2. b # i => With(b, "SCHEDULED")' = With(b, "SCHEDULED")
        BY <1>4
      <4>3. b = i => With(b, "SCHEDULED")' = With(b, "SCHEDULED") \ {n} /\ m # n
        BY <1>4, <4>1
      <4> QED BY <3>2, <4>2, <4>3
    <3>4. rest[j] \in {b} \X With(b, "SCHEDULED")'
      <4>1. \A W : m \in W => <<b, m>> \in {b} \X W
        OBVIOUS
      <4> QED BY <3>1, <3>3, <4>1
    <3>5. \E x \in Bills : rest[j] \in {x} \X With(x, "SCHEDULED")'
      BY <3>4
    <3> QED BY <3>5 DEF Scheduled
  <2> QED BY <1>2, <1>7, <2>1 DEF RunReminds, Dispatching
<1> QED BY <1>2, <1>5, <1>6, <1>7

LEMMA MarkSentKeeps ==
  ASSUME RemindersOK, Served, Alone, NEW k \in Slots, MarkSent(k)
  PROVE  RemindersOK' /\ Moving(k, {Agenda})
<1>1. /\ call[k].at = "mark_sent" /\ Todo(k) = call[k].todo /\ UNCHANGED <<overdue, mails, unmarked>>
      /\ reminder' = [reminder EXCEPT ![Head(call[k].todo)[1]][Head(call[k].todo)[2]] = "SENT"]
      /\ GotoLeft(k, "next_reminder", Tail(call[k].todo))
  BY DEF MarkSent, Mark, At, Todo
<1>2. call[k].at \in Dispatching /\ call[k].todo # <<>>
  BY <1>1, ReminderPlaces DEF Dispatching
<1>3. call[k].doc = Agenda /\ RunMails(call[k].at, call[k].todo)
  BY <1>2, DispatchAt
<1>4. PICK i \in Bills, n \in Nat : Head(call[k].todo) = <<i, n>>
  BY <1>2, DispatchAt
<1>5. PICK status \in Statuses : status = "SENT"
  BY DEF Statuses
<1>6. PICK rest : rest = Tail(call[k].todo)
  OBVIOUS
<1>7. PICK place : place = "next_reminder"
  OBVIOUS
<1>8. Remarked(i, n, status) /\ status # "SCHEDULED"
  <2>1. Head(call[k].todo)[1] = i /\ Head(call[k].todo)[2] = n
    BY <1>4
  <2> QED BY <1>1, <1>5, <2>1 DEF Remarked
<1>9. call[k].at \in {"mark_sent", "mark_failed"}
  BY <1>1
<1>10. /\ n \in DOMAIN reminder[i] /\ OnReminders(place, rest) /\ RunMails(place, rest)'
       /\ RunReminds(call[k].at, call[k].todo) => n \in With(i, "SCHEDULED") /\ RunReminds(place, rest)'
  BY <1>4, <1>6, <1>7, <1>8, <1>9, MarkedRest
<1>11. /\ reminder' \in [Bills -> Seq(Statuses)]
       /\ \A b \in Bills : DOMAIN reminder'[b] = DOMAIN reminder[b]
       /\ \A b \in Bills \ {i} : \A s : With(b, s)' = With(b, s)
       /\ With(i, "SENT")' = With(i, "SENT") \cup {n}
       /\ With(i, "SCHEDULED")' = With(i, "SCHEDULED") \ {n}
  <2>1. ReminderTypes
    BY DEF RemindersOK
  <2>2. /\ reminder' \in [Bills -> Seq(Statuses)]
        /\ \A b \in Bills : DOMAIN reminder'[b] = DOMAIN reminder[b]
        /\ \A b \in Bills \ {i} : \A s : With(b, s)' = With(b, s)
        /\ With(i, status)' = With(i, status) \cup {n}
        /\ \A s : s # status => With(i, s)' = With(i, s) \ {n}
    BY <1>8, <1>10, <2>1, Marked
  <2> QED BY <1>5, <2>2
<1>12. ReminderTypes'
  BY <1>1, <1>11 DEF RemindersOK, ReminderTypes, Statuses
<1>13. mails[i] > 0
  BY <1>1, <1>3, <1>4 DEF RunMails
<1>14. (\A b \in Bills : DOMAIN reminder[b] \subseteq DOMAIN reminder'[b])
       /\ (\A b \in Bills : mails[b] > 0 => mails'[b] > 0) /\ \A b \in Bills : MailHeld(b)'
  BY <1>1, <1>11, <1>13 DEF RemindersOK, MailsHeld, MailHeld
<1>15. Onwards(k, place, rest)
  BY <1>1, <1>3, <1>6, <1>7 DEF Onwards
<1>16. ASSUME Minded(call[k].at, call[k].todo)
       PROVE  Minded(place, rest)'
  <2>1. /\ \A b \in Bills : BillHeld(b, IF b = i THEN 1 ELSE 0)
        /\ n \in With(i, "SCHEDULED") /\ RunReminds(place, rest)'
    <3>1. \A b \in Bills : Marks(call[k].at, call[k].todo, b) = IF b = i THEN 1 ELSE 0
      BY <1>1, <1>4 DEF Marks
    <3> QED BY <1>10, <1>16, <3>1 DEF Minded
  <2>2. ASSUME NEW b \in Bills
        PROVE  BillHeld(b, 0)'
    <3>1. CASE b # i
      <4>1. With(b, "SENT")' = With(b, "SENT") /\ With(b, "SCHEDULED")' = With(b, "SCHEDULED")
        BY <1>11, <3>1
      <4>2. BillHeld(b, 0)
        BY <2>1, <3>1
      <4> QED BY <1>1, <4>1, <4>2 DEF BillHeld
    <3>2. CASE b = i
      <4>1. PICK c \in Nat, u \in Nat, m \in Nat :
              /\ c = Cardinality(With(b, "SENT")) /\ u = unmarked[b] /\ m = mails[b]
        BY FewWith DEF RemindersOK, ReminderTypes
      <4>2. m = c + 1 + u
        <5>1. BillHeld(b, 1)
          BY <2>1, <3>2
        <5> QED BY <4>1, <5>1 DEF BillHeld
      <4>3. Cardinality(With(b, "SENT")') = c + 1
        <5>1. n \notin With(b, "SENT") /\ With(b, "SENT")' = With(b, "SENT") \cup {n}
          BY <1>11, <2>1, <3>2 DEF With
        <5>2. IsFiniteSet(With(b, "SENT"))
          BY FewWith DEF RemindersOK
        <5>3. PICK S : S = With(b, "SENT")
          OBVIOUS
        <5>4. Cardinality(S \cup {n}) = c + 1
          BY <4>1, <5>1, <5>2, <5>3, CountMore
        <5> QED BY <5>1, <5>3, <5>4
      <4>4. mails'[b] = m /\ unmarked'[b] = u
        BY <1>1, <4>1
      <4>5. m = (c + 1) + 0 + u
        BY <4>2
      <4>6. \A p, q \in With(b, "SCHEDULED")' : p = q
        BY <1>11, <2>1, <3>2 DEF BillHeld
      <4> QED BY <4>3, <4>4, <4>5, <4>6 DEF BillHeld
    <3> QED BY <3>1, <3>2
  <2>3. \A b \in Bills : Marks(place, rest, b) = 0
    BY <1>7 DEF Marks
  <2> QED BY <2>1, <2>2, <2>3 DEF Minded
<1> QED BY <1>10, <1>12, <1>14, <1>15, <1>16, ReminderGoesOn

LEMMA MarkFailedKeeps ==
  ASSUME RemindersOK, Served, Alone, NEW k \in Slots, MarkFailed(k)
  PROVE  RemindersOK' /\ Moving(k, {Agenda})
<1>1. /\ call[k].at = "mark_failed" /\ Todo(k) = call[k].todo /\ UNCHANGED <<overdue, mails, unmarked>>
      /\ reminder' = [reminder EXCEPT ![Head(call[k].todo)[1]][Head(call[k].todo)[2]] = "FAILED"]
      /\ GotoLeft(k, "next_reminder", Tail(call[k].todo))
  BY DEF MarkFailed, Mark, At, Todo
<1>2. call[k].at \in Dispatching /\ call[k].todo # <<>>
  BY <1>1, ReminderPlaces DEF Dispatching
<1>3. call[k].doc = Agenda
  BY <1>2, DispatchAt
<1>4. PICK i \in Bills, n \in Nat : Head(call[k].todo) = <<i, n>>
  BY <1>2, DispatchAt
<1>5. PICK status \in Statuses : status = "FAILED"
  BY DEF Statuses
<1>6. PICK rest : rest = Tail(call[k].todo)
  OBVIOUS
<1>7. PICK place : place = "next_reminder"
  OBVIOUS
<1>8. Remarked(i, n, status) /\ status # "SCHEDULED"
  <2>1. Head(call[k].todo)[1] = i /\ Head(call[k].todo)[2] = n
    BY <1>4
  <2> QED BY <1>1, <1>5, <2>1 DEF Remarked
<1>9. call[k].at \in {"mark_sent", "mark_failed"}
  BY <1>1
<1>10. /\ n \in DOMAIN reminder[i] /\ OnReminders(place, rest) /\ RunMails(place, rest)'
       /\ RunReminds(call[k].at, call[k].todo) => n \in With(i, "SCHEDULED") /\ RunReminds(place, rest)'
  BY <1>4, <1>6, <1>7, <1>8, <1>9, MarkedRest
<1>11. /\ reminder' \in [Bills -> Seq(Statuses)]
       /\ \A b \in Bills : DOMAIN reminder'[b] = DOMAIN reminder[b]
       /\ \A b \in Bills \ {i} : \A s : With(b, s)' = With(b, s)
       /\ With(i, "SENT")' = With(i, "SENT") \ {n}
       /\ With(i, "SCHEDULED")' = With(i, "SCHEDULED") \ {n}
  <2>1. ReminderTypes
    BY DEF RemindersOK
  <2>2. /\ reminder' \in [Bills -> Seq(Statuses)]
        /\ \A b \in Bills : DOMAIN reminder'[b] = DOMAIN reminder[b]
        /\ \A b \in Bills \ {i} : \A s : With(b, s)' = With(b, s)
        /\ \A s : s # status => With(i, s)' = With(i, s) \ {n}
    BY <1>8, <1>10, <2>1, Marked
  <2> QED BY <1>5, <2>2
<1>12. ReminderTypes'
  BY <1>1, <1>11 DEF RemindersOK, ReminderTypes, Statuses
<1>14. (\A b \in Bills : DOMAIN reminder[b] \subseteq DOMAIN reminder'[b])
       /\ (\A b \in Bills : mails[b] > 0 => mails'[b] > 0) /\ \A b \in Bills : MailHeld(b)'
  BY <1>1, <1>11 DEF RemindersOK, MailsHeld, MailHeld
<1>15. Onwards(k, place, rest)
  BY <1>1, <1>3, <1>6, <1>7 DEF Onwards
<1>16. ASSUME Minded(call[k].at, call[k].todo)
       PROVE  Minded(place, rest)'
  <2>1. /\ \A b \in Bills : BillHeld(b, 0)
        /\ n \in With(i, "SCHEDULED") /\ RunReminds(place, rest)'
    <3>1. \A b \in Bills : Marks(call[k].at, call[k].todo, b) = 0
      BY <1>1 DEF Marks
    <3> QED BY <1>10, <1>16, <3>1 DEF Minded
  <2>2. n \notin With(i, "SENT")
    BY <2>1 DEF With
  <2>3. ASSUME NEW b \in Bills
        PROVE  BillHeld(b, 0)'
    <3>1. With(b, "SENT")' = With(b, "SENT") /\ With(b, "SCHEDULED")' \subseteq With(b, "SCHEDULED")
      BY <1>11, <2>2
    <3> QED BY <1>1, <2>1, <3>1 DEF BillHeld
  <2>4. \A b \in Bills : Marks(place, rest, b) = 0
    BY <1>7 DEF Marks
  <2> QED BY <2>1, <2>3, <2>4 DEF Minded
<1> QED BY <1>10, <1>12, <1>14, <1>15, <1>16, ReminderGoesOn

-----------------------------------------------------------------------------
LEMMA MarkSentFailsKeeps ==
  ASSUME RemindersOK, Served, Alone, NEW k \in Slots, MarkSentFails(k)
  PROVE  RemindersOK' /\ Moving(k, {Agenda})
<1>1. /\ call[k].at = "mark_sent" /\ Goto(k, "mark_failed") /\ UNCHANGED <<overdue, reminder, mails>>
      /\ unmarked' = [unmarked EXCEPT ![Head(call[k].todo)[1]] = unmarked[Head(call[k].todo)[1]] + 1]
  BY DEF MarkSentFails, At, Todo
<1>2. call[k].at \in Dispatching /\ call[k].todo # <<>>
  BY <1>1, ReminderPlaces DEF Dispatching, Todo
<1>3. /\ call[k].doc = Agenda /\ call[k].todo \in Seq(Bills \X Nat)
      /\ RunMails(call[k].at, call[k].todo)
  BY <1>2, DispatchAt
<1>4. PICK i \in Bills, n \in Nat : Head(call[k].todo) = <<i, n>>
  BY <1>2, DispatchAt
<1>5. /\ unmarked' \in [Bills -> Nat] /\ unmarked'[i] = unmarked[i] + 1
      /\ \A b \in Bills \ {i} : unmarked'[b] = unmarked[b]
  <2>1. Head(call[k].todo)[1] = i
    BY <1>4
  <2>2. unmarked \in [Bills -> Nat]
    BY DEF RemindersOK, ReminderTypes
  <2>3. unmarked' = [unmarked EXCEPT ![i] = unmarked[i] + 1]
    BY <1>1, <2>1
  <2> QED BY <2>2, <2>3
<1>6. (\A b, s : With(b, s)' = With(b, s)) /\ Scheduled' = Scheduled
  <2>1. \A b, s : With(b, s)' = With(b, s)
    BY <1>1 DEF With
  <2> QED BY <2>1 DEF Scheduled
<1>7. ReminderTypes'
  BY <1>1, <1>5 DEF RemindersOK, ReminderTypes
<1>8. (\A b \in Bills : DOMAIN reminder[b] \subseteq DOMAIN reminder'[b])
      /\ (\A b \in Bills : mails[b] > 0 => mails'[b] > 0) /\ \A b \in Bills : MailHeld(b)'
  BY <1>1, <1>6 DEF RemindersOK, MailsHeld, MailHeld
<1>9. PICK place : place = "mark_failed"
  OBVIOUS
<1>10. PICK rest : rest = call[k].todo
  OBVIOUS
<1>11. Onwards(k, place, rest) /\ OnReminders(place, rest)
  BY <1>1, <1>2, <1>3, <1>9, <1>10 DEF Onwards, OnReminders, Dispatching
<1>12. RunMails(place, rest)'
  BY <1>1, <1>2, <1>3, <1>9, <1>10 DEF RunMails, Dispatching
<1>13. ASSUME Minded(call[k].at, call[k].todo)
       PROVE  Minded(place, rest)'
  <2>1. /\ \A b \in Bills : BillHeld(b, IF b = i THEN 1 ELSE 0)
        /\ RunReminds(call[k].at, call[k].todo)
    <3>1. \A b \in Bills : Marks(call[k].at, call[k].todo, b) = IF b = i THEN 1 ELSE 0
      BY <1>1, <1>4 DEF Marks
    <3> QED BY <1>13, <3>1 DEF Minded
  <2>2. ASSUME NEW b \in Bills
        PROVE  BillHeld(b, 0)'
    <3>1. CASE b # i
      <4>1. BillHeld(b, 0)
        BY <2>1, <3>1
      <4> QED BY <1>1, <1>5, <1>6, <3>1, <4>1 DEF BillHeld
    <3>2. CASE b = i
      <4>1. PICK c \in Nat, u \in Nat, m \in Nat :
              /\ c = Cardinality(With(b, "SENT")) /\ u = unmarked[b] /\ m = mails[b]
        BY FewWith DEF RemindersOK, ReminderTypes
      <4>2. m = c + 1 + u
        <5>1. BillHeld(b, 1)
          BY <2>1, <3>2
        <5> QED BY <4>1, <5>1 DEF BillHeld
      <4>3. mails'[b] = m /\ unmarked'[b] = u + 1 /\ Cardinality(With(b, "SENT")') = c
        BY <1>1, <1>5, <1>6, <3>2, <4>1
      <4>4. m = c + 0 + (u + 1)
        BY <4>2
      <4>5. \A p, q \in With(b, "SCHEDULED")' : p = q
        BY <1>6, <2>1 DEF BillHeld
      <4> QED BY <4>3, <4>4, <4>5 DEF BillHeld
    <3> QED BY <3>1, <3>2
  <2>3. RunReminds(place, rest)'
    BY <1>1, <1>6, <1>9, <1>10, <2>1 DEF RunReminds, Dispatching
  <2>4. \A b \in Bills : Marks(place, rest, b) = 0
    BY <1>9 DEF Marks
  <2> QED BY <2>2, <2>3, <2>4 DEF Minded
<1> QED BY <1>7, <1>8, <1>11, <1>12, <1>13, ReminderGoesOn

LEMMA RemindersDoneKeeps ==
  ASSUME RemindersOK, Served, Alone, NEW k \in Slots, RemindersDone(k)
  PROVE  RemindersOK' /\ Moving(k, {Agenda})
<1>1. call[k].at \in {"next_bill", "next_reminder"} /\ Leave(k) /\ UNCHANGED reminderVars
  BY DEF RemindersDone
<1>2. call[k].doc = Agenda
  BY <1>1, ReminderPlaces DEF Dispatching
<1>3. Moved(k, Free, {Agenda})
  <2>1. call[k].doc \in {Agenda}
    BY <1>2
  <2> QED BY <1>1, <2>1, LeaveMoves
<1>4. UNCHANGED <<reminder, mails, unmarked, overdue>>
  BY <1>1 DEF reminderVars
<1>5. PICK r : r = Free
  OBVIOUS
<1>6. Moved(k, r, {Agenda}) /\ r.doc # Agenda /\ r.at = "free"
  BY <1>3, <1>5, FreePlaced, Kinds
<1>7. PICK at, todo : at = r.at /\ todo = r.todo
  OBVIOUS
<1>8. Minded(call[k].at, call[k].todo) => Minded(at, todo)'
  <2>1. Minded(call[k].at, call[k].todo) => Minded(at, todo)
    BY <1>1, <1>6, <1>7 DEF Minded, Marks, RunReminds, Dispatching
  <2> QED BY <1>4, <2>1, ReminderReads
<1>9. ReminderTypes' /\ (\A i \in Bills : DOMAIN reminder[i] \subseteq DOMAIN reminder'[i])
      /\ (\A i \in Bills : mails[i] > 0 => mails'[i] > 0) /\ \A i \in Bills : MailHeld(i)'
  BY <1>4, ReminderReads
<1> QED BY <1>2, <1>6, <1>7, <1>8, <1>9, RemindersGo

\* Other steps leave the reminders; a bill that is paid too.
LEMMA RemindersAside ==
  ASSUME RemindersOK, Served, Served', UNCHANGED <<reminder, mails, unmarked>>, overdue' \subseteq overdue,
         Quiet({Agenda})
  PROVE  RemindersOK'
<1>1. (\A b, s : With(b, s)' = With(b, s)) /\ Scheduled' = Scheduled
  <2>1. \A b, s : With(b, s)' = With(b, s)
    BY DEF With
  <2> QED BY <2>1 DEF Scheduled
<1>2. /\ InFlight(Agenda)' = InFlight(Agenda) /\ \A j \in InFlight(Agenda) : call'[j] = call[j]
      /\ Undisturbed(Agenda)' => Undisturbed(Agenda)
  BY DEF Quiet, Undisturbed
<1>3. \A j \in Slots : /\ call[j].at = "mark_sent" => j \in InFlight(Agenda)
                       /\ call'[j].at = "mark_sent" => j \in InFlight(Agenda)'
  <2>1. \A p : Placed(p) /\ p.at = "mark_sent" => p.doc = Agenda
    BY PlacesOf DEF ForReminders
  <2> QED BY <2>1 DEF Served, InFlight
<1>4. \A i : Marking(i)' = Marking(i)
  BY <1>2, <1>3 DEF Marking, At, Todo
<1>5. ReminderTypes'
  BY DEF RemindersOK, ReminderTypes
<1>6. MailsHeld'
  <2>1. ASSUME NEW j \in InFlight(Agenda)'
        PROVE  RunMails(call[j].at, Todo(j))'
    <3>1. j \in InFlight(Agenda) /\ call'[j] = call[j]
      BY <1>2
    <3>2. RunMails(call[j].at, Todo(j))
      BY <3>1 DEF RemindersOK, MailsHeld
    <3> QED BY <3>1, <3>2 DEF RunMails, Todo
  <2> QED BY <1>1, <2>1 DEF RemindersOK, MailsHeld, MailHeld
<1>7. RemindersHeld'
  <2> SUFFICES ASSUME Undisturbed(Agenda)'
               PROVE  /\ \A i \in Bills : BillHeld(i, Cardinality(Marking(i)))'
                      /\ \A j \in InFlight(Agenda)' : RunReminds(call[j].at, Todo(j))'
    BY DEF RemindersHeld
  <2>1. /\ \A i \in Bills : BillHeld(i, Cardinality(Marking(i)))
        /\ \A j \in InFlight(Agenda) : RunReminds(call[j].at, Todo(j))
    BY <1>2 DEF RemindersOK, RemindersHeld
  <2>2. \A i \in Bills : BillHeld(i, Cardinality(Marking(i)))'
    BY <1>1, <1>4, <2>1 DEF BillHeld
  <2>3. \A j \in InFlight(Agenda)' : RunReminds(call[j].at, Todo(j))'
    BY <1>1, <1>2, <2>1 DEF RunReminds, Todo
  <2> QED BY <2>2, <2>3
<1> QED BY <1>5, <1>6, <1>7 DEF RemindersOK

LEMMA PayBillKeeps ==
  ASSUME RemindersOK, Served, Alone, NEW k \in Slots, NEW i \in Bills, PayBill(k, i)
  PROVE  RemindersOK' /\ Moving(k, {Agenda} \cup Bills)
<1>1. AtOnce(k, i) /\ overdue' \subseteq overdue /\ UNCHANGED <<reminder, mails, unmarked>>
  BY DEF PayBill
<1>2. Moving(k, {i}) /\ call' = call
  <2>1. i \in {i}
    OBVIOUS
  <2> QED BY <1>1, <2>1, AtOnceMoving
<1>3. Quiet({Agenda})
  <2>1. {Agenda} \cap {i} = {} /\ None \notin {Agenda}
    BY Kinds
  <2> QED BY <1>2, <2>1, MovingAway
<1>4. Served'
  BY <1>2 DEF Served
<1>5. Moving(k, {Agenda} \cup Bills)
  <2>1. {i} \subseteq {Agenda} \cup Bills
    OBVIOUS
  <2> QED BY <1>2, <2>1, MovingWider
<1> QED BY <1>1, <1>3, <1>4, <1>5, RemindersAside

LEMMA RemindersStepKeeps ==
  ASSUME RemindersOK, Served, Alone, NEW k \in Slots, RemindersStep(k)
  PROVE  RemindersOK' /\ Moving(k, {Agenda} \cup Bills)
<1>1. ASSUME RemindersOK' /\ Moving(k, {Agenda})
      PROVE  RemindersOK' /\ Moving(k, {Agenda} \cup Bills)
  <2>1. {Agenda} \subseteq {Agenda} \cup Bills
    OBVIOUS
  <2> QED BY <1>1, <2>1, MovingWider
<1>2. CASE Generate(k)
  BY <1>1, <1>2, GenerateKeeps
<1>3. CASE FindScheduled(k)
  BY <1>1, <1>3, FindScheduledKeeps
<1>4. CASE InsertReminder(k)
  BY <1>1, <1>4, InsertReminderKeeps
<1>5. CASE Dispatch(k)
  BY <1>1, <1>5, DispatchKeeps
<1>6. CASE Send(k)
  BY <1>1, <1>6, SendKeeps
<1>7. CASE SendFails(k)
  BY <1>1, <1>7, SendFailsKeeps
<1>8. CASE MarkSent(k)
  BY <1>1, <1>8, MarkSentKeeps
<1>9. CASE MarkSentFails(k)
  BY <1>1, <1>9, MarkSentFailsKeeps
<1>10. CASE MarkFailed(k)
  BY <1>1, <1>10, MarkFailedKeeps
<1>11. CASE RemindersDone(k)
  BY <1>1, <1>11, RemindersDoneKeeps
<1>12. CASE \E i \in Bills : PayBill(k, i)
  BY <1>12, PayBillKeeps
<1> QED BY <1>2, <1>3, <1>4, <1>5, <1>6, <1>7, <1>8, <1>9, <1>10, <1>11, <1>12 DEF RemindersStep

LEMMA RemindersStart == CallsInit /\ RemindersInit => RemindersOK
<1> SUFFICES ASSUME CallsInit, RemindersInit PROVE RemindersOK
  OBVIOUS
<1>1. InFlight(Agenda) = {} /\ \A i : Marking(i) = {}
  BY Kinds DEF CallsInit, InFlight, Free, Marking, At
<1>2. ReminderTypes
  BY DEF RemindersInit, ReminderTypes
<1>3. \A i \in Bills : \A s : With(i, s) = {}
  BY DEF RemindersInit, With
<1>4. MailsHeld
  BY <1>1, <1>3 DEF MailsHeld, MailHeld
<1>5. RemindersHeld
  <2>1. Cardinality({}) = 0
    BY FS_EmptySet
  <2>2. ASSUME NEW i \in Bills
        PROVE  BillHeld(i, 0)
    <3>1. With(i, "SCHEDULED") = {} /\ Cardinality(With(i, "SENT")) = 0
      BY <1>3, <2>1
    <3>2. mails[i] = 0 /\ unmarked[i] = 0
      BY DEF RemindersInit
    <3> QED BY <3>1, <3>2 DEF BillHeld
  <2> QED BY <1>1, <2>1, <2>2 DEF RemindersHeld
<1> QED BY <1>2, <1>4, <1>5 DEF RemindersOK

LEMMA RemindersCrash ==
  ASSUME RemindersOK, Served, Crash, UNCHANGED reminderVars
  PROVE  RemindersOK'
<1>1. /\ InFlight(Agenda)' = {} /\ crossed' = crossed /\ cut \subseteq cut'
      /\ Agenda \in cut' <=> Agenda \in cut \/ InFlight(Agenda) # {}
  BY CrashClears, Kinds
<1>2. UNCHANGED <<reminder, mails, unmarked, overdue>>
  BY DEF reminderVars
<1>3. (\A b, s : With(b, s)' = With(b, s)) /\ Scheduled' = Scheduled
  <2>1. \A b, s : With(b, s)' = With(b, s)
    BY <1>2 DEF With
  <2> QED BY <2>1 DEF Scheduled
<1>4. ReminderTypes' /\ MailsHeld'
  BY <1>1, <1>2, <1>3 DEF RemindersOK, ReminderTypes, MailsHeld, MailHeld
<1>5. RemindersHeld'
  <2> SUFFICES ASSUME Undisturbed(Agenda)'
               PROVE  \A i \in Bills : BillHeld(i, Cardinality(Marking(i)))'
    BY <1>1 DEF RemindersHeld
  <2>1. Undisturbed(Agenda) /\ InFlight(Agenda) = {}
    BY <1>1 DEF Undisturbed
  <2>2. \A i : Marking(i) = {}
    <3>1. \A p : Placed(p) /\ p.at = "mark_sent" => p.doc = Agenda
      BY PlacesOf DEF ForReminders
    <3> QED BY <2>1, <3>1 DEF Served, InFlight, Marking, At
  <2>3. \A i : Marking(i)' = {}
    BY DEF Crash, Free, Marking, At
  <2>4. \A i \in Bills : BillHeld(i, Cardinality({}))
    BY <2>1, <2>2 DEF RemindersOK, RemindersHeld
  <2> QED BY <1>2, <1>3, <2>3, <2>4 DEF BillHeld
<1> QED BY <1>4, <1>5 DEF RemindersOK

LEMMA RemindersAreKept == RemindersOK => RemindedOnce
<1> SUFFICES ASSUME RemindersOK PROVE RemindedOnce
  OBVIOUS
<1>1. \A i \in Bills : With(i, "SENT") # {} => mails[i] > 0
  BY DEF RemindersOK, MailsHeld, MailHeld
<1>2. ASSUME Undisturbed(Agenda), NEW i \in Bills
      PROVE  /\ Cardinality(With(i, "SCHEDULED")) <= 1
             /\ mails[i] = Cardinality(With(i, "SENT")) + Cardinality(Marking(i)) + unmarked[i]
  <2>1. BillHeld(i, Cardinality(Marking(i)))
    BY <1>2 DEF RemindersOK, RemindersHeld
  <2>2. PICK S : S = With(i, "SCHEDULED")
    OBVIOUS
  <2>3. Cardinality(S) <= 1
    <3>1. S = {} \/ \E x \in S : S = {x}
      BY <2>1, <2>2 DEF BillHeld
    <3>2. Cardinality({}) = 0 /\ \A x : Cardinality({x}) = 1
      BY FS_EmptySet, FS_Singleton
    <3>3. Cardinality(S) = 0 \/ Cardinality(S) = 1
      BY <3>1, <3>2
    <3> QED BY <3>3
  <2> QED BY <2>1, <2>2, <2>3 DEF BillHeld
<1> QED BY <1>1, <1>2 DEF RemindedOnce

-----------------------------------------------------------------------------
(***************************************************************************)
(* Terminals.  What an event makes of the loads of a page.                 *)
(***************************************************************************)
LEMMA Outdated ==
  ASSUME NEW loads \in Seq(Loads), NEW c \in CartsOnShow, NEW x
  PROVE  /\ Outdate(loads, c, x) \in Seq(Loads)
         /\ Outdate(loads, c, x) = <<>> <=> loads = <<>>
         /\ LoadsSay(Outdate(loads, c, x), c, x)
         /\ \A d, v : LoadsSay(loads, d, v) => LoadsSay(Outdate(loads, c, x), d, v)
<1> DEFINE late == Outdate(loads, c, x)
<1>1. /\ DOMAIN loads = 1..Len(loads) /\ Len(loads) \in Nat /\ \A n \in DOMAIN loads : loads[n] \in Loads
  <2>1. \A X : \A s \in Seq(X) : DOMAIN s = 1..Len(s) /\ Len(s) \in Nat /\ \A n \in DOMAIN s : s[n] \in X
    OBVIOUS
  <2> QED BY <2>1
<1>2. DOMAIN late = DOMAIN loads /\ \A n \in DOMAIN loads :
        late[n] = IF loads[n].read /\ loads[n].snap[c] # x
                  THEN [loads[n] EXCEPT !.newer = @ \cup {c}] ELSE loads[n]
  BY DEF Outdate
<1>3. ASSUME NEW n \in DOMAIN loads
      PROVE  /\ late[n] \in Loads /\ late[n].read = loads[n].read /\ late[n].snap = loads[n].snap
             /\ late[n].newer = IF loads[n].read /\ loads[n].snap[c] # x THEN loads[n].newer \cup {c}
                                ELSE loads[n].newer
  <2>1. loads[n] \in Loads
    BY <1>1
  <2>2. \A l \in Loads : LET m == [l EXCEPT !.newer = @ \cup {c}]
                         IN m \in Loads /\ m.read = l.read /\ m.snap = l.snap /\ m.newer = l.newer \cup {c}
    BY DEF Loads
  <2> QED BY <1>2, <2>1, <2>2
<1> HIDE DEF late
<1>4. late \in Seq(Loads)
  <2>1. late \in [1..Len(loads) -> Loads]
    <3>1. late = [n \in DOMAIN loads |-> late[n]]
      BY <1>2 DEF late, Outdate
    <3> QED BY <1>1, <1>3, <3>1
  <2> QED BY <1>1, <2>1
<1>5. late = <<>> <=> loads = <<>>
  <2>1. \A X : \A s \in Seq(X) : s = <<>> <=> DOMAIN s = {}
    OBVIOUS
  <2> QED BY <1>2, <1>4, <2>1
<1>6. LoadsSay(late, c, x) /\ \A d, v : LoadsSay(loads, d, v) => LoadsSay(late, d, v)
  BY <1>2, <1>3 DEF LoadsSay
<1> QED BY <1>4, <1>5, <1>6 DEF late

\* What all the events of a list, one after another, make of them.
Late(loads, events) == FoldLeft(LAMBDA list, e : Outdate(list, e.cart, e.sight), loads, events)

Outdates(g, loads, events) ==
  /\ g \in [0..Len(events) -> Seq(Loads)]
  /\ g[0] = loads /\ g[Len(events)] = Late(loads, events)
  /\ \A n \in 1..Len(events) : g[n] = Outdate(g[n - 1], events[n].cart, events[n].sight)

LEMMA LateRun ==
  ASSUME NEW loads \in Seq(Loads), NEW events \in Seq(Sights)
  PROVE  \E g : Outdates(g, loads, events)
<1> DEFINE Acc == Seq(Loads)
           step == [p \in Acc \X Sights |-> Outdate(p[1], p[2].cart, p[2].sight)]
           Recurs(h) == h = [s \in SUBSET DOMAIN events |->
                               IF s = {} THEN loads
                               ELSE Outdate(h[s \ {Max(s)}], events[Max(s)].cart, events[Max(s)].sight)]
           it == CHOOSE h : Recurs(h)
<1>1. Len(events) \in Nat /\ DOMAIN events = 1..Len(events) /\ \A n \in DOMAIN events : events[n] \in Sights
  BY LenProperties
<1>2. ASSUME NEW p \in Acc, NEW e \in Sights
      PROVE  Outdate(p, e.cart, e.sight) \in Acc
  <2>1. e.cart \in CartsOnShow
    BY DEF Sights
  <2> QED BY <2>1, Outdated
<1>3. step \in [Acc \X Sights -> Acc] /\ \A p \in Acc, e \in Sights : step[<<p, e>>] = Outdate(p, e.cart, e.sight)
  BY <1>2
<1>4. loads \in Acc
  OBVIOUS
<1> HIDE DEF Acc, step
<1>5. Folding(Acc, Sights, loads, events, step)
  BY <1>3, <1>4 DEF Folding
<1>6. \E h : Recurs(h)
  <2>0. PICK h \in [SUBSET DOMAIN events -> Acc] : FoldedBy(step, loads, events, h)
    BY <1>5, FoldClosed
  <2>1. h = [s \in SUBSET DOMAIN events |-> FoldStep(step, loads, events, h, s)]
    BY <2>0 DEF FoldedBy
  <2>2. ASSUME NEW s \in SUBSET DOMAIN events, s # {}
        PROVE  FoldStep(step, loads, events, h, s)
                 = Outdate(h[s \ {Max(s)}], events[Max(s)].cart, events[Max(s)].sight)
    <3>1. Max(s) \in DOMAIN events
      BY <1>1, <2>2, IndexIn
    <3>2. h[s \ {Max(s)}] \in Acc /\ events[Max(s)] \in Sights
      BY <1>1, <2>0, <3>1
    <3> QED BY <1>3, <2>2, <3>2 DEF FoldStep
  <2>3. FoldStep(step, loads, events, h, {}) = loads
    BY DEF FoldStep
  <2>4. Recurs(h)
    BY <2>1, <2>2, <2>3
  <2> QED BY <2>4
<1>7. Recurs(it)
  BY <1>6
<1>8. Late(loads, events) = it[DOMAIN events]
  BY DEF Late, FoldLeft, MapThenFoldSet
<1> HIDE DEF it
<1>9. it[{}] = loads
  BY <1>7
<1>10. ASSUME NEW s \in SUBSET DOMAIN events, s # {}, it[s \ {Max(s)}] \in Acc
       PROVE  it[s] = step[<<it[s \ {Max(s)}], events[Max(s)]>>]
  <2>1. Max(s) \in DOMAIN events
    BY <1>1, <1>10, IndexIn
  <2>2. it[s] = Outdate(it[s \ {Max(s)}], events[Max(s)].cart, events[Max(s)].sight)
    BY <1>7, <1>10
  <2> QED BY <1>1, <1>3, <1>10, <2>1, <2>2
<1>11. PICK g \in [0..Len(events) -> Acc] :
         /\ g[0] = loads /\ g[Len(events)] = it[DOMAIN events]
         /\ \A n \in 1..Len(events) : g[n] = step[<<g[n - 1], events[n]>>]
  <2>1. Follows(Acc, loads, events, step, it)
    BY <1>9, <1>10 DEF Follows
  <2> QED BY <1>5, <2>1, FoldRuns
<1>12. \A n \in 1..Len(events) : g[n] = Outdate(g[n - 1], events[n].cart, events[n].sight)
  <2> TAKE n \in 1..Len(events)
  <2>1. g[n - 1] \in Acc /\ events[n] \in Sights
    BY <1>1, <1>11
  <2> QED BY <1>3, <1>11, <2>1
<1>13. Outdates(g, loads, events)
  BY <1>8, <1>11, <1>12 DEF Acc, Outdates
<1> QED BY <1>13

\* A load that is left unmarked agrees with every event.
LateUpto(list, loads, events, n) ==
  /\ list \in Seq(Loads) /\ (list = <<>> <=> loads = <<>>)
  /\ \A d, v : LoadsSay(loads, d, v) => LoadsSay(list, d, v)
  /\ \A m \in 1..n : LoadsSay(list, events[m].cart, events[m].sight)

LEMMA LateSays ==
  ASSUME NEW loads \in Seq(Loads), NEW events \in Seq(Sights)
  PROVE  LateUpto(Late(loads, events), loads, events, Len(events))
<1>1. PICK g : Outdates(g, loads, events)
  BY LateRun
<1>2. Len(events) \in Nat /\ DOMAIN events = 1..Len(events) /\ \A n \in DOMAIN events : events[n] \in Sights
  BY LenProperties
<1> DEFINE Right(n) == LateUpto(g[n], loads, events, n)
           Wrong == {n \in 0..Len(events) : ~Right(n)}
<1>3. Right(0)
  BY <1>1 DEF LateUpto, Outdates
<1>4. ASSUME NEW n \in 1..Len(events), Right(n - 1)
      PROVE  Right(n)
  <2>1. PICK e \in Sights : e = events[n]
    BY <1>2
  <2>2. PICK c \in CartsOnShow, x \in Nat : c = e.cart /\ x = e.sight
    BY DEF Sights
  <2>3. PICK list : list = g[n - 1]
    OBVIOUS
  <2>4. g[n] = Outdate(list, c, x)
    BY <1>1, <2>1, <2>2, <2>3 DEF Outdates
  <2>5. LateUpto(list, loads, events, n - 1)
    BY <1>4, <2>3
  <2>6. /\ g[n] \in Seq(Loads) /\ (g[n] = <<>> <=> list = <<>>)
        /\ LoadsSay(g[n], c, x) /\ \A d, v : LoadsSay(list, d, v) => LoadsSay(g[n], d, v)
    BY <2>4, <2>5, Outdated DEF LateUpto
  <2>7. \A m \in 1..n : m = n \/ m \in 1..(n - 1)
    BY <1>2
  <2>8. \A m \in 1..n : LoadsSay(g[n], events[m].cart, events[m].sight)
    BY <2>1, <2>2, <2>5, <2>6, <2>7 DEF LateUpto
  <2> QED BY <2>5, <2>6, <2>8 DEF LateUpto
<1> HIDE DEF Right
<1>5. Wrong = {}
  <2> SUFFICES ASSUME Wrong # {} PROVE FALSE
    OBVIOUS
  <2>1. PICK n \in Wrong : \A m \in Wrong : n <= m
    <3>1. Wrong \subseteq Nat
      BY <1>2
    <3> HIDE DEF Wrong
    <3> QED BY <3>1, LeastElement
  <2>2. n \in 1..Len(events) /\ n - 1 \in 0..Len(events) /\ ~(n <= n - 1)
    BY <1>2, <1>3, <2>1
  <2>3. Right(n - 1)
    BY <2>1, <2>2
  <2> QED BY <1>4, <2>1, <2>2, <2>3
<1>6. Right(Len(events))
  BY <1>2, <1>5
<1> QED BY <1>1, <1>6 DEF Right, Outdates

(***************************************************************************)
(* What the steps of a page make of what it has.                           *)
(***************************************************************************)
LEMMA SilentTuned ==
  ASSUME NEW events, NEW loads, NEW unseen, NEW screen, NEW c, NEW v,
         Silent(events, c), LoadsSay(loads, c, v), loads = <<>> /\ c \notin unseen => screen[c] = v
  PROVE  Tuned(events, loads, unseen, screen, c, v)
BY DEF Tuned, Silent, LastSays

LEMMA TunedEvent ==
  ASSUME NEW events \in Seq(Sights), NEW e \in Sights, NEW loads, NEW unseen, NEW screen, NEW c, NEW v,
         IF e.cart = c THEN e.sight = v ELSE Tuned(events, loads, unseen, screen, c, v)
  PROVE  Tuned(Append(events, e), loads, unseen, screen, c, v)
<1>1. \A X : \A s \in Seq(X) : \A x : /\ DOMAIN Append(s, x) = DOMAIN s \cup {Len(s) + 1}
                                  /\ Append(s, x)[Len(s) + 1] = x
                                  /\ \A i \in DOMAIN s : Append(s, x)[i] = s[i] /\ i < Len(s) + 1 /\ ~(Len(s) + 1 <= i)
  OBVIOUS
<1>2. PICK more, l : more = Append(events, e) /\ l = Len(events) + 1
  OBVIOUS
<1>3. /\ DOMAIN more = DOMAIN events \cup {l} /\ more[l] = e
      /\ \A i \in DOMAIN events : more[i] = events[i] /\ i # l /\ ~(l <= i)
  BY <1>1, <1>2
<1>4. CASE e.cart = c
  <2>1. LastSays(more, c, v)
    BY <1>3, <1>4 DEF LastSays
  <2>2. ~Silent(more, c)
    BY <1>3, <1>4 DEF Silent
  <2> QED BY <1>2, <2>1, <2>2 DEF Tuned
<1>5. CASE e.cart # c
  <2>1. LastSays(more, c, v)
    BY <1>3, <1>5 DEF LastSays, Tuned
  <2>2. Silent(more, c) => Silent(events, c)
    BY <1>3 DEF Silent
  <2> QED BY <1>2, <1>5, <2>1, <2>2 DEF Tuned
<1> QED BY <1>4, <1>5

LEMMA TunedMissed ==
  ASSUME NEW events, NEW loads \in Seq(Loads), NEW unseen, NEW screen, NEW d \in CartsOnShow, NEW x,
         NEW c, NEW v, Silent(events, d),
         IF c = d THEN x = v ELSE Tuned(events, loads, unseen, screen, c, v)
  PROVE  Tuned(events, Outdate(loads, d, x), unseen \cup {d}, screen, c, v)
<1>1. PICK late : late = Outdate(loads, d, x)
  OBVIOUS
<1>2. /\ late = <<>> <=> loads = <<>>
      /\ LoadsSay(late, d, x)
      /\ LoadsSay(loads, c, v) => LoadsSay(late, c, v)
  BY <1>1, Outdated
<1> QED BY <1>1, <1>2 DEF Tuned, Silent, LastSays

LEMMA TunedCut ==
  ASSUME NEW events \in Seq(Sights), NEW loads \in Seq(Loads), NEW unseen, NEW screen, NEW c, NEW v,
         Tuned(events, loads, unseen, screen, c, v)
  PROVE  Tuned(<<>>, Late(loads, events), unseen \cup {e.cart : e \in ToSet(events)}, screen, c, v)
<1>1. PICK late : late = Late(loads, events)
  OBVIOUS
<1>2. LateUpto(late, loads, events, Len(events))
  BY <1>1, LateSays
<1>3. DOMAIN events = 1..Len(events) /\ Len(events) \in Nat /\ \A n \in DOMAIN events : events[n] \in ToSet(events)
  BY LenProperties DEF ToSet
<1>4. Silent(<<>>, c)
  BY DEF Silent
<1>5. CASE Silent(events, c)
  <2>1. LoadsSay(late, c, v) /\ (late = <<>> <=> loads = <<>>)
    BY <1>2, <1>5 DEF LateUpto, Tuned
  <2> QED BY <1>1, <1>4, <1>5, <2>1, SilentTuned DEF Tuned
<1>6. CASE ~Silent(events, c)
  <2> DEFINE S == {n \in DOMAIN events : events[n].cart = c}
  <2>1. PICK n \in S : \A m \in S : m <= n
    <3>1. S \in SUBSET Nat /\ S # {} /\ IsFiniteSet(S)
      <4>1. IsFiniteSet(DOMAIN events)
        <5>1. \A n \in Nat : IsFiniteSet(1..n)
          BY FS_Interval
        <5> QED BY <1>3, <5>1
      <4>2. S \subseteq DOMAIN events /\ S # {}
        BY <1>6 DEF Silent
      <4> QED BY <1>3, <4>1, <4>2, FS_Subset
    <3> HIDE DEF S
    <3> QED BY <3>1, Greatest
  <2>2. n \in DOMAIN events /\ events[n].cart = c /\ events[n].sight = v
    BY <2>1 DEF Tuned, LastSays
  <2>3. LoadsSay(late, c, v)
    BY <1>2, <1>3, <2>2 DEF LateUpto
  <2>4. c \in {e.cart : e \in ToSet(events)}
    BY <1>3, <2>2
  <2> QED BY <1>1, <1>4, <2>3, <2>4, SilentTuned
<1> QED BY <1>5, <1>6

\* The first event is received.
LEMMA EventHeard ==
  ASSUME NEW events \in Seq(Sights), events # <<>>, NEW c, NEW v, LastSays(events, c, v)
  PROVE  /\ Head(events) \in Sights /\ Tail(events) \in Seq(Sights) /\ LastSays(Tail(events), c, v)
         /\ Head(events).cart = c /\ Silent(Tail(events), c) => Head(events).sight = v
         /\ Head(events).cart # c /\ Silent(Tail(events), c) => Silent(events, c)
<1>1. PICK rest : rest = Tail(events)
  OBVIOUS
<1>2. /\ Head(events) \in Sights /\ Head(events) = events[1] /\ 1 \in DOMAIN events /\ rest \in Seq(Sights)
      /\ \A n \in DOMAIN rest : n \in Nat /\ n + 1 # 1 /\ n + 1 \in DOMAIN events /\ rest[n] = events[n + 1]
  BY <1>1, Headed
<1>3. \A n \in DOMAIN events : n = 1 \/ \E m \in DOMAIN rest : m \in Nat /\ n = m + 1 /\ rest[m] = events[n]
  <2>1. \A X : \A s \in Seq(X) : s # <<>> => \A n \in DOMAIN s : n = 1 \/ (n - 1 \in DOMAIN Tail(s)
                                 /\ n - 1 \in Nat /\ n = (n - 1) + 1 /\ Tail(s)[n - 1] = s[n])
    OBVIOUS
  <2> QED BY <1>1, <2>1
<1>4. \A n, m \in Nat : n + 1 <= m + 1 <=> n <= m
  OBVIOUS
<1>5. LastSays(rest, c, v)
  <2> SUFFICES ASSUME NEW n \in DOMAIN rest, rest[n].cart = c, \A m \in DOMAIN rest : rest[m].cart = c => m <= n
               PROVE  rest[n].sight = v
    BY DEF LastSays
  <2>1. n + 1 \in DOMAIN events /\ rest[n] = events[n + 1] /\ n \in Nat
    BY <1>2
  <2>2. ASSUME NEW m \in DOMAIN events, events[m].cart = c
        PROVE  m <= n + 1
    <3>1. CASE m = 1
      BY <2>1, <3>1
    <3>2. CASE \E i \in DOMAIN rest : i \in Nat /\ m = i + 1 /\ rest[i] = events[m]
      BY <1>4, <2>1, <2>2, <3>2
    <3> QED BY <1>3, <3>1, <3>2
  <2> QED BY <2>1, <2>2 DEF LastSays
<1>6. ASSUME Silent(rest, c)
      PROVE  /\ Head(events).cart = c => Head(events).sight = v
             /\ Head(events).cart # c => Silent(events, c)
  <2>1. \A n \in DOMAIN events : events[n].cart = c => n = 1
    BY <1>3, <1>6 DEF Silent
  <2>2. 1 <= 1
    OBVIOUS
  <2> QED BY <1>2, <2>1, <2>2 DEF LastSays, Silent
<1> QED BY <1>1, <1>2, <1>5, <1>6

LEMMA TunedCart ==
  ASSUME NEW events \in Seq(Sights), events # <<>>, NEW loads \in Seq(Loads), NEW unseen,
         NEW screen \in [CartsOnShow -> Nat], NEW c \in CartsOnShow, NEW v,
         Tuned(events, loads, unseen, screen, c, v), NEW d, d = Head(events).cart,
         NEW x, x = Head(events).sight
  PROVE  /\ Tuned(Tail(events), Outdate(loads, d, x), unseen \ {d}, [screen EXCEPT ![d] = x], c, v)
         /\ \A more : LoadsSay(more, c, v) /\ more # <<>> => Tuned(Tail(events), more, unseen, screen, c, v)
         /\ Silent(Tail(events), c) => LoadsSay(Outdate(loads, d, x), c, v)
<1>1. LastSays(events, c, v)
  BY DEF Tuned
<1>2. /\ Head(events) \in Sights /\ LastSays(Tail(events), c, v)
      /\ Head(events).cart = c /\ Silent(Tail(events), c) => Head(events).sight = v
      /\ Head(events).cart # c /\ Silent(Tail(events), c) => Silent(events, c)
  BY <1>1, EventHeard
<1>3. d \in CartsOnShow
  BY <1>2 DEF Sights
<1>4. PICK late : late = Outdate(loads, d, x)
  OBVIOUS
<1>5. (late = <<>> <=> loads = <<>>) /\ LoadsSay(late, d, x) /\ (LoadsSay(loads, c, v) => LoadsSay(late, c, v))
  BY <1>3, <1>4, Outdated
<1>6. Silent(Tail(events), c) => LoadsSay(late, c, v)
  BY <1>2, <1>5 DEF Tuned
<1>7. Silent(Tail(events), c) /\ late = <<>> /\ c \notin unseen \ {d} => [screen EXCEPT ![d] = x][c] = v
  BY <1>2, <1>3, <1>5 DEF Tuned
<1>8. Tuned(Tail(events), late, unseen \ {d}, [screen EXCEPT ![d] = x], c, v)
  BY <1>2, <1>6, <1>7 DEF Tuned
<1>9. \A more : LoadsSay(more, c, v) /\ more # <<>> => Tuned(Tail(events), more, unseen, screen, c, v)
  BY <1>2 DEF Tuned
<1> QED BY <1>4, <1>6, <1>8, <1>9

\* A page asks for the list.
LEMMA AskSays ==
  ASSUME NEW loads \in Seq(Loads)
  PROVE  /\ Append(loads, Asked) \in Seq(Loads) /\ Append(loads, Asked) # <<>>
         /\ \A c, v : LoadsSay(loads, c, v) => LoadsSay(Append(loads, Asked), c, v)
<1>1. /\ \A X : \A s \in Seq(X) : \A x \in X : Append(s, x) \in Seq(X) /\ Append(s, x) # <<>>
      /\ \A X : \A s \in Seq(X) : \A x : /\ DOMAIN Append(s, x) = DOMAIN s \cup {Len(s) + 1}
                                         /\ Append(s, x)[Len(s) + 1] = x
                                         /\ \A i \in DOMAIN s : Append(s, x)[i] = s[i] /\ i < Len(s) + 1
  <2>1. \A X : \A s \in Seq(X) : \A x \in X : Append(s, x) \in Seq(X) /\ Append(s, x) # <<>>
    OBVIOUS
  <2>2. \A X : \A s \in Seq(X) : \A x : /\ DOMAIN Append(s, x) = DOMAIN s \cup {Len(s) + 1}
                                         /\ Append(s, x)[Len(s) + 1] = x
                                         /\ \A i \in DOMAIN s : Append(s, x)[i] = s[i] /\ i < Len(s) + 1
    OBVIOUS
  <2> QED BY <2>1, <2>2
<1>2. Asked \in Loads /\ ~Asked.read
  BY DEF Asked, Blank, Loads
<1>3. PICK more, l, asked : more = Append(loads, asked) /\ l = Len(loads) + 1 /\ asked = Asked
  OBVIOUS
<1>4. /\ more \in Seq(Loads) /\ more # <<>> /\ DOMAIN more = DOMAIN loads \cup {l} /\ more[l] = asked
      /\ \A i \in DOMAIN loads : more[i] = loads[i]
  BY <1>1, <1>2, <1>3
<1>5. \A c, v : LoadsSay(loads, c, v) => LoadsSay(more, c, v)
  BY <1>2, <1>3, <1>4 DEF LoadsSay
<1> QED BY <1>3, <1>4, <1>5

LEMMA TunedAsk ==
  ASSUME NEW events, NEW loads \in Seq(Loads), NEW unseen, NEW screen, NEW c, NEW v,
         Tuned(events, loads, unseen, screen, c, v)
  PROVE  Tuned(events, Append(loads, Asked), unseen, screen, c, v)
BY AskSays DEF Tuned

\* The API has read the list for load n.
Listed(list, loads, n, snap) ==
  list = [loads EXCEPT ![n] = [read |-> TRUE, newer |-> {}, snap |-> snap]]

LEMMA TunedListed ==
  ASSUME NEW loads \in Seq(Loads), NEW n \in DOMAIN loads, NEW snap \in [CartsOnShow -> Nat],
         NEW list, Listed(list, loads, n, snap)
  PROVE  /\ list \in Seq(Loads)
         /\ \A events, unseen, screen, c, v : snap[c] = v /\ Tuned(events, loads, unseen, screen, c, v) =>
                                               Tuned(events, list, unseen, screen, c, v)
<1> PICK l : l = [read |-> TRUE, newer |-> {}, snap |-> snap]
  OBVIOUS
<1>0. list = [loads EXCEPT ![n] = l]
  BY DEF Listed
<1>1. l \in Loads
  BY DEF Loads
<1>2. \A X : \A s \in Seq(X) : \A i \in DOMAIN s : \A x \in X :
        [s EXCEPT ![i] = x] \in Seq(X) /\ s # <<>> /\ [s EXCEPT ![i] = x] # <<>>
  OBVIOUS
<1>3. list \in Seq(Loads) /\ list # <<>>
  BY <1>0, <1>1, <1>2
<1>4. DOMAIN list = DOMAIN loads /\ list[n] = l /\ \A m \in DOMAIN loads : m # n => list[m] = loads[m]
  BY <1>0
<1>5. \A c : LoadsSay(loads, c, snap[c]) => LoadsSay(list, c, snap[c])
  BY <1>4 DEF LoadsSay
<1> QED BY <1>3, <1>5 DEF Tuned

\* Load n is answered, or fails.
LEMMA RemovedSays ==
  ASSUME NEW loads \in Seq(Loads), NEW n \in DOMAIN loads
  PROVE  /\ RemoveAt(loads, n) \in Seq(Loads)
         /\ \A c, v : LoadsSay(loads, c, v) => LoadsSay(RemoveAt(loads, n), c, v)
<1>1. PICK list, l : list = RemoveAt(loads, n) /\ l = Len(loads) - 1
  OBVIOUS
<1>2. /\ list \in Seq(Loads) /\ DOMAIN list = 1..l
      /\ \A i \in 1..l : \E m \in DOMAIN loads : list[i] = loads[m]
  <2>1. list \in Seq(Loads) /\ DOMAIN list = 1..l
    BY <1>1, Removed
  <2>2. \A i \in 1..l : /\ list[i] = loads[IF i < n THEN i ELSE i + 1]
                         /\ (IF i < n THEN i ELSE i + 1) \in DOMAIN loads
    BY <1>1, Removed
  <2> QED BY <2>1, <2>2
<1>3. \A c, v : LoadsSay(loads, c, v) => LoadsSay(list, c, v)
  BY <1>2 DEF LoadsSay
<1> QED BY <1>1, <1>2, <1>3

LEMMA TunedLoaded ==
  ASSUME NEW events, NEW loads \in Seq(Loads), NEW unseen, NEW screen, NEW c \in CartsOnShow, NEW v,
         Tuned(events, loads, unseen, screen, c, v), NEW n \in DOMAIN loads
  PROVE  /\ loads[n].read =>
              Tuned(events, RemoveAt(loads, n), loads[n].newer, loads[n].snap, c, v)
         /\ \A blank : Tuned(events, RemoveAt(loads, n), CartsOnShow, blank, c, v)
<1>1. LoadsSay(loads, c, v) => LoadsSay(RemoveAt(loads, n), c, v)
  BY RemovedSays
<1>2. LoadsSay(loads, c, v) /\ loads[n].read /\ c \notin loads[n].newer => loads[n].snap[c] = v
  BY DEF LoadsSay
<1> QED BY <1>1, <1>2 DEF Tuned

\* A page that has just been opened.
LEMMA TunedMounted ==
  ASSUME NEW c \in CartsOnShow, NEW v
  PROVE  <<Asked>> \in Seq(Loads) /\ Tuned(<<>>, <<Asked>>, CartsOnShow, Blank, c, v)
<1>1. Asked \in Loads /\ ~Asked.read
  BY DEF Asked, Blank, Loads
<1>2. PICK asked : asked = Asked
  OBVIOUS
<1>3. <<asked>> \in Seq(Loads) /\ DOMAIN <<asked>> = {1} /\ <<asked>>[1] = asked
  BY <1>1, <1>2
<1>4. LoadsSay(<<asked>>, c, v)
  BY <1>1, <1>2, <1>3 DEF LoadsSay
<1>5. LastSays(<<>>, c, v)
  BY DEF LastSays
<1>6. <<asked>> # <<>>
  OBVIOUS
<1> QED BY <1>2, <1>3, <1>4, <1>5, <1>6 DEF Tuned

-----------------------------------------------------------------------------
(***************************************************************************)
(* The pages while nothing happens in the API.                             *)
(***************************************************************************)
TerminalsOK == ServerTypes /\ PageTypes /\ Known /\ Announced /\ TerminalsHeld

\* Page t goes from what it has to something else, as tuned as that was.
LEMMA PageKeeps ==
  ASSUME TerminalsOK, NEW t \in Terminals, UNCHANGED <<callVars, serverVars>>,
         NEW ln, NEW ev \in Seq(Sights), NEW ld \in Seq(Loads), NEW un \in SUBSET CartsOnShow,
         NEW sc \in [CartsOnShow -> Nat],
         link' = [link EXCEPT ![t] = ln], ln \in {"off", "connecting", "refused", "joining", "joined"},
         ln = "joined" \/ ev = <<>>,
         wire' = [wire EXCEPT ![t] = ev], fetches' = [fetches EXCEPT ![t] = ld],
         missed' = [missed EXCEPT ![t] = un], shown' = [shown EXCEPT ![t] = sc],
         \A n \in DOMAIN ev : \E m \in DOMAIN wire[t] : ev[n] = wire[t][m],
         \A c \in CartsOnShow : InTune(t, c) => Tuned(ev, ld, un, sc, c, Visible(c))
  PROVE  TerminalsOK'
<1>1. ServerTypes /\ PageTypes /\ Known /\ Announced /\ TerminalsHeld
  BY DEF TerminalsOK
<1>2. /\ call' = call /\ crossed' = crossed /\ cut' = cut /\ version' = version /\ open' = open
      /\ \A c : Visible(c)' = Visible(c) /\ InFlight(c)' = InFlight(c)
      /\ \A c : Steady(c)' <=> Steady(c)
  BY DEF callVars, serverVars, Visible, Steady, Undisturbed, InFlight
<1>3. ServerTypes'
  BY <1>1, <1>2 DEF ServerTypes
<1>4. \A s \in Terminals : s # t => /\ link'[s] = link[s] /\ wire'[s] = wire[s] /\ fetches'[s] = fetches[s]
                                    /\ missed'[s] = missed[s] /\ shown'[s] = shown[s]
  BY <1>1 DEF PageTypes
<1>5. link'[t] = ln /\ wire'[t] = ev /\ fetches'[t] = ld /\ missed'[t] = un /\ shown'[t] = sc
  BY <1>1 DEF PageTypes
<1>6. PageTypes'
  <2>1. /\ link' \in [Terminals -> {"off", "connecting", "refused", "joining", "joined"}]
        /\ wire' \in [Terminals -> Seq(Sights)] /\ shown' \in [Terminals -> [CartsOnShow -> Nat]]
    BY <1>1 DEF PageTypes
  <2>2. fetches' \in [Terminals -> Seq(Loads)] /\ missed' \in [Terminals -> SUBSET CartsOnShow]
    BY <1>1 DEF PageTypes
  <2>3. ASSUME NEW s \in Terminals \ Joined'
        PROVE  wire'[s] = <<>>
    BY <1>1, <1>4, <1>5 DEF PageTypes, Joined
  <2> QED BY <2>1, <2>2, <2>3 DEF PageTypes
<1>7. Known'
  <2>1. ASSUME NEW s \in Terminals, NEW n \in DOMAIN wire'[s]
        PROVE  version'[wire'[s][n].cart] > 0
    <3>1. CASE s = t
      <4>1. PICK m \in DOMAIN wire[t] : ev[n] = wire[t][m]
        BY <1>5, <3>1
      <4> QED BY <1>1, <1>2, <1>5, <3>1, <4>1 DEF Known
    <3>2. CASE s # t
      BY <1>1, <1>2, <1>4, <3>2 DEF Known
    <3> QED BY <3>1, <3>2
  <2>2. \A k \in Slots : call'[k].at \in Announcing => version'[Doc(k)'] > 0
    BY <1>1, <1>2 DEF Known, Doc
  <2> QED BY <2>1, <2>2 DEF Known
<1>8. Announced'
  BY <1>1, <1>2 DEF Announced, At, Figure
<1>9. ASSUME NEW s \in Terminals, NEW c \in CartsOnShow, Steady(c)'
      PROVE  InTune(s, c)'
  <2>1. InTune(s, c)
    BY <1>1, <1>2, <1>9 DEF TerminalsHeld
  <2>2. CASE s = t
    <3>1. Tuned(ev, ld, un, sc, c, Visible(c))
      BY <2>1, <2>2
    <3> QED BY <1>2, <1>5, <2>2, <3>1 DEF InTune
  <2>3. CASE s # t
    BY <1>2, <1>4, <2>1, <2>3 DEF InTune
  <2> QED BY <2>2, <2>3
<1> QED BY <1>3, <1>6, <1>7, <1>8, <1>9 DEF TerminalsOK, TerminalsHeld

\* What a page has before the step, and that it stays where it is not changed.
LEMMA PageHas ==
  ASSUME TerminalsOK, NEW t \in Terminals
  PROVE  /\ link[t] \in {"off", "connecting", "refused", "joining", "joined"}
         /\ wire[t] \in Seq(Sights) /\ fetches[t] \in Seq(Loads)
         /\ missed[t] \in SUBSET CartsOnShow /\ shown[t] \in [CartsOnShow -> Nat]
         /\ link[t] = "joined" \/ wire[t] = <<>>
         /\ link = [link EXCEPT ![t] = link[t]] /\ wire = [wire EXCEPT ![t] = wire[t]]
         /\ fetches = [fetches EXCEPT ![t] = fetches[t]] /\ missed = [missed EXCEPT ![t] = missed[t]]
         /\ shown = [shown EXCEPT ![t] = shown[t]]
BY DEF TerminalsOK, PageTypes, Joined

LEMMA NewPageKeeps ==
  ASSUME TerminalsOK, NEW t \in Terminals, Mount(t)
  PROVE  TerminalsOK'
<1>1. <<Asked>> \in Seq(Loads) /\ Blank \in [CartsOnShow -> Nat] /\ <<>> \in Seq(Sights)
  <2>1. Blank \in [CartsOnShow -> Nat]
    BY DEF Blank
  <2>2. Asked \in Loads
    BY <2>1 DEF Asked, Loads
  <2>3. \A X : \A x \in X : <<x>> \in Seq(X)
    OBVIOUS
  <2>4. \A X : <<>> \in Seq(X)
    OBVIOUS
  <2> QED BY <2>1, <2>2, <2>3, <2>4
<1>2. \A c \in CartsOnShow : Tuned(<<>>, <<Asked>>, CartsOnShow, Blank, c, Visible(c))
  BY TunedMounted
<1>3. DOMAIN <<>> = {}
  OBVIOUS
<1> QED BY <1>1, <1>2, <1>3, PageKeeps DEF Mount

LEMMA SocketKeeps ==
  ASSUME TerminalsOK, NEW t \in Terminals, Connect(t) \/ Refuse(t) \/ JoinStore(t)
  PROVE  TerminalsOK'
<1>1. PICK ln \in {"refused", "joining", "joined"} : link' = [link EXCEPT ![t] = ln]
  BY DEF Connect, Refuse, JoinStore
<1>2. UNCHANGED <<callVars, serverVars>> /\ link[t] # "joined" /\ wire' = wire /\ UNCHANGED screenVars
  BY DEF Connect, Refuse, JoinStore
<1>3. ln = "joined" \/ wire[t] = <<>>
  BY <1>2, PageHas
<1> QED BY <1>1, <1>2, <1>3, PageHas, PageKeeps DEF InTune, screenVars

\* The first event of a page, and what is left of the others.
LEMMA PageHears ==
  ASSUME TerminalsOK, NEW t \in Terminals, wire[t] # <<>>
  PROVE  /\ Head(wire[t]) \in Sights /\ Tail(wire[t]) \in Seq(Sights) /\ link[t] = "joined"
         /\ \A n \in DOMAIN Tail(wire[t]) : \E m \in DOMAIN wire[t] : Tail(wire[t])[n] = wire[t][m]
<1>1. wire[t] \in Seq(Sights) /\ link[t] = "joined"
  BY PageHas
<1> QED BY <1>1, Headed

LEMMA ReceiveKeeps ==
  ASSUME TerminalsOK, NEW t \in Terminals, ReceiveCart(t) \/ ReceiveSale(t)
  PROVE  TerminalsOK'
<1>1. PICK e, rest, late : e = Head(wire[t]) /\ rest = Tail(wire[t])
                           /\ late = Outdate(fetches[t], e.cart, e.sight)
  OBVIOUS
<1>2. wire[t] # <<>> /\ wire' = [wire EXCEPT ![t] = rest] /\ UNCHANGED <<callVars, serverVars, link>>
  BY <1>1 DEF ReceiveCart, ReceiveSale
<1>3. /\ e \in Sights /\ rest \in Seq(Sights) /\ link[t] = "joined"
      /\ \A n \in DOMAIN rest : \E m \in DOMAIN wire[t] : rest[n] = wire[t][m]
  BY <1>1, <1>2, PageHears
<1>4. e.cart \in CartsOnShow /\ e.sight \in Nat
  BY <1>3 DEF Sights
<1>5. wire[t] \in Seq(Sights) /\ fetches[t] \in Seq(Loads) /\ missed[t] \in SUBSET CartsOnShow
      /\ shown[t] \in [CartsOnShow -> Nat] /\ link = [link EXCEPT ![t] = link[t]]
      /\ missed = [missed EXCEPT ![t] = missed[t]] /\ shown = [shown EXCEPT ![t] = shown[t]]
  BY PageHas
<1>6. late \in Seq(Loads)
  BY <1>1, <1>4, <1>5, Outdated
<1>7. ASSUME NEW c \in CartsOnShow, InTune(t, c)
      PROVE  /\ Tuned(rest, late, missed[t] \ {e.cart}, [shown[t] EXCEPT ![e.cart] = e.sight], c, Visible(c))
             /\ Tuned(rest, Append(late, Asked), missed[t], shown[t], c, Visible(c))
  <2>1. PICK v : v = Visible(c)
    OBVIOUS
  <2>2. Tuned(wire[t], fetches[t], missed[t], shown[t], c, v)
    BY <1>7, <2>1 DEF InTune
  <2>3. /\ Tuned(rest, late, missed[t] \ {e.cart}, [shown[t] EXCEPT ![e.cart] = e.sight], c, v)
        /\ \A more : LoadsSay(more, c, v) /\ more # <<>> => Tuned(rest, more, missed[t], shown[t], c, v)
        /\ Silent(rest, c) => LoadsSay(late, c, v)
    BY <1>1, <1>2, <1>5, <2>2, TunedCart
  <2>4. /\ Append(late, Asked) # <<>>
        /\ LoadsSay(late, c, v) => LoadsSay(Append(late, Asked), c, v)
    BY <1>6, AskSays
  <2>5. Tuned(rest, Append(late, Asked), missed[t], shown[t], c, v)
    <3>1. CASE Silent(rest, c)
      BY <2>3, <2>4, <3>1
    <3>2. CASE ~Silent(rest, c)
      BY <2>3, <3>2 DEF Tuned
    <3> QED BY <3>1, <3>2
  <2> QED BY <2>1, <2>3, <2>5
<1>8. CASE ReceiveCart(t)
  <2>1. PICK un, sc : un = missed[t] \ {e.cart} /\ sc = [shown[t] EXCEPT ![e.cart] = e.sight]
    OBVIOUS
  <2>2. un \in SUBSET CartsOnShow /\ sc \in [CartsOnShow -> Nat]
    BY <1>4, <1>5, <2>1
  <2>3. missed' = [missed EXCEPT ![t] = un] /\ fetches' = [fetches EXCEPT ![t] = late]
    BY <1>1, <1>8, <2>1 DEF ReceiveCart
  <2>4. shown' = [shown EXCEPT ![t] = sc]
    BY <1>1, <1>8, <2>1 DEF ReceiveCart
  <2> QED BY <1>2, <1>3, <1>5, <1>6, <1>7, <2>1, <2>2, <2>3, <2>4, PageKeeps
<1>9. CASE ReceiveSale(t)
  <2>1. PICK more : more = Append(late, Asked)
    OBVIOUS
  <2>2. more \in Seq(Loads)
    BY <1>6, <2>1, AskSays
  <2>3. fetches' = [fetches EXCEPT ![t] = more] /\ missed' = missed /\ shown' = shown
    BY <1>1, <1>9, <2>1 DEF ReceiveSale
  <2> QED BY <1>2, <1>3, <1>5, <1>7, <2>1, <2>2, <2>3, PageKeeps
<1> QED BY <1>8, <1>9

LEMMA LoadKeeps ==
  ASSUME TerminalsOK, NEW t \in Terminals,
         OpenDrawer(t) \/ \E n \in DOMAIN fetches[t] : ListActive(t, n) \/ LoadActiveCarts(t, n) \/ LoadFails(t, n)
  PROVE  TerminalsOK'
<1>1. /\ wire[t] \in Seq(Sights) /\ fetches[t] \in Seq(Loads) /\ missed[t] \in SUBSET CartsOnShow
      /\ shown[t] \in [CartsOnShow -> Nat] /\ link = [link EXCEPT ![t] = link[t]]
      /\ link[t] \in {"off", "connecting", "refused", "joining", "joined"}
      /\ link[t] = "joined" \/ wire[t] = <<>>
      /\ wire = [wire EXCEPT ![t] = wire[t]] /\ fetches = [fetches EXCEPT ![t] = fetches[t]]
      /\ missed = [missed EXCEPT ![t] = missed[t]] /\ shown = [shown EXCEPT ![t] = shown[t]]
  BY PageHas
<1>2. UNCHANGED <<callVars, serverVars>> /\ link' = link /\ wire' = wire
  BY DEF OpenDrawer, ListActive, LoadActiveCarts, LoadFails, socketVars
<1>3. ASSUME NEW ld \in Seq(Loads), NEW un \in SUBSET CartsOnShow, NEW sc \in [CartsOnShow -> Nat],
             fetches' = [fetches EXCEPT ![t] = ld], missed' = [missed EXCEPT ![t] = un],
             shown' = [shown EXCEPT ![t] = sc],
             \A c \in CartsOnShow : InTune(t, c) => Tuned(wire[t], ld, un, sc, c, Visible(c))
      PROVE  TerminalsOK'
  BY <1>1, <1>2, <1>3, PageKeeps
<1>4. CASE OpenDrawer(t)
  <2>1. PICK more : more = Append(fetches[t], Asked)
    OBVIOUS
  <2>2. more \in Seq(Loads)
    BY <1>1, <2>1, AskSays
  <2>3. fetches' = [fetches EXCEPT ![t] = more] /\ missed' = missed /\ shown' = shown
    BY <1>4, <2>1 DEF OpenDrawer
  <2>4. \A c \in CartsOnShow : InTune(t, c) => Tuned(wire[t], more, missed[t], shown[t], c, Visible(c))
    BY <1>1, <2>1, TunedAsk DEF InTune
  <2> QED BY <1>1, <1>3, <2>2, <2>3, <2>4
<1>5. ASSUME NEW n \in DOMAIN fetches[t], ListActive(t, n)
      PROVE  TerminalsOK'
  <2>1. PICK snap, list : snap = [c \in CartsOnShow |-> Visible(c)] /\ Listed(list, fetches[t], n, snap)
    BY DEF Listed
  <2>2. snap \in [CartsOnShow -> Nat]
    BY <2>1 DEF Visible, TerminalsOK, ServerTypes
  <2>3. fetches' = [fetches EXCEPT ![t] = list] /\ missed' = missed /\ shown' = shown
    BY <1>5, <2>1 DEF ListActive, Listed
  <2>4. /\ list \in Seq(Loads)
        /\ \A events, unseen, screen, c, v :
             snap[c] = v /\ Tuned(events, fetches[t], unseen, screen, c, v) =>
               Tuned(events, list, unseen, screen, c, v)
    <3>1. PICK ld : ld = fetches[t]
      OBVIOUS
    <3>2. ld \in Seq(Loads) /\ n \in DOMAIN ld /\ Listed(list, ld, n, snap)
      BY <1>1, <2>1, <3>1
    <3>3. list \in Seq(Loads)
      BY <2>2, <3>2, TunedListed
    <3>4. ASSUME NEW events, NEW unseen, NEW screen, NEW c, NEW v, snap[c] = v, Tuned(events, ld, unseen, screen, c, v)
          PROVE  Tuned(events, list, unseen, screen, c, v)
      BY <2>2, <3>2, <3>4, TunedListed
    <3> QED BY <3>1, <3>3, <3>4
  <2>5. \A c \in CartsOnShow : snap[c] = Visible(c)
    BY <2>1
  <2>6. \A c \in CartsOnShow : InTune(t, c) => Tuned(wire[t], list, missed[t], shown[t], c, Visible(c))
    BY <2>4, <2>5 DEF InTune
  <2> QED BY <1>1, <1>3, <2>3, <2>4, <2>6
<1>6. ASSUME NEW n \in DOMAIN fetches[t], LoadActiveCarts(t, n) \/ LoadFails(t, n)
      PROVE  TerminalsOK'
  <2>1. PICK less : less = RemoveAt(fetches[t], n)
    OBVIOUS
  <2>2. less \in Seq(Loads) /\ fetches[t][n] \in Loads
    BY <1>1, <2>1, RemovedSays
  <2>3. \A c \in CartsOnShow : InTune(t, c) =>
          /\ fetches[t][n].read => Tuned(wire[t], less, fetches[t][n].newer, fetches[t][n].snap, c, Visible(c))
          /\ Tuned(wire[t], less, CartsOnShow, Blank, c, Visible(c))
    BY <1>1, <2>1, TunedLoaded DEF InTune
  <2>4. fetches' = [fetches EXCEPT ![t] = less]
    BY <1>6, <2>1 DEF LoadActiveCarts, LoadFails
  <2>5. CASE LoadActiveCarts(t, n)
    <3>1. /\ fetches[t][n].read /\ shown' = [shown EXCEPT ![t] = fetches[t][n].snap]
          /\ missed' = [missed EXCEPT ![t] = fetches[t][n].newer]
      BY <2>5 DEF LoadActiveCarts
    <3>2. fetches[t][n].newer \in SUBSET CartsOnShow /\ fetches[t][n].snap \in [CartsOnShow -> Nat]
      BY <2>2 DEF Loads
    <3> QED BY <1>3, <2>2, <2>3, <2>4, <3>1, <3>2
  <2>6. CASE LoadFails(t, n)
    <3>1. shown' = [shown EXCEPT ![t] = Blank] /\ missed' = [missed EXCEPT ![t] = CartsOnShow]
      BY <2>6 DEF LoadFails
    <3>2. Blank \in [CartsOnShow -> Nat]
      BY DEF Blank
    <3> QED BY <1>3, <2>2, <2>3, <2>4, <3>1, <3>2
  <2> QED BY <1>6, <2>5, <2>6
<1> QED BY <1>4, <1>5, <1>6

\* Sockets are cut: what was on its way is missed, and outdates the loads.
LEMMA CutPages ==
  ASSUME TerminalsOK, NEW T \in SUBSET Terminals, Cut(T)
  PROVE  /\ ServerTypes' /\ PageTypes' /\ UNCHANGED serverVars
         /\ \A t \in Terminals : \A n \in DOMAIN wire'[t] : version[wire'[t][n].cart] > 0
         /\ \A t \in Terminals, c \in CartsOnShow : InTune(t, c) => InTune(t, c)'
<1>1. ServerTypes /\ PageTypes /\ Known
  BY DEF TerminalsOK
<1>2. version' = version /\ open' = open /\ shown' = shown /\ \A c : Visible(c)' = Visible(c)
  BY DEF Cut, serverVars, Visible
<1>3. /\ link' = [t \in Terminals |-> IF t \in T THEN "connecting" ELSE link[t]]
      /\ wire' = [t \in Terminals |-> IF t \in T THEN <<>> ELSE wire[t]]
  BY DEF Cut
<1>4. /\ missed' = [t \in Terminals |-> IF t \in T THEN missed[t] \cup {e.cart : e \in ToSet(wire[t])} ELSE missed[t]]
      /\ fetches' = [t \in Terminals |-> IF t \in T THEN Late(fetches[t], wire[t]) ELSE fetches[t]]
  BY DEF Cut, Late
<1>5. \A X : <<>> \in Seq(X) /\ DOMAIN <<>> = {}
  OBVIOUS
<1>6. ASSUME NEW t \in Terminals
      PROVE  /\ Late(fetches[t], wire[t]) \in Seq(Loads)
             /\ {e.cart : e \in ToSet(wire[t])} \subseteq CartsOnShow
             /\ \A c \in CartsOnShow : InTune(t, c) =>
                  Tuned(<<>>, Late(fetches[t], wire[t]), missed[t] \cup {e.cart : e \in ToSet(wire[t])}, shown[t], c,
                        Visible(c))
  <2>1. wire[t] \in Seq(Sights) /\ fetches[t] \in Seq(Loads)
    BY PageHas
  <2>2. LateUpto(Late(fetches[t], wire[t]), fetches[t], wire[t], Len(wire[t]))
    BY <2>1, LateSays
  <2>3. ToSet(wire[t]) \subseteq Sights
    BY <2>1 DEF ToSet
  <2>4. {e.cart : e \in ToSet(wire[t])} \subseteq CartsOnShow
    BY <2>3 DEF Sights
  <2>5. \A c \in CartsOnShow : InTune(t, c) =>
          Tuned(<<>>, Late(fetches[t], wire[t]), missed[t] \cup {e.cart : e \in ToSet(wire[t])}, shown[t], c, Visible(c))
    BY <2>1, TunedCut DEF InTune
  <2>6. Late(fetches[t], wire[t]) \in Seq(Loads)
    BY <2>2 DEF LateUpto
  <2> QED BY <2>4, <2>5, <2>6
<1>7. ServerTypes'
  BY <1>1, <1>2 DEF ServerTypes
<1>8. PageTypes'
  <2>1. /\ link' \in [Terminals -> {"off", "connecting", "refused", "joining", "joined"}]
        /\ wire' \in [Terminals -> Seq(Sights)] /\ shown' \in [Terminals -> [CartsOnShow -> Nat]]
    BY <1>1, <1>2, <1>3, <1>5 DEF PageTypes
  <2>2. \A t \in Terminals : fetches[t] \in Seq(Loads) /\ missed[t] \in SUBSET CartsOnShow
    BY <1>1 DEF PageTypes
  <2>3. fetches' \in [Terminals -> Seq(Loads)] /\ missed' \in [Terminals -> SUBSET CartsOnShow]
    BY <1>4, <1>6, <2>2
  <2>4. ASSUME NEW t \in Terminals \ Joined'
        PROVE  wire'[t] = <<>>
    BY <1>1, <1>3 DEF PageTypes, Joined
  <2> QED BY <2>1, <2>3, <2>4 DEF PageTypes
<1>9. ASSUME NEW t \in Terminals, NEW n \in DOMAIN wire'[t]
      PROVE  version[wire'[t][n].cart] > 0
  <2>1. t \notin T
    BY <1>3, <1>5, <1>9
  <2> QED BY <1>1, <1>3, <2>1 DEF Known
<1>10. ASSUME NEW t \in Terminals, NEW c \in CartsOnShow, InTune(t, c)
       PROVE  InTune(t, c)'
  <2>1. CASE t \in T
    <3>1. wire'[t] = <<>> /\ fetches'[t] = Late(fetches[t], wire[t]) /\ shown'[t] = shown[t]
          /\ missed'[t] = missed[t] \cup {e.cart : e \in ToSet(wire[t])}
      BY <1>2, <1>3, <1>4, <2>1
    <3>2. Tuned(<<>>, Late(fetches[t], wire[t]), missed[t] \cup {e.cart : e \in ToSet(wire[t])}, shown[t], c, Visible(c))
      BY <1>6, <1>10
    <3> QED BY <1>2, <3>1, <3>2 DEF InTune
  <2>2. CASE t \notin T
    <3>1. wire'[t] = wire[t] /\ fetches'[t] = fetches[t] /\ shown'[t] = shown[t] /\ missed'[t] = missed[t]
      BY <1>2, <1>3, <1>4, <2>2
    <3> QED BY <1>2, <1>10, <3>1 DEF InTune
  <2> QED BY <2>1, <2>2
<1> QED BY <1>2, <1>7, <1>8, <1>9, <1>10 DEF serverVars

\* The sockets are cut: by themselves, or because the process restarts.
LEMMA CutKeeps ==
  ASSUME TerminalsOK, NEW T \in SUBSET Terminals, Cut(T),
         \A k \in Slots : call'[k] = call[k] \/ call'[k] = Free,
         \A c \in CartsOnShow : /\ c \in crossed' <=> c \in crossed
                                /\ InFlight(c)' \subseteq InFlight(c)
                                /\ Steady(c)' => Steady(c)
  PROVE  TerminalsOK'
<1>1. Known /\ Announced /\ TerminalsHeld
  BY DEF TerminalsOK
<1>2. /\ ServerTypes' /\ PageTypes' /\ version' = version /\ open' = open
      /\ \A t \in Terminals : \A n \in DOMAIN wire'[t] : version[wire'[t][n].cart] > 0
      /\ \A t \in Terminals, c \in CartsOnShow : InTune(t, c) => InTune(t, c)'
  BY CutPages DEF serverVars
<1>3. Free.at \notin Announcing
  BY DEF Free, Announcing
<1>4. Known'
  <2>1. ASSUME NEW k \in Slots, call'[k].at \in Announcing
        PROVE  version'[call'[k].doc] > 0
    BY <1>1, <1>2, <1>3, <2>1 DEF Known, Doc
  <2> QED BY <1>2, <2>1 DEF Known, Doc
<1>5. ASSUME NEW c \in CartsOnShow \ crossed', NEW k \in InFlight(c)'
      PROVE  /\ call'[k].at = "emit_cart" => call'[k].sum = Visible(c)'
             /\ call'[k].at = "emit_sale" => c \notin open'
  <2>1. k \in InFlight(c) /\ c \notin crossed /\ k \in Slots
    BY <1>5 DEF InFlight
  <2>2. CASE call'[k] = call[k]
    BY <1>1, <1>2, <2>1, <2>2 DEF Announced, At, Figure, Visible
  <2>3. CASE call'[k] = Free
    BY <2>3 DEF Free
  <2> QED BY <2>1, <2>2, <2>3
<1>6. Announced'
  BY <1>5 DEF Announced, At, Figure
<1>7. TerminalsHeld'
  BY <1>1, <1>2 DEF TerminalsHeld
<1> QED BY <1>2, <1>4, <1>6, <1>7 DEF TerminalsOK

LEMMA TerminalStepKeeps ==
  ASSUME TerminalsOK, NEW t \in Terminals, TerminalStep(t)
  PROVE  TerminalsOK' /\ UNCHANGED callVars
<1>1. CASE Disconnect(t)
  <2>1. Cut({t}) /\ UNCHANGED callVars
    BY <1>1 DEF Disconnect
  <2>2. call' = call /\ \A c : /\ c \in crossed' <=> c \in crossed
                               /\ InFlight(c)' \subseteq InFlight(c)
                               /\ Steady(c)' => Steady(c)
    BY <2>1 DEF callVars, Steady, Undisturbed, InFlight
  <2> QED BY <2>1, <2>2, CutKeeps
<1>2. CASE Mount(t)
  BY <1>2, NewPageKeeps DEF Mount
<1>3. CASE Connect(t) \/ Refuse(t) \/ JoinStore(t)
  BY <1>3, SocketKeeps DEF Connect, Refuse, JoinStore
<1>4. CASE ReceiveCart(t) \/ ReceiveSale(t)
  BY <1>4, ReceiveKeeps DEF ReceiveCart, ReceiveSale
<1>5. CASE OpenDrawer(t) \/ \E n \in DOMAIN fetches[t] : ListActive(t, n) \/ LoadActiveCarts(t, n) \/ LoadFails(t, n)
  BY <1>5, LoadKeeps DEF OpenDrawer, ListActive, LoadActiveCarts, LoadFails
<1> QED BY <1>1, <1>2, <1>3, <1>4, <1>5 DEF TerminalStep

LEMMA TerminalsCrash ==
  ASSUME TerminalsOK, Served, Crash, SocketsDrop
  PROVE  TerminalsOK'
<1>1. /\ crossed' = crossed
      /\ \A c \in CartsOnShow : InFlight(c)' = {} /\ (c \in cut' <=> c \in cut \/ InFlight(c) # {})
  BY CrashClears, Kinds
<1>2. \A k \in Slots : call'[k] = Free
  BY DEF Crash
<1>3. \A c \in CartsOnShow : Steady(c)' => Steady(c)
  BY <1>1 DEF Steady, Undisturbed
<1>4. PICK T \in SUBSET Terminals : Cut(T)
  BY DEF SocketsDrop
<1> QED BY <1>1, <1>2, <1>3, <1>4, CutKeeps

-----------------------------------------------------------------------------
(***************************************************************************)
(* The requests on carts.                                                  *)
(***************************************************************************)
\* One step of a request about c, which may change c and what pages have.
LEMMA CartMoves ==
  ASSUME TerminalsOK, Served, NEW k \in Slots, NEW r, NEW c \in CartsOnShow, Moved(k, r, {c}),
         ServerTypes', PageTypes',
         \A d \in CartsOnShow : d # c => version'[d] = version[d] /\ (d \in open' <=> d \in open),
         version[c] > 0 => version'[c] > 0, r.at \in Announcing => version'[c] > 0,
         \A t \in Terminals : \A n \in DOMAIN wire'[t] : version'[wire'[t][n].cart] > 0,
         c \notin crossed' => \A j \in InFlight(c)' :
           /\ call'[j].at = "emit_cart" => call'[j].sum = Visible(c)'
           /\ call'[j].at = "emit_sale" => c \notin open',
         \A t \in Terminals, d \in CartsOnShow : d # c /\ InTune(t, d) => InTune(t, d)',
         Steady(c)' => \A t \in Terminals : InTune(t, c)'
  PROVE  TerminalsOK'
<1>1. Known /\ Announced /\ TerminalsHeld
  BY DEF TerminalsOK
<1>2. \A j \in Slots : call'[j] = IF j = k THEN r ELSE call[j]
  BY MovedFlights
<1>3. \A j \in Slots : Placed(call[j]) /\ Placed(r)
  BY DEF Served, Moved
<1>4. \A s : Placed(s) /\ s.at \in Announcing => s.doc \in CartsOnShow
  BY PlacesOf DEF Announcing, ForCarts
<1>5. Known'
  <2>1. ASSUME NEW j \in Slots, call'[j].at \in Announcing
        PROVE  version'[call'[j].doc] > 0
    <3>1. CASE j = k
      <4>1. call'[j] = r /\ r.doc \in CartsOnShow /\ r.doc \in {c, None}
        BY <1>2, <1>3, <1>4, <2>1, <3>1 DEF Moved
      <4>2. r.doc = c
        BY <4>1, Kinds
      <4> QED BY <2>1, <4>1, <4>2
    <3>2. CASE j # k
      <4>1. call'[j] = call[j] /\ call[j].doc \in CartsOnShow
        BY <1>2, <1>3, <1>4, <2>1, <3>2
      <4>2. version[call[j].doc] > 0
        BY <1>1, <2>1, <4>1 DEF Known, Doc
      <4> QED BY <4>1, <4>2
    <3> QED BY <3>1, <3>2
  <2> QED BY <2>1 DEF Known, Doc
<1>6. ASSUME NEW d \in CartsOnShow, d # c
      PROVE  /\ InFlight(d)' = InFlight(d) /\ \A j \in InFlight(d) : call'[j] = call[j]
             /\ d \in crossed' <=> d \in crossed
             /\ d \in cut' <=> d \in cut
             /\ Visible(d)' = Visible(d) /\ (d \in open' <=> d \in open)
  <2>1. {d} \cap {c} = {} /\ None \notin {d}
    BY <1>6, Kinds
  <2>2. Quiet({d})
    BY <2>1, MovedAway
  <2> QED BY <1>6, <2>2 DEF Quiet, Visible
<1>7. ASSUME NEW d \in CartsOnShow \ crossed', NEW j \in InFlight(d)'
      PROVE  /\ call'[j].at = "emit_cart" => call'[j].sum = Visible(d)'
             /\ call'[j].at = "emit_sale" => d \notin open'
  <2>1. CASE d = c
    BY <1>7, <2>1
  <2>2. CASE d # c
    <3>1. j \in InFlight(d) /\ call'[j] = call[j] /\ d \notin crossed /\ Visible(d)' = Visible(d)
          /\ (d \in open' <=> d \in open)
      BY <1>6, <1>7, <2>2
    <3> QED BY <1>1, <3>1 DEF Announced, At, Figure
  <2> QED BY <2>1, <2>2
<1>8. Announced'
  BY <1>7 DEF Announced, At, Figure
<1>9. ASSUME NEW t \in Terminals, NEW d \in CartsOnShow, Steady(d)'
      PROVE  InTune(t, d)'
  <2>1. CASE d = c
    BY <1>9, <2>1
  <2>2. CASE d # c
    <3>1. Steady(d)
      BY <1>6, <1>9, <2>2 DEF Steady, Undisturbed
    <3> QED BY <1>1, <2>2, <3>1 DEF TerminalsHeld
  <2> QED BY <2>1, <2>2
<1> QED BY <1>5, <1>8, <1>9 DEF TerminalsOK, TerminalsHeld

\* Terminals of T miss an event.
LEMMA MissesOf ==
  ASSUME TerminalsOK, NEW T, NEW c \in CartsOnShow, NEW x, Miss(T, c, x)
  PROVE  /\ missed' \in [Terminals -> SUBSET CartsOnShow] /\ fetches' \in [Terminals -> Seq(Loads)]
         /\ \A t \in Terminals : /\ t \in T => missed'[t] = missed[t] \cup {c} /\ fetches'[t] = Outdate(fetches[t], c, x)
                                 /\ t \notin T => missed'[t] = missed[t] /\ fetches'[t] = fetches[t]
<1>1. \A t \in Terminals : fetches[t] \in Seq(Loads) /\ missed[t] \in SUBSET CartsOnShow
  BY PageHas
<1>2. \A t \in Terminals : Outdate(fetches[t], c, x) \in Seq(Loads)
  BY <1>1, Outdated
<1>3. /\ missed' = [t \in Terminals |-> IF t \in T THEN missed[t] \cup {c} ELSE missed[t]]
      /\ fetches' = [t \in Terminals |-> IF t \in T THEN Outdate(fetches[t], c, x) ELSE fetches[t]]
  BY DEF Miss
<1>4. missed' \in [Terminals -> SUBSET CartsOnShow]
  BY <1>1, <1>3
<1>5. fetches' \in [Terminals -> Seq(Loads)]
  BY <1>1, <1>2, <1>3
<1> QED BY <1>3, <1>4, <1>5

LEMMA OpenCartKeeps ==
  ASSUME TerminalsOK, Served, NEW k \in Slots, NEW c \in CartsOnShow, OpenCart(k, c)
  PROVE  TerminalsOK' /\ Moving(k, {c})
<1>1. ServerTypes /\ PageTypes /\ Known
  BY DEF TerminalsOK
<1>2. /\ version[c] = 0 /\ AtOnce(k, c) /\ version' = [version EXCEPT ![c] = 1] /\ open' = open \cup {c}
      /\ Miss(Terminals, c, 1) /\ link' = link /\ wire' = wire /\ shown' = shown
  BY DEF OpenCart, socketVars
<1>3. Moved(k, call[k], {c}) /\ call' = call /\ (InFlight(c) = {} \/ c \in crossed')
  BY <1>2, AtOnceMoves
<1>4. /\ missed' \in [Terminals -> SUBSET CartsOnShow] /\ fetches' \in [Terminals -> Seq(Loads)]
      /\ \A t \in Terminals : missed'[t] = missed[t] \cup {c} /\ fetches'[t] = Outdate(fetches[t], c, 1)
  BY <1>2, MissesOf
<1>5. /\ version' \in [CartsOnShow -> Nat] /\ open' \subseteq CartsOnShow /\ version'[c] = 1
      /\ \A d \in CartsOnShow : d # c => version'[d] = version[d] /\ (d \in open' <=> d \in open)
  BY <1>1, <1>2 DEF ServerTypes
<1>6. ServerTypes'
  BY <1>1, <1>2, <1>5 DEF ServerTypes
<1>7. PageTypes'
  BY <1>1, <1>2, <1>4 DEF PageTypes, Joined
<1>8. \A t \in Terminals : \A n \in DOMAIN wire'[t] : version[wire'[t][n].cart] > 0
  BY <1>1, <1>2 DEF Known
<1>9. \A t \in Terminals : \A n \in DOMAIN wire'[t] : version'[wire'[t][n].cart] > 0
  <2>1. ASSUME NEW t \in Terminals, NEW n \in DOMAIN wire'[t]
        PROVE  version'[wire'[t][n].cart] > 0
    <3>1. wire'[t][n] \in Sights
      BY <1>7, <2>1 DEF PageTypes
    <3>2. wire'[t][n].cart \in CartsOnShow
      BY <3>1 DEF Sights
    <3> QED BY <1>5, <1>8, <3>2
  <2> QED BY <2>1
<1>10. \A t \in Terminals : Silent(wire[t], c)
  BY <1>1, <1>2 DEF Known, Silent
<1>11. call[k].at \notin Announcing
  BY <1>2 DEF AtOnce, At, Announcing
<1>12. ASSUME NEW t \in Terminals, NEW d \in CartsOnShow, NEW v,
              d = c => v = 1,
              d # c => Tuned(wire[t], fetches[t], missed[t], shown[t], d, v)
       PROVE  Tuned(wire'[t], fetches'[t], missed'[t], shown'[t], d, v)
  <2>1. fetches[t] \in Seq(Loads)
    BY PageHas
  <2>2. IF d = c THEN 1 = v ELSE Tuned(wire[t], fetches[t], missed[t], shown[t], d, v)
    BY <1>12
  <2>3. Tuned(wire[t], Outdate(fetches[t], c, 1), missed[t] \cup {c}, shown[t], d, v)
    BY <1>10, <2>1, <2>2, TunedMissed
  <2> QED BY <1>2, <1>4, <2>3
<1>13. \A t \in Terminals, d \in CartsOnShow : d # c /\ InTune(t, d) => InTune(t, d)'
  <2>1. \A d \in CartsOnShow : d # c => Visible(d)' = Visible(d)
    BY <1>5 DEF Visible
  <2> QED BY <1>12, <2>1 DEF InTune
<1>14. \A t \in Terminals : InTune(t, c)'
  <2>1. Visible(c)' = 1
    BY <1>2, <1>5 DEF Visible
  <2> QED BY <1>12, <2>1 DEF InTune
<1>15. c \notin crossed' => InFlight(c)' = {}
  BY <1>3 DEF InFlight
<1>16. TerminalsOK'
  BY <1>3, <1>5, <1>6, <1>7, <1>9, <1>11, <1>13, <1>14, <1>15, CartMoves
<1> QED BY <1>3, <1>16 DEF Moving

\* A step on c that no page sees.
LEMMA UnseenMoves ==
  ASSUME TerminalsOK, Served, NEW k \in Slots, NEW r, NEW c \in CartsOnShow, Moved(k, r, {c}),
         ServerTypes', UNCHANGED <<link, wire, shown, fetches, missed>>,
         \A d \in CartsOnShow : d # c => version'[d] = version[d] /\ (d \in open' <=> d \in open),
         version[c] > 0 => version'[c] > 0, r.at \in Announcing => version'[c] > 0,
         c \notin crossed' => \A j \in InFlight(c)' :
           /\ call'[j].at = "emit_cart" => call'[j].sum = Visible(c)'
           /\ call'[j].at = "emit_sale" => c \notin open',
         ~Steady(c)'
  PROVE  TerminalsOK'
<1>1. PageTypes /\ Known
  BY DEF TerminalsOK
<1>2. PageTypes'
  BY <1>1 DEF PageTypes, Joined
<1>3. ASSUME NEW t \in Terminals, NEW n \in DOMAIN wire'[t]
      PROVE  version'[wire'[t][n].cart] > 0
  <2>1. wire'[t][n].cart \in CartsOnShow
    <3>1. wire'[t][n] \in Sights
      BY <1>2, <1>3 DEF PageTypes
    <3> QED BY <3>1 DEF Sights
  <2>2. version[wire'[t][n].cart] > 0
    BY <1>1, <1>3 DEF Known
  <2> QED BY <2>1, <2>2
<1>4. \A t \in Terminals, d \in CartsOnShow : d # c /\ InTune(t, d) => InTune(t, d)'
  BY DEF InTune, Visible
<1> QED BY <1>2, <1>3, <1>4, CartMoves

LEMMA ChangeCartKeeps ==
  ASSUME TerminalsOK, Served, NEW k \in Slots, NEW c \in CartsOnShow, EditCart(k, c) \/ SellCart(k, c)
  PROVE  TerminalsOK' /\ Moving(k, {c})
<1>1. ServerTypes /\ c \in open
  BY DEF TerminalsOK, EditCart, SellCart
<1>2. UNCHANGED <<link, wire, shown, fetches, missed>>
  BY DEF EditCart, SellCart, socketVars, screenVars
<1>3. PICK place \in {"snapshot", "emit_sale"} :
        /\ Enter(k, place, c, 0, <<>>)
        /\ place = "snapshot" => open' = open /\ version' = [version EXCEPT ![c] = version[c] + 1]
        /\ place = "emit_sale" => open' = open \ {c} /\ version' = version
  BY DEF EditCart, SellCart
<1>4. PICK r : r = [at |-> place, doc |-> c, sum |-> 0, todo |-> <<>>]
  OBVIOUS
<1>5. r.at = place /\ r.doc = c
  BY <1>4
<1>6. Placed([at |-> place, doc |-> c, sum |-> 0, todo |-> <<>>])
  BY DEF Placed, Record, ForCarts
<1>7. Moved(k, r, {c}) /\ (InFlight(c) = {} \/ c \in crossed')
  BY <1>3, <1>4, <1>6, EnterMoves
<1>8. k \in InFlight(c)' /\ InFlight(c)' = InFlight(c) \cup {k} /\ call'[k] = r
  BY <1>5, <1>7, FlightsOf
<1>9. version[c] \in Nat /\ version[c] > 0
  BY <1>1 DEF ServerTypes
<1>10. /\ ServerTypes' /\ version'[c] > 0
       /\ \A d \in CartsOnShow : d # c => version'[d] = version[d] /\ (d \in open' <=> d \in open)
  BY <1>1, <1>3, <1>9 DEF ServerTypes
<1>11. c \notin crossed' => \A j \in InFlight(c)' :
         /\ call'[j].at = "emit_cart" => call'[j].sum = Visible(c)'
         /\ call'[j].at = "emit_sale" => c \notin open'
  <2>1. ASSUME c \notin crossed', NEW j \in InFlight(c)'
        PROVE  j = k
    BY <1>7, <1>8, <2>1
  <2>2. call'[k].at = "emit_sale" => c \notin open'
    BY <1>3, <1>5, <1>8
  <2>3. call'[k].at # "emit_cart"
    BY <1>5, <1>8
  <2> QED BY <2>1, <2>2, <2>3
<1>12. ~Steady(c)'
  BY <1>8 DEF Steady
<1>13. TerminalsOK'
  BY <1>2, <1>7, <1>10, <1>11, <1>12, UnseenMoves
<1> QED BY <1>7, <1>13 DEF Moving

LEMMA SnapshotKeeps ==
  ASSUME TerminalsOK, Served, Alone, NEW k \in Slots, Snapshot(k)
  PROVE  TerminalsOK' /\ Moving(k, CartsOnShow)
<1>1. PICK c, v : c = call[k].doc /\ v = Visible(c)
  OBVIOUS
<1>2. call[k].at = "snapshot" /\ GotoWith(k, "emit_cart", v) /\ UNCHANGED realtimeVars
  BY <1>1 DEF Snapshot, At, Doc
<1>3. Placed(call[k])
  BY DEF Served
<1>4. c \in CartsOnShow
  BY <1>1, <1>2, <1>3, PlacesOf DEF ForCarts
<1>5. UNCHANGED <<link, wire, shown, fetches, missed>> /\ version' = version /\ open' = open
  BY <1>2 DEF realtimeVars
<1>6. v \in Nat /\ ServerTypes /\ version[c] > 0
  <2>1. ServerTypes /\ Known
    BY DEF TerminalsOK
  <2>2. version[c] > 0
    BY <1>1, <1>2, <2>1 DEF Known, Announcing, Doc
  <2> QED BY <1>1, <1>4, <2>1, <2>2 DEF Visible, ServerTypes
<1>7. PICK todo : todo = call[k].todo
  OBVIOUS
<1>8. PICK r : r = [at |-> "emit_cart", doc |-> c, sum |-> v, todo |-> todo]
  OBVIOUS
<1>9. r.at = "emit_cart" /\ r.doc = c /\ r.sum = v
  BY <1>8
<1>10. Placed([at |-> "emit_cart", doc |-> c, sum |-> v, todo |-> todo])
  BY <1>4, <1>6 DEF Placed, Record, ForCarts
<1>11. Moved(k, r, {c}) /\ crossed' = crossed
  BY <1>1, <1>2, <1>7, <1>8, <1>10, GotoWithMoves
<1>12. k \in InFlight(c)' /\ InFlight(c)' = InFlight(c) \cup {k} /\ call'[k] = r /\ k \in InFlight(c)
  BY <1>1, <1>9, <1>11, FlightsOf DEF InFlight
<1>13. c \notin crossed' => \A j \in InFlight(c)' : j = k
  BY <1>4, <1>11, <1>12, Kinds DEF Alone
<1>14. c \notin crossed' => \A j \in InFlight(c)' :
         /\ call'[j].at = "emit_cart" => call'[j].sum = Visible(c)'
         /\ call'[j].at = "emit_sale" => c \notin open'
  BY <1>1, <1>5, <1>9, <1>12, <1>13 DEF Visible
<1>15. ~Steady(c)'
  BY <1>12 DEF Steady
<1>16. ServerTypes'
  BY <1>5, <1>6 DEF ServerTypes
<1>17. TerminalsOK'
  BY <1>4, <1>5, <1>6, <1>11, <1>14, <1>15, <1>16, UnseenMoves
<1>18. Moving(k, {c})
  BY <1>11 DEF Moving
<1> QED BY <1>4, <1>17, <1>18, MovingWider

\* A request announces its cart to the terminals in the room, and is answered.
LEMMA EmitKeeps ==
  ASSUME TerminalsOK, Served, Alone, NEW k \in Slots, NEW e \in Sights, Emit(e), Leave(k),
         call[k].doc = e.cart, version[e.cart] > 0, e.cart \notin crossed => e.sight = Visible(e.cart)
  PROVE  TerminalsOK' /\ Moving(k, CartsOnShow)
<1>1. PICK c, x : c = e.cart /\ x = e.sight
  OBVIOUS
<1>2. c \in CartsOnShow /\ x \in Nat
  BY <1>1 DEF Sights
<1>3. ServerTypes /\ PageTypes /\ Known
  BY DEF TerminalsOK
<1>4. /\ wire' = [t \in Terminals |-> IF t \in Joined THEN Append(wire[t], e) ELSE wire[t]]
      /\ Miss(Terminals \ Joined, c, x) /\ version' = version /\ open' = open /\ link' = link /\ shown' = shown
  BY <1>1 DEF Emit, serverVars
<1>5. Moved(k, Free, {c}) /\ crossed' = crossed
  BY <1>1, LeaveMoves
<1>6. /\ missed' \in [Terminals -> SUBSET CartsOnShow] /\ fetches' \in [Terminals -> Seq(Loads)]
      /\ \A t \in Terminals : /\ t \notin Joined => missed'[t] = missed[t] \cup {c} /\ fetches'[t] = Outdate(fetches[t], c, x)
                              /\ t \in Joined => missed'[t] = missed[t] /\ fetches'[t] = fetches[t]
  <2>1. PICK T : T = Terminals \ Joined
    OBVIOUS
  <2>2. Miss(T, c, x)
    BY <1>4, <2>1
  <2>3. \A t \in Terminals : t \in T <=> t \notin Joined
    BY <2>1
  <2>4. /\ missed' \in [Terminals -> SUBSET CartsOnShow] /\ fetches' \in [Terminals -> Seq(Loads)]
        /\ \A t \in Terminals : /\ t \in T => missed'[t] = missed[t] \cup {c} /\ fetches'[t] = Outdate(fetches[t], c, x)
                                /\ t \notin T => missed'[t] = missed[t] /\ fetches'[t] = fetches[t]
    BY <1>2, <2>2, MissesOf
  <2> QED BY <2>3, <2>4
<1>7. ServerTypes'
  BY <1>3, <1>4 DEF ServerTypes
<1>8. \A t \in Terminals : Append(wire[t], e) \in Seq(Sights)
  <2>1. \A X : \A s \in Seq(X) : \A y \in X : Append(s, y) \in Seq(X)
    OBVIOUS
  <2> QED BY <1>3, <2>1 DEF PageTypes
<1>9. PageTypes'
  <2>1. wire' \in [Terminals -> Seq(Sights)]
    BY <1>3, <1>4, <1>8 DEF PageTypes
  <2>2. Joined' = Joined
    BY <1>4 DEF Joined
  <2>3. \A t \in Terminals \ Joined : wire'[t] = <<>>
    BY <1>3, <1>4 DEF PageTypes
  <2> QED BY <1>3, <1>4, <1>6, <2>1, <2>2, <2>3 DEF PageTypes
<1>10. ASSUME NEW t \in Terminals, NEW n \in DOMAIN wire'[t]
       PROVE  version'[wire'[t][n].cart] > 0
  <2>1. CASE t \in Joined
    <3>1. \A X : \A s \in Seq(X) : \A y : /\ DOMAIN Append(s, y) = DOMAIN s \cup {Len(s) + 1}
                                         /\ Append(s, y)[Len(s) + 1] = y
                                         /\ \A i \in DOMAIN s : Append(s, y)[i] = s[i] /\ i < Len(s) + 1
      OBVIOUS
    <3>2. wire'[t] = Append(wire[t], e) /\ wire[t] \in Seq(Sights)
      BY <1>3, <1>4, <2>1 DEF PageTypes
    <3>3. wire'[t][n] = e \/ (n \in DOMAIN wire[t] /\ wire'[t][n] = wire[t][n])
      BY <1>10, <3>1, <3>2
    <3> QED BY <1>3, <1>4, <3>3 DEF Known
  <2>2. CASE t \notin Joined
    BY <1>3, <1>4, <1>10, <2>2 DEF Known
  <2> QED BY <2>1, <2>2
<1>11. ASSUME NEW t \in Terminals, NEW d \in CartsOnShow, NEW v,
              d = c => v = x,
              d # c => Tuned(wire[t], fetches[t], missed[t], shown[t], d, v)
       PROVE  Tuned(wire'[t], fetches'[t], missed'[t], shown'[t], d, v)
  <2>1. fetches[t] \in Seq(Loads) /\ wire[t] \in Seq(Sights)
    BY PageHas
  <2>2. CASE t \in Joined
    <3>1. IF e.cart = d THEN e.sight = v ELSE Tuned(wire[t], fetches[t], missed[t], shown[t], d, v)
      BY <1>1, <1>11
    <3>2. Tuned(Append(wire[t], e), fetches[t], missed[t], shown[t], d, v)
      BY <2>1, <3>1, TunedEvent
    <3> QED BY <1>4, <1>6, <2>2, <3>2
  <2>3. CASE t \notin Joined
    <3>1. wire[t] = <<>>
      BY <1>3, <2>3 DEF PageTypes
    <3>2. Silent(wire[t], c)
      BY <3>1 DEF Silent
    <3>3. IF d = c THEN x = v ELSE Tuned(wire[t], fetches[t], missed[t], shown[t], d, v)
      BY <1>11
    <3>4. Tuned(wire[t], Outdate(fetches[t], c, x), missed[t] \cup {c}, shown[t], d, v)
      BY <1>2, <2>1, <3>2, <3>3, TunedMissed
    <3> QED BY <1>4, <1>6, <2>3, <3>4
  <2> QED BY <2>2, <2>3
<1>12. \A d : Visible(d)' = Visible(d)
  BY <1>4 DEF Visible
<1>13. \A t \in Terminals, d \in CartsOnShow : d # c /\ InTune(t, d) => InTune(t, d)'
  BY <1>11, <1>12 DEF InTune
<1>14. Steady(c)' => \A t \in Terminals : InTune(t, c)'
  <2>1. Steady(c)' => Visible(c) = x
    BY <1>1, <1>5 DEF Steady, Undisturbed
  <2> QED BY <1>2, <1>11, <1>12, <2>1 DEF InTune
<1>15. c \notin crossed' => InFlight(c)' = {}
  <2>1. Free.doc # c /\ k \in InFlight(c)
    BY <1>1, <1>2, Kinds DEF Free, InFlight
  <2>2. InFlight(c)' = InFlight(c) \ {k}
    BY <1>5, <2>1, FlightsOf
  <2>3. c \notin crossed => \A j \in InFlight(c) : j = k
    BY <1>2, <2>1, Kinds DEF Alone
  <2> QED BY <1>5, <2>2, <2>3
<1>16. Free.at \notin Announcing
  BY DEF Free, Announcing
<1>17. \A d \in CartsOnShow : version'[d] = version[d] /\ (d \in open' <=> d \in open)
  BY <1>4
<1>18. TerminalsOK'
  BY <1>2, <1>5, <1>7, <1>9, <1>10, <1>13, <1>14, <1>15, <1>16, <1>17, CartMoves
<1>19. Moving(k, {c})
  BY <1>5 DEF Moving
<1> QED BY <1>2, <1>18, <1>19, MovingWider

LEMMA EmitsKeep ==
  ASSUME TerminalsOK, Served, Alone, NEW k \in Slots, EmitCartUpdated(k) \/ EmitSaleCompleted(k)
  PROVE  TerminalsOK' /\ Moving(k, CartsOnShow)
<1>1. PICK e : /\ \/ e = [type |-> "cart:updated", cart |-> call[k].doc, sight |-> call[k].sum] /\ At(k, "emit_cart")
                  \/ e = [type |-> "sale:completed", cart |-> call[k].doc, sight |-> 0] /\ At(k, "emit_sale")
               /\ Emit(e) /\ Leave(k)
  <2>1. CASE EmitCartUpdated(k)
    BY <2>1 DEF EmitCartUpdated, Doc, Figure
  <2>2. CASE EmitSaleCompleted(k)
    BY <2>2 DEF EmitSaleCompleted, Doc
  <2> QED BY <2>1, <2>2
<1>2. call[k].at \in {"emit_cart", "emit_sale"} /\ Placed(call[k])
  BY <1>1 DEF Served, At
<1>3. call[k].doc \in CartsOnShow /\ call[k].sum \in Nat
  BY <1>2, PlacesOf DEF ForCarts
<1>4. e \in Sights /\ e.cart = call[k].doc
  BY <1>1, <1>3 DEF Sights
<1>5. version[e.cart] > 0
  BY <1>2, <1>4 DEF TerminalsOK, Known, Announcing, Doc
<1>6. k \in InFlight(e.cart)
  BY <1>4 DEF InFlight
<1>7. ASSUME e.cart \notin crossed
      PROVE  e.sight = Visible(e.cart)
  <2>1. /\ At(k, "emit_cart") => Figure(k) = Visible(e.cart)
        /\ At(k, "emit_sale") => e.cart \notin open
    BY <1>3, <1>4, <1>6, <1>7 DEF TerminalsOK, Announced
  <2>2. CASE At(k, "emit_cart")
    BY <1>1, <2>1, <2>2 DEF At, Figure
  <2>3. CASE At(k, "emit_sale")
    BY <1>1, <2>1, <2>3 DEF At, Visible
  <2> QED BY <1>1, <2>2, <2>3
<1> QED BY <1>1, <1>4, <1>5, <1>7, EmitKeeps

LEMMA CartStepKeeps ==
  ASSUME TerminalsOK, Served, Alone, NEW k \in Slots, CartStep(k)
  PROVE  TerminalsOK' /\ Moving(k, CartsOnShow)
<1>1. ASSUME NEW c \in CartsOnShow, OpenCart(k, c) \/ EditCart(k, c) \/ SellCart(k, c)
      PROVE  TerminalsOK' /\ Moving(k, CartsOnShow)
  <2>1. TerminalsOK' /\ Moving(k, {c})
    BY <1>1, OpenCartKeeps, ChangeCartKeeps
  <2>2. {c} \subseteq CartsOnShow
    OBVIOUS
  <2> QED BY <2>1, <2>2, MovingWider
<1>2. CASE Snapshot(k)
  BY <1>2, SnapshotKeeps
<1>3. CASE EmitCartUpdated(k) \/ EmitSaleCompleted(k)
  BY <1>3, EmitsKeep
<1> QED BY <1>1, <1>2, <1>3 DEF CartStep

LEMMA TerminalsStart == CallsInit /\ RealtimeInit => TerminalsOK
<1> SUFFICES ASSUME CallsInit, RealtimeInit PROVE TerminalsOK
  OBVIOUS
<1>1. /\ open = OldCarts /\ version = [c \in CartsOnShow |-> IF c \in open THEN 1 ELSE 0]
      /\ link = [t \in Terminals |-> "off"] /\ wire = [t \in Terminals |-> <<>>]
      /\ shown = [t \in Terminals |-> Blank] /\ fetches = [t \in Terminals |-> <<>>]
      /\ missed = [t \in Terminals |-> CartsOnShow]
  BY DEF RealtimeInit
<1>2. ServerTypes
  BY <1>1, RealtimeAssumption DEF ServerTypes
<1>3. \A X : <<>> \in Seq(X) /\ DOMAIN <<>> = {}
  OBVIOUS
<1>4. PageTypes
  <2>1. Blank \in [CartsOnShow -> Nat]
    BY DEF Blank
  <2>2. wire \in [Terminals -> Seq(Sights)] /\ fetches \in [Terminals -> Seq(Loads)]
    BY <1>1, <1>3
  <2> QED BY <1>1, <2>1, <2>2 DEF PageTypes
<1>5. \A k \in Slots : call[k].at \notin Announcing /\ call[k].at = "free"
  BY DEF CallsInit, Free, Announcing
<1>6. Known
  BY <1>1, <1>3, <1>5 DEF Known
<1>7. Announced
  BY <1>5 DEF Announced, At, InFlight
<1>8. ASSUME NEW t \in Terminals, NEW c \in CartsOnShow
      PROVE  InTune(t, c)
  <2>1. wire[t] = <<>> /\ fetches[t] = <<>> /\ missed[t] = CartsOnShow
    BY <1>1
  <2> QED BY <1>3, <2>1 DEF InTune, Tuned, LastSays, LoadsSay
<1> QED BY <1>2, <1>4, <1>6, <1>7, <1>8 DEF TerminalsOK, TerminalsHeld

\* The other steps of the API.
LEMMA TerminalsAside ==
  ASSUME TerminalsOK, Served', UNCHANGED realtimeVars, Quiet(CartsOnShow)
  PROVE  TerminalsOK'
<1>1. ServerTypes /\ PageTypes /\ Known /\ Announced /\ TerminalsHeld
  BY DEF TerminalsOK
<1>2. UNCHANGED <<version, open, link, wire, shown, fetches, missed>>
  BY DEF realtimeVars
<1>3. ServerTypes' /\ PageTypes'
  BY <1>1, <1>2 DEF ServerTypes, PageTypes, Joined
<1>4. ASSUME NEW k \in Slots, call'[k].at \in Announcing
      PROVE  version'[call'[k].doc] > 0
  <2>1. Placed(call'[k])
    BY DEF Served
  <2>2. call'[k].doc \in CartsOnShow
    BY <1>4, <2>1, PlacesOf DEF Announcing, ForCarts
  <2>3. call'[k] = call[k]
    BY <2>2 DEF Quiet, InFlight
  <2> QED BY <1>1, <1>2, <1>4, <2>3 DEF Known, Doc
<1>5. Known'
  BY <1>1, <1>2, <1>4 DEF Known, Doc
<1>6. \A c \in CartsOnShow : /\ InFlight(c)' = InFlight(c) /\ \A k \in InFlight(c) : call'[k] = call[k]
                             /\ (c \in crossed' <=> c \in crossed) /\ (Steady(c)' <=> Steady(c))
                             /\ Visible(c)' = Visible(c)
  BY <1>2 DEF Quiet, Steady, Undisturbed, Visible
<1>7. Announced'
  <2>1. ASSUME NEW c \in CartsOnShow \ crossed', NEW k \in InFlight(c)'
        PROVE  /\ call'[k].at = "emit_cart" => call'[k].sum = Visible(c)'
               /\ call'[k].at = "emit_sale" => c \notin open'
    BY <1>1, <1>2, <1>6, <2>1 DEF Announced, At, Figure
  <2> QED BY <2>1 DEF Announced, At, Figure
<1>8. TerminalsHeld'
  BY <1>1, <1>2, <1>6 DEF TerminalsHeld, InTune
<1> QED BY <1>3, <1>5, <1>7, <1>8 DEF TerminalsOK

LEMMA TerminalsAreInSync == TerminalsOK => InSync
<1> SUFFICES ASSUME TerminalsOK, NEW t \in Terminals, Settled(t), NEW c \in CartsOnShow \ missed[t],
                    Undisturbed(c), InFlight(c) = {}
             PROVE  shown[t][c] = Visible(c)
  BY DEF InSync
<1>1. InTune(t, c)
  BY DEF TerminalsOK, TerminalsHeld, Steady
<1>2. wire[t] = <<>> /\ fetches[t] = <<>> /\ c \notin missed[t]
  BY DEF Settled
<1>3. Silent(wire[t], c)
  BY <1>2 DEF Silent
<1> QED BY <1>1, <1>2, <1>3 DEF InTune, Tuned

LEMMA GoodsAreConserved == GoodsHeld => GoodsConserved
<1> SUFFICES ASSUME GoodsHeld PROVE GoodsConserved
  OBVIOUS
<1>1. \A t \in Moves : (move[t] = "RECEIVED" <=> credited[t] > 0) /\ (t \in crossed \/ credited[t] <= 1)
  BY DEF GoodsHeld, TransfersHeld, TransferHeld
<1>2. ASSUME NEW b \in Bins, b \notin rowless, Logged(b)
      PROVE  Quantity(b) = net[b] + (IF OpeningStock[b] = None THEN 0 ELSE OpeningStock[b])
  <2>1. PICK q, n, o : q = Quantity(b) /\ n = net[b] /\ o = Opening(b)
    OBVIOUS
  <2>2. q = n + o + SumFunctionOnSet(Deltas, Unlogged(b))
    BY <1>2, <2>1 DEF GoodsHeld, CountsHeld, RowHeld
  <2>3. Unlogged(b) = {}
    BY <1>2 DEF Unlogged, Logged, GoodsHeld, StockTypes
  <2>4. n \in Int /\ o \in Int
    BY <2>1, StockMovesAssumption DEF GoodsHeld, StockTypes, Opening
  <2>5. q = n + o
    BY <2>2, <2>3, <2>4, SumEmpty
  <2> QED BY <2>1, <2>5 DEF Opening
<1>3. \A b \in Bins : Lotted(b) =>
        lots[b] + SumFunctionOnSet(Taken, SoldFrom(b)) = OpeningLots[b] + bought[b]
  BY DEF GoodsHeld, SalesHeld, LotsHeld
<1> QED BY <1>1, <1>2, <1>3 DEF GoodsConserved

-----------------------------------------------------------------------------
(***************************************************************************)
(* All of it.  A step of one component is about documents of its own, and  *)
(* leaves those of the others quiet.                                       *)
(***************************************************************************)
IInv == Served /\ Alone /\ GoodsHeld /\ OrdersOK /\ RemindersOK /\ SessionsOK /\ TerminalsOK

\* What an unchanged component keeps while the documents it is about are quiet.
LEMMA Aside ==
  ASSUME IInv, Served'
  PROVE  /\ UNCHANGED stockVars /\ Quiet(Stocked) => GoodsHeld'
         /\ UNCHANGED reorderVars /\ Quiet({Checker}) => OrdersOK'
         /\ UNCHANGED reminderVars /\ Quiet({Agenda}) => RemindersOK'
         /\ UNCHANGED sessionVars /\ Quiet(Clients) => SessionsOK'
         /\ UNCHANGED realtimeVars /\ Quiet(CartsOnShow) => TerminalsOK'
<1>1. Served /\ GoodsHeld /\ OrdersOK /\ RemindersOK /\ SessionsOK /\ TerminalsOK
  BY DEF IInv
<1>2. UNCHANGED reminderVars => UNCHANGED <<reminder, mails, unmarked>> /\ overdue' \subseteq overdue
  BY DEF reminderVars
<1>3. UNCHANGED sessionVars => UNCHANGED <<token, stored, changed>>
  BY DEF sessionVars
<1>4. UNCHANGED stockVars /\ Quiet(Stocked) => GoodsHeld'
  BY <1>1, GoodsQuiet
<1>5. UNCHANGED reorderVars /\ Quiet({Checker}) => OrdersOK'
  BY <1>1, OrdersAside
<1>6. UNCHANGED reminderVars /\ Quiet({Agenda}) => RemindersOK'
  BY <1>1, <1>2, RemindersAside
<1>7. UNCHANGED sessionVars /\ Quiet(Clients) => SessionsOK'
  BY <1>1, <1>3, SessionsAside
<1>8. UNCHANGED realtimeVars /\ Quiet(CartsOnShow) => TerminalsOK'
  BY <1>1, TerminalsAside
<1> QED BY <1>4, <1>5, <1>6, <1>7, <1>8

LEMMA MovingKeeps ==
  ASSUME Served, Alone, NEW k \in Slots, NEW D, Moving(k, D)
  PROVE  /\ Served' /\ Alone'
         /\ \A E : E \cap D = {} /\ None \notin E => Quiet(E)
<1>1. PICK r : Moved(k, r, D)
  BY DEF Moving
<1> QED BY <1>1, MovedKeeps, MovedAway

\* Documents of one component are none of another.
LEMMA OwnDocuments ==
  /\ Stocked \cap ({Checker} \cup Products) = {} /\ Stocked \cap ({Agenda} \cup Bills) = {}
  /\ Stocked \cap Clients = {} /\ Stocked \cap CartsOnShow = {}
  /\ {Checker} \cap Stocked = {} /\ {Checker} \cap ({Agenda} \cup Bills) = {}
  /\ {Checker} \cap Clients = {} /\ {Checker} \cap CartsOnShow = {}
  /\ {Agenda} \cap Stocked = {} /\ {Agenda} \cap ({Checker} \cup Products) = {}
  /\ {Agenda} \cap Clients = {} /\ {Agenda} \cap CartsOnShow = {}
  /\ Clients \cap Stocked = {} /\ Clients \cap ({Checker} \cup Products) = {}
  /\ Clients \cap ({Agenda} \cup Bills) = {} /\ Clients \cap CartsOnShow = {}
  /\ CartsOnShow \cap Stocked = {} /\ CartsOnShow \cap ({Checker} \cup Products) = {}
  /\ CartsOnShow \cap ({Agenda} \cup Bills) = {} /\ CartsOnShow \cap Clients = {}
  /\ None \notin Stocked /\ None \notin {Checker} /\ None \notin {Agenda} /\ None \notin Clients
  /\ None \notin CartsOnShow
<1>1. /\ None \notin Stocked /\ None \notin {Checker} /\ None \notin {Agenda} /\ None \notin Clients
      /\ None \notin CartsOnShow
  BY Kinds
<1>2. /\ Stocked \cap ({Checker} \cup Products) = {} /\ Stocked \cap ({Agenda} \cup Bills) = {}
      /\ Stocked \cap Clients = {} /\ Stocked \cap CartsOnShow = {}
  BY Kinds
<1>3. /\ {Checker} \cap Stocked = {} /\ {Checker} \cap ({Agenda} \cup Bills) = {}
      /\ {Checker} \cap Clients = {} /\ {Checker} \cap CartsOnShow = {}
  BY Kinds
<1>4. /\ {Agenda} \cap Stocked = {} /\ {Agenda} \cap ({Checker} \cup Products) = {}
      /\ {Agenda} \cap Clients = {} /\ {Agenda} \cap CartsOnShow = {}
  BY Kinds
<1>5. /\ Clients \cap Stocked = {} /\ Clients \cap ({Checker} \cup Products) = {}
      /\ Clients \cap ({Agenda} \cup Bills) = {} /\ Clients \cap CartsOnShow = {}
  BY Kinds
<1>6. /\ CartsOnShow \cap Stocked = {} /\ CartsOnShow \cap ({Checker} \cup Products) = {}
      /\ CartsOnShow \cap ({Agenda} \cup Bills) = {} /\ CartsOnShow \cap Clients = {}
  BY Kinds
<1> QED BY <1>1, <1>2, <1>3, <1>4, <1>5, <1>6

LEMMA ServeKeeps ==
  ASSUME IInv, NEW k \in Slots, Serve(k)
  PROVE  IInv'
<1>1. Served /\ Alone /\ GoodsHeld /\ OrdersOK /\ RemindersOK /\ SessionsOK /\ TerminalsOK
  BY DEF IInv
<1>2. CASE StockStep(k) /\ UNCHANGED <<reorderVars, reminderVars, sessionVars, realtimeVars>>
  <2>1. GoodsHeld' /\ \E r : \E d \in Stocked : Moved(k, r, {d})
    BY <1>1, <1>2, StockStepKeeps
  <2>2. PICK d \in Stocked : Moving(k, {d}) /\ {d} \subseteq Stocked
    BY <2>1 DEF Moving
  <2>3. Moving(k, Stocked)
    BY <2>2, MovingWider
  <2>4. Served' /\ Alone' /\ Quiet({Checker}) /\ Quiet({Agenda}) /\ Quiet(Clients) /\ Quiet(CartsOnShow)
    BY <1>1, <2>3, MovingKeeps, OwnDocuments
  <2> QED BY <1>2, <2>1, <2>4, Aside DEF IInv
<1>3. CASE ReorderStep(k) /\ UNCHANGED <<reminderVars, sessionVars, realtimeVars>>
  <2>1. GoodsHeld' /\ OrdersOK' /\ Moving(k, {Checker} \cup Products)
    BY <1>1, <1>3, ReorderStepKeeps
  <2>2. Served' /\ Alone' /\ Quiet({Agenda}) /\ Quiet(Clients) /\ Quiet(CartsOnShow)
    BY <1>1, <2>1, MovingKeeps, OwnDocuments
  <2> QED BY <1>3, <2>1, <2>2, Aside DEF IInv
<1>4. CASE RemindersStep(k) /\ UNCHANGED <<goodsVars, sessionVars, realtimeVars>>
  <2>1. RemindersOK' /\ Moving(k, {Agenda} \cup Bills)
    BY <1>1, <1>4, RemindersStepKeeps
  <2>2. Served' /\ Alone' /\ Quiet(Stocked) /\ Quiet({Checker}) /\ Quiet(Clients) /\ Quiet(CartsOnShow)
    BY <1>1, <2>1, MovingKeeps, OwnDocuments
  <2> QED BY <1>4, <2>1, <2>2, Aside DEF IInv, goodsVars
<1>5. CASE SessionsStep(k) /\ UNCHANGED <<goodsVars, reminderVars, realtimeVars>>
  <2>1. SessionsOK' /\ Moving(k, Clients)
    BY <1>1, <1>5, SessionsStepKeeps
  <2>2. Served' /\ Alone' /\ Quiet(Stocked) /\ Quiet({Checker}) /\ Quiet({Agenda}) /\ Quiet(CartsOnShow)
    BY <1>1, <2>1, MovingKeeps, OwnDocuments
  <2> QED BY <1>5, <2>1, <2>2, Aside DEF IInv, goodsVars
<1>6. CASE CartStep(k) /\ UNCHANGED <<goodsVars, reminderVars, sessionVars>>
  <2>1. TerminalsOK' /\ Moving(k, CartsOnShow)
    BY <1>1, <1>6, CartStepKeeps
  <2>2. Served' /\ Alone' /\ Quiet(Stocked) /\ Quiet({Checker}) /\ Quiet({Agenda}) /\ Quiet(Clients)
    BY <1>1, <2>1, MovingKeeps, OwnDocuments
  <2> QED BY <1>6, <2>1, <2>2, Aside DEF IInv, goodsVars
<1> QED BY <1>2, <1>3, <1>4, <1>5, <1>6 DEF Serve

\* Without a change of the requests, every document is quiet.
LEMMA CallsAside ==
  ASSUME IInv, UNCHANGED callVars
  PROVE  Served' /\ Alone' /\ \A D : Quiet(D)
BY DEF IInv, callVars, Served, Alone, Quiet, InFlight

LEMMA AroundKeeps ==
  ASSUME IInv, Around
  PROVE  IInv'
<1>1. Served /\ SessionsOK /\ TerminalsOK
  BY DEF IInv
<1>2. ASSUME NEW c \in Clients, Expire(c), UNCHANGED <<goodsVars, reminderVars, realtimeVars>>
      PROVE  IInv'
  <2>1. SessionsOK' /\ UNCHANGED callVars
    BY <1>1, <1>2, ExpireKeeps DEF Expire
  <2>2. Served' /\ Alone' /\ \A D : Quiet(D)
    BY <2>1, CallsAside
  <2> QED BY <1>2, <2>1, <2>2, Aside DEF IInv, goodsVars
<1>3. ASSUME NEW t \in Terminals, TerminalStep(t), UNCHANGED <<goodsVars, reminderVars, sessionVars>>
      PROVE  IInv'
  <2>1. TerminalsOK' /\ UNCHANGED callVars
    BY <1>1, <1>3, TerminalStepKeeps
  <2>2. Served' /\ Alone' /\ \A D : Quiet(D)
    BY <2>1, CallsAside
  <2> QED BY <1>3, <2>1, <2>2, Aside DEF IInv, goodsVars
<1> QED BY <1>2, <1>3 DEF Around

LEMMA RestartKeeps ==
  ASSUME IInv, Restart
  PROVE  IInv'
<1>1. Served /\ GoodsHeld /\ OrdersOK /\ RemindersOK /\ SessionsOK /\ TerminalsOK
  BY DEF IInv
<1>2. /\ Crash /\ SocketsDrop
      /\ UNCHANGED stockVars /\ UNCHANGED reorderVars /\ UNCHANGED reminderVars /\ UNCHANGED sessionVars
  BY DEF Restart, goodsVars
<1>3. Served' /\ Alone'
  BY <1>1, <1>2, CrashClears
<1>4. GoodsHeld'
  BY <1>1, <1>2, GoodsCrash
<1>5. OrdersOK'
  BY <1>1, <1>2, OrdersCrash
<1>6. RemindersOK'
  BY <1>1, <1>2, RemindersCrash
<1>7. SessionsOK'
  BY <1>1, <1>2, SessionsCrash
<1>8. TerminalsOK'
  BY <1>1, <1>2, TerminalsCrash
<1> QED BY <1>3, <1>4, <1>5, <1>6, <1>7, <1>8 DEF IInv

LEMMA Starts == Init => IInv
<1> SUFFICES ASSUME Init PROVE IInv
  OBVIOUS
<1>1. CallsInit /\ StockInit /\ ReorderInit /\ RemindersInit /\ SessionsInit /\ RealtimeInit
  BY DEF Init
<1>2. Placed(Free)
  BY DEF Placed, Record, Free
<1>3. Served
  BY <1>1, <1>2 DEF Served, CallsInit
<1>4. Alone
  <2>1. \A d \in Docs : InFlight(d) = {}
    BY <1>1, Kinds DEF CallsInit, InFlight, Free
  <2> QED BY <2>1 DEF Alone
<1>5. GoodsHeld /\ OrdersOK /\ RemindersOK /\ SessionsOK /\ TerminalsOK
  BY <1>1, GoodsStart, OrdersStart, RemindersStart, SessionsStart, TerminalsStart
<1> QED BY <1>3, <1>4, <1>5 DEF IInv

\* The invariant of the specification.
THEOREM Invariance == Spec => []IInv
<1>1. Init => IInv
  BY Starts
<1>2. IInv /\ [Next]_vars => IInv'
  <2> SUFFICES ASSUME IInv, [Next]_vars PROVE IInv'
    OBVIOUS
  <2>1. CASE \E k \in Slots : Serve(k)
    BY <2>1, ServeKeeps
  <2>2. CASE Around
    BY <2>2, AroundKeeps
  <2>3. CASE Restart
    BY <2>3, RestartKeeps
  <2>4. CASE UNCHANGED vars
    <3>1. /\ UNCHANGED callVars /\ UNCHANGED stockVars /\ UNCHANGED reorderVars
          /\ UNCHANGED reminderVars /\ UNCHANGED sessionVars /\ UNCHANGED realtimeVars
      BY <2>4 DEF vars
    <3>2. Served' /\ Alone' /\ \A D : Quiet(D)
      BY <3>1, CallsAside
    <3> QED BY <3>1, <3>2, Aside DEF IInv
  <2> QED BY <2>1, <2>2, <2>3, <2>4 DEF Next
<1> QED BY <1>1, <1>2, PTL DEF Spec

-----------------------------------------------------------------------------
(***************************************************************************)
(* A transfer is credited if and only if it is received, and once, unless  *)
(* two receptions crossed; a row of stock is what its movements make of    *)
(* it, unless an adjustment is under way or stopped; the lots of a bin are *)
(* what was bought less what was sold, whatever ran at the same time.      *)
(***************************************************************************)
THEOREM GoodsStayConserved == Spec => []GoodsConserved
<1>1. IInv => GoodsConserved
  BY GoodsAreConserved DEF IInv
<1> QED BY <1>1, Invariance, PTL

(***************************************************************************)
(* No bin is on two open orders, drafted by hand or by timer, unless two   *)
(* runs of the check crossed.                                              *)
(***************************************************************************)
THEOREM OrdersStayApart == Spec => []OrderedOnce
<1>1. IInv => OrderedOnce
  BY OrdersDrafted DEF IInv
<1> QED BY <1>1, Invariance, PTL

(***************************************************************************)
(* A reminder marked SENT was sent.  Until two runs cross or one stops,    *)
(* each message is one reminder that is marked, being marked or failed,    *)
(* and one reminder of a bill waits at most.                               *)
(***************************************************************************)
THEOREM RemindersStaySingle == Spec => []RemindedOnce
<1>1. IInv => RemindedOnce
  BY RemindersAreKept DEF IInv
<1> QED BY <1>1, Invariance, PTL

(***************************************************************************)
(* The live tokens of a user are those that the user's clients keep, one   *)
(* each, unless exchanges of a client crossed or stopped or the password   *)
(* changed.                                                                *)
(***************************************************************************)
THEOREM SessionsStay == Spec => []SessionKept
<1>1. IInv => SessionKept
  BY SessionsAreKept DEF IInv
<1> QED BY <1>1, Invariance, PTL

(***************************************************************************)
(* A terminal in the room that waits for nothing shows every cart as it    *)
(* is, in whatever order events, loads and cuts of its socket fell: every  *)
(* cart that it was not kept from learning of, and whose requests never    *)
(* crossed.                                                                *)
(***************************************************************************)
THEOREM TerminalsStayInSync == Spec => []InSync
<1>1. IInv => InSync
  BY TerminalsAreInSync DEF IInv
<1> QED BY <1>1, Invariance, PTL
=============================================================================
