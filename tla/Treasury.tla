------------------------------ MODULE Treasury ------------------------------
(***************************************************************************)
(* Transfers of funds, cash register sessions, and the entries of sales    *)
(* (treasury/transfers.service.ts, pos/registers.service.ts,               *)
(* treasury-posting.service.ts, accounting/sales-posting.service.ts).      *)
(*                                                                         *)
(* Completing a transfer posts its entry and then overwrites its status.   *)
(* Closing a session sums its CASH tenders, writes the balance it expects, *)
(* and books the difference with what was counted.  A sale joins a session *)
(* by the id it is sent with; its payments are what the customer tendered, *)
(* while its entry takes the change off the CASH ones.                     *)
(***************************************************************************)
EXTENDS Ledger, SequencesExt

CONSTANTS Transfers,  \* documents that are transfers
          Route,      \* Route[t]: from, to, amount
          Registers,  \* documents that are registers
          Sessions,   \* Sessions[s]: the register of session s
          Opening,    \* the opening balance of a session
          Tickets,    \* documents that are sales
          Ticket,     \* Ticket[v]: session or None, ht, tva, payments
          Shortfalls  \* what the count may lack

ASSUME TreasuryAssumption ==
  /\ Transfers \cup Registers \cup DOMAIN Sessions \cup Tickets \subseteq Docs
  /\ Route \in [Transfers -> [from : Nat, to : Nat, amount : Nat]]
  /\ \A s \in DOMAIN Sessions : Sessions[s] \in Registers
  /\ Opening \in Nat /\ Shortfalls \subseteq Nat
  /\ \A v \in Tickets : /\ Ticket[v].session \in DOMAIN Sessions \cup {None}
                        /\ Ticket[v].ht \in Nat /\ Ticket[v].tva \in Nat
                        /\ Ticket[v].payments \in Seq([method : STRING, amount : Nat])

VARIABLES transfer,   \* transfer[t]: its status, or "absent"
          session,    \* session[s]: status, opening, closing, expected
          sold,       \* sales that are committed
          late        \* sessions a sale joined once their takings were summed

treasuryVars == <<transfer, session, sold, late>>

NoSession == [status |-> "absent", closing |-> 0, expected |-> 0]

TreasuryInit ==
  /\ transfer = [t \in Transfers |-> "absent"]
  /\ session = [s \in DOMAIN Sessions |-> NoSession]
  /\ sold = {}
  /\ late = {}

TreasuryTypeOK ==
  /\ transfer \in [Transfers -> {"absent", "PENDING", "COMPLETED", "CANCELLED"}]
  /\ \A s \in DOMAIN session : /\ session[s].status \in {"absent", "OPEN", "CLOSED"}
                               /\ session[s].closing \in Nat /\ session[s].expected \in Nat
  /\ sold \subseteq Tickets
  /\ late \subseteq DOMAIN Sessions

-----------------------------------------------------------------------------
(***************************************************************************)
(* Transfers.                                                              *)
(***************************************************************************)
CreateTransfer(k, t) ==
  /\ AtOnce(k, t)
  /\ transfer[t] = "absent"
  /\ transfer' = [transfer EXCEPT ![t] = "PENDING"]
  /\ UNCHANGED <<journal, session, sold, late>>

CompleteTransfer(k, t) ==
  /\ transfer[t] = "PENDING"
  /\ Enter(k, "post_transfer", t, 0, <<>>)
  /\ UNCHANGED <<journal, treasuryVars>>

\* postCashTransfer: when posting fails the transfer stays as it is.
PostTransfer(k) ==
  /\ At(k, "post_transfer")
  /\ Post(Doc(k), "OD", <<Debit(Route[Doc(k)].to, Route[Doc(k)].amount),
                          Credit(Route[Doc(k)].from, Route[Doc(k)].amount)>>)
  /\ Goto(k, "mark_transfer")
  /\ UNCHANGED treasuryVars

TransferUnposted(k) ==
  /\ At(k, "post_transfer")
  /\ Leave(k)
  /\ UNCHANGED <<journal, treasuryVars>>

MarkTransfer(k) ==
  /\ At(k, "mark_transfer")
  /\ transfer' = [transfer EXCEPT ![Doc(k)] = "COMPLETED"]
  /\ Leave(k)
  /\ UNCHANGED <<journal, session, sold, late>>

CancelTransfer(k, t) ==
  /\ transfer[t] = "PENDING"
  /\ Enter(k, "cancel_transfer", t, 0, <<>>)
  /\ UNCHANGED <<journal, treasuryVars>>

MarkCancelled(k) ==
  /\ At(k, "cancel_transfer")
  /\ transfer' = [transfer EXCEPT ![Doc(k)] = "CANCELLED"]
  /\ Leave(k)
  /\ UNCHANGED <<journal, session, sold, late>>

-----------------------------------------------------------------------------
(***************************************************************************)
(* Sales: what each tender brings to the ledger, the change taken off the  *)
(* CASH ones in the order of the payments.                                 *)
(***************************************************************************)
Due(v)       == Ticket[v].ht + Ticket[v].tva
Tender(v, n) == Ticket[v].payments[n].amount
Cash(v)      == {n \in DOMAIN Ticket[v].payments : Ticket[v].payments[n].method = "CASH"}

\* Mutant: every payment counts as cash.
TenderedAny(v) == SumFunction([n \in DOMAIN Ticket[v].payments |-> Tender(v, n)])

Tendered(v) == SumFunction([n \in Cash(v) |-> Tender(v, n)])

Paid(v)   == SumFunction([n \in DOMAIN Ticket[v].payments |-> Tender(v, n)])
Change(v) == Max({0, Paid(v) - Due(v)})

NetTender(v, n) ==
  LET before == SumFunction([m \in {i \in Cash(v) : i < n} |-> Tender(v, m)])
  IN IF n \in Cash(v) THEN Tender(v, n) - Min({Tender(v, n), Max({0, Change(v) - before})})
     ELSE Tender(v, n)

AccountOf(method) == CASE method = "CASH" -> 571 [] method = "CREDIT" -> 411 [] OTHER -> 521

\* The lines of the entry: one per tender, then the sale and its VAT.
SaleLine(v, n) ==
  CASE n <= Len(Ticket[v].payments)    -> Debit(AccountOf(Ticket[v].payments[n].method), NetTender(v, n))
    [] n = Len(Ticket[v].payments) + 1 -> Credit(701, Ticket[v].ht)
    [] OTHER                           -> Credit(4431, Ticket[v].tva)

\* Those without an amount are left out; the others keep their numbers.
SaleLines(v) ==
  [n \in {m \in 1..(Len(Ticket[v].payments) + 2) : IfAny(SaleLine(v, m)) # <<>>} |-> SaleLine(v, n)]

\* The session a sale names is not looked at; summed sessions miss it.
Summed(s) == session[s].status = "CLOSED" \/ \E k \in InFlight(s) : At(k, "close_session")

\* Only CASH alone may exceed what is due.
Covers(v) ==
  /\ Paid(v) >= Due(v)
  /\ DOMAIN Ticket[v].payments # Cash(v) => Paid(v) <= Due(v)

Checkout(k, v) ==
  LET s == Ticket[v].session
  IN /\ v \notin sold
     /\ Covers(v)
     /\ s # None => session[s].status # "absent"
     /\ sold' = sold \cup {v}
     /\ late' = late \cup {t \in DOMAIN Sessions : t = s /\ Summed(t)}
     /\ Enter(k, "post_sale", v, 0, <<>>)
     /\ UNCHANGED <<journal, transfer, session>>

PostSale(k) ==
  /\ At(k, "post_sale")
  /\ Post(Doc(k), "VE", SaleLines(Doc(k)))
  /\ Leave(k)
  /\ UNCHANGED treasuryVars

SaleUnposted(k) ==
  /\ At(k, "post_sale")
  /\ Fail(k)
  /\ UNCHANGED <<journal, treasuryVars>>

-----------------------------------------------------------------------------
(***************************************************************************)
(* Sessions.                                                               *)
(***************************************************************************)
InSession(s) == {v \in sold : Ticket[v].session = s}
Open(r)      == {s \in DOMAIN Sessions : Sessions[s] = r /\ session[s].status = "OPEN"}

OpenSession(k, r) ==
  /\ Open(r) = {}
  /\ Enter(k, "open_session", r, 0, <<>>)
  /\ UNCHANGED <<journal, treasuryVars>>

InsertSession(k) ==
  /\ At(k, "open_session")
  /\ \E s \in DOMAIN Sessions :
       /\ Sessions[s] = Doc(k) /\ session[s].status = "absent"
       /\ session' = [session EXCEPT ![s].status = "OPEN"]
  /\ Leave(k)
  /\ UNCHANGED <<journal, transfer, sold, late>>

CloseSession(k, s) ==
  /\ session[s].status = "OPEN"
  /\ Enter(k, "sum_takings", s, 0, <<>>)
  /\ UNCHANGED <<journal, treasuryVars>>

SumTakings(k) ==
  /\ At(k, "sum_takings")
  /\ GotoWith(k, "close_session", Opening + SumFunction([v \in InSession(Doc(k)) |-> Tendered(v)]))
  /\ UNCHANGED <<journal, treasuryVars>>

\* What the drawer holds: the change has left it.
Drawer(s) == Opening + SumFunction([v \in InSession(s) |-> Tendered(v) - Change(v)])

WriteClosed(k) ==
  /\ At(k, "close_session")
  /\ \E short \in Shortfalls :
       session' = [session EXCEPT ![Doc(k)] =
         [status |-> "CLOSED", closing |-> Drawer(Doc(k)) - short, expected |-> Figure(k)]]
  /\ Goto(k, "post_variance")
  /\ UNCHANGED <<journal, transfer, sold, late>>

Variance(s) == session[s].closing - session[s].expected

\* postSessionVariance: 65 for what is missing, 75 for what is in excess.
VarianceLines(s) ==
  IF Variance(s) < 0 THEN <<Debit(65, 0 - Variance(s)), Credit(571, 0 - Variance(s))>>
                     ELSE <<Debit(571, Variance(s)), Credit(75, Variance(s))>>

PostVariance(k) ==
  /\ At(k, "post_variance")
  /\ IF Variance(Doc(k)) = 0 THEN UNCHANGED journal
     ELSE Post(Doc(k), "CA", VarianceLines(Doc(k)))
  /\ Leave(k)
  /\ UNCHANGED treasuryVars

VarianceUnposted(k) ==
  /\ At(k, "post_variance")
  /\ Fail(k)
  /\ UNCHANGED <<journal, treasuryVars>>

TreasuryStep(k) ==
  \/ \E t \in Transfers : CreateTransfer(k, t) \/ CompleteTransfer(k, t) \/ CancelTransfer(k, t)
  \/ PostTransfer(k) \/ TransferUnposted(k) \/ MarkTransfer(k) \/ MarkCancelled(k)
  \/ \E v \in Tickets : Checkout(k, v)
  \/ PostSale(k) \/ SaleUnposted(k)
  \/ \E r \in Registers : OpenSession(k, r)
  \/ \E s \in DOMAIN Sessions : CloseSession(k, s)
  \/ InsertSession(k) \/ SumTakings(k) \/ WriteClosed(k) \/ PostVariance(k) \/ VarianceUnposted(k)

-----------------------------------------------------------------------------
\* Sessions nothing disturbed: closed once, with every entry made.
Settled(s) ==
  /\ session[s].status = "CLOSED"
  /\ Undisturbed(s) /\ s \notin late /\ InFlight(s) = {}
  /\ \A v \in InSession(s) : Undisturbed(v) /\ InFlight(v) = {}

OnTill(d) ==
  SumFunction([l \in {i \in LineIds : i[1][1] = d /\ Line(i).account = 571} |->
                 Line(l).debit - Line(l).credit])

(***************************************************************************)
(* Once a session is closed and posted, account 571 has moved by what the  *)
(* drawer gained less the change handed back: the change is both left out  *)
(* of the sale's entry and counted missing at the close.  This holds       *)
(* unless a sale joined while or after the takings were summed.            *)
(***************************************************************************)
TillIsBooked ==
  \A s \in DOMAIN Sessions : Settled(s) =>
    OnTill(s) + SumFunction([v \in InSession(s) |-> OnTill(v)])
      = session[s].closing - Opening - SumFunction([v \in InSession(s) |-> Change(v)])

(***************************************************************************)
(* postSessionVariance books the difference "compté - attendu": when the   *)
(* drawer holds what the sales left in it, no shortage is booked.          *)
(***************************************************************************)
NoFalseShortage ==
  \A s \in DOMAIN Sessions :
    Settled(s) /\ session[s].closing = Drawer(s) => journal[s] = <<>>
=============================================================================
