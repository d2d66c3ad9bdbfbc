------------------------------ MODULE Invoices ------------------------------
(***************************************************************************)
(* Invoices, the credit limit of a customer, and payment schedules         *)
(* (accounting/invoices.service.ts, credit-control).                       *)
(*                                                                         *)
(* validate posts the entry, marks the invoice, and then weighs what the   *)
(* customer owes against the credit limit, each on its own; a customer     *)
(* over the limit is blocked.  Nothing in the API records a payment of an  *)
(* invoice, so that what a customer owes is the sum of the validated ones. *)
(***************************************************************************)
EXTENDS Ledger, SequencesExt

CONSTANTS Invs,      \* documents that are invoices
          Drafts,    \* invoices there at the start, among them those of suppliers
          Bill,      \* Bill[i]: type, customer, account of the party, ht, tva
          Customers,
          Limit,     \* Limit[c]: creditLimit
          Overdue,   \* invoices overdue beyond criticalDays
          Plan,      \* Plan[i]: amounts of the installments asked for
          PastDue,   \* numbers of the installments whose due date has passed
          Company    \* the document of requests about the whole company

ASSUME InvoicesAssumption ==
  /\ Invs \cup {Company} \subseteq Docs /\ Drafts \subseteq Invs
  /\ Bill \in [Invs -> [type : {"CUSTOMER", "SUPPLIER"}, customer : Customers \cup {None},
                        account : Nat, ht : Nat, tva : Nat]]
  /\ \A i \in Invs : Bill[i].type = "CUSTOMER" => Bill[i].customer \in Customers
  /\ Limit \in [Customers -> Nat]

VARIABLES invoice,   \* invoice[i]: its status, or "absent"
          blocked,   \* blocked[c]: isBlocked
          notices,   \* notices[c]: CRITICAL notifications about c
          schedule,  \* schedule[i]: statuses of its installments
          excused    \* customers unblocked by hand since their last validation

invoiceVars == <<invoice, blocked, notices, schedule, excused>>

InvoicesInit ==
  /\ invoice = [i \in Invs |-> IF i \in Drafts THEN "DRAFT" ELSE "absent"]
  /\ blocked = [c \in Customers |-> FALSE]
  /\ notices = [c \in Customers |-> 0]
  /\ schedule = [i \in Invs |-> <<>>]
  /\ excused = {}

InvoicesTypeOK ==
  /\ invoice \in [Invs -> {"absent", "DRAFT", "VALIDATED"}]
  /\ blocked \in [Customers -> BOOLEAN]
  /\ notices \in [Customers -> 0..MaxCalls]
  /\ \A i \in Invs : /\ Len(schedule[i]) \in {0, Len(Plan[i])}
                     /\ ToSet(schedule[i]) \subseteq {"PENDING", "OVERDUE", "PAID"}
  /\ excused \subseteq Customers

Party(k)  == Bill[Doc(k)].customer
Ttc(i)    == Bill[i].ht + Bill[i].tva

-----------------------------------------------------------------------------
\* create: the customer of a CUSTOMER invoice must not be blocked when it is
\* read; a SUPPLIER invoice may name one too.  The row is a new one, with an id of its own: no other request is about it.
CreateInvoice(k, i) ==
  /\ invoice[i] = "absent" /\ InFlight(i) = {}
  /\ Bill[i].type = "CUSTOMER" => ~blocked[Bill[i].customer]
  /\ Enter(k, "insert_invoice", i, 0, <<>>)
  /\ UNCHANGED <<journal, invoiceVars>>

InsertInvoice(k) ==
  /\ At(k, "insert_invoice")
  /\ invoice' = [invoice EXCEPT ![Doc(k)] = "DRAFT"]
  /\ Leave(k)
  /\ UNCHANGED <<journal, blocked, notices, schedule, excused>>

\* Mutant: the status of the invoice is not looked at.
ValidateAgain(k, i) ==
  /\ invoice[i] # "absent"
  /\ Enter(k, "post_invoice", i, 0, <<>>)
  /\ UNCHANGED <<journal, invoiceVars>>

ValidateInvoice(k, i) ==
  /\ invoice[i] = "DRAFT"
  /\ Enter(k, "post_invoice", i, 0, <<>>)
  /\ UNCHANGED <<journal, invoiceVars>>

InvoiceLines(i) ==
  IF Bill[i].type = "CUSTOMER"
  THEN <<Debit(Bill[i].account, Ttc(i)), Credit(701, Bill[i].ht)>>
         \o IfAny(Credit(4431, Bill[i].tva))
  ELSE <<Debit(601, Bill[i].ht)>> \o IfAny(Debit(4452, Bill[i].tva))
         \o <<Credit(Bill[i].account, Ttc(i))>>

PostInvoice(k) ==
  /\ At(k, "post_invoice")
  /\ Post(Doc(k), IF Bill[Doc(k)].type = "CUSTOMER" THEN "VE" ELSE "AC", InvoiceLines(Doc(k)))
  /\ Goto(k, "mark_invoice")
  /\ UNCHANGED invoiceVars

\* No journal, or no accounting period: the request is refused.
InvoiceRefused(k) ==
  /\ At(k, "post_invoice")
  /\ Leave(k)
  /\ UNCHANGED <<journal, invoiceVars>>

MarkInvoice(k) ==
  /\ At(k, "mark_invoice")
  /\ invoice' = [invoice EXCEPT ![Doc(k)] = "VALIDATED"]
  /\ IF Bill[Doc(k)].type = "CUSTOMER"
     THEN Goto(k, "evaluate") /\ excused' = excused \ {Party(k)}
     ELSE Leave(k) /\ UNCHANGED excused
  /\ UNCHANGED <<journal, blocked, notices, schedule>>

-----------------------------------------------------------------------------
(***************************************************************************)
(* evaluateCreditLimit: the customer, then the invoices, then the update.  *)
(***************************************************************************)
Validated(c) ==
  {i \in Invs : Bill[i].type = "CUSTOMER" /\ Bill[i].customer = c /\ invoice[i] = "VALIDATED"}
Outstanding(c) == SumFunction([i \in Validated(c) |-> Ttc(i)])

Evaluate(k) ==
  /\ At(k, "evaluate")
  /\ IF blocked[Party(k)] THEN Leave(k) ELSE Goto(k, "outstanding")
  /\ UNCHANGED <<journal, invoiceVars>>

\* Mutant: the invoice being validated is not counted.
WeighOthers(k) ==
  /\ At(k, "outstanding")
  /\ IF Outstanding(Party(k)) - Ttc(Doc(k)) > Limit[Party(k)] THEN Goto(k, "block") ELSE Leave(k)
  /\ UNCHANGED <<journal, invoiceVars>>

WeighLimit(k) ==
  /\ At(k, "outstanding")
  /\ IF Outstanding(Party(k)) > Limit[Party(k)] THEN Goto(k, "block") ELSE Leave(k)
  /\ UNCHANGED <<journal, invoiceVars>>

BlockOverLimit(k) ==
  /\ At(k, "block")
  /\ blocked' = [blocked EXCEPT ![Party(k)] = TRUE]
  /\ Leave(k)
  /\ UNCHANGED <<journal, invoice, notices, schedule, excused>>

BlockByHand(k, c) ==
  /\ AtOnce(k, Company)
  /\ blocked' = [blocked EXCEPT ![c] = TRUE]
  /\ UNCHANGED <<journal, invoice, notices, schedule, excused>>

Unblock(k, c) ==
  /\ AtOnce(k, Company)
  /\ blocked' = [blocked EXCEPT ![c] = FALSE]
  /\ excused' = excused \cup {c}
  /\ UNCHANGED <<journal, invoice, notices, schedule>>

(***************************************************************************)
(* runOverdueCheck: one customer after the other.                          *)
(***************************************************************************)
OverdueCheck(k) ==
  /\ Enter(k, "sweep", Company, 0,
           SetToSeq({c \in Customers : Validated(c) \cap Overdue # {}}))
  /\ UNCHANGED <<journal, invoiceVars>>

Sweep(k) ==
  /\ At(k, "sweep")
  /\ \/ Todo(k) = <<>> /\ Leave(k)
     \/ Todo(k) # <<>> /\ blocked[Head(Todo(k))] /\ GotoLeft(k, "sweep", Tail(Todo(k)))
     \/ Todo(k) # <<>> /\ ~blocked[Head(Todo(k))] /\ Goto(k, "sweep_block")
  /\ UNCHANGED <<journal, invoiceVars>>

SweepBlock(k) ==
  /\ At(k, "sweep_block")
  /\ blocked' = [blocked EXCEPT ![Head(Todo(k))] = TRUE]
  /\ Goto(k, "sweep_notice")
  /\ UNCHANGED <<journal, invoice, notices, schedule, excused>>

SweepNotice(k) ==
  /\ At(k, "sweep_notice")
  /\ notices' = [notices EXCEPT ![Head(Todo(k))] = @ + 1]
  /\ GotoLeft(k, "sweep", Tail(Todo(k)))
  /\ UNCHANGED <<journal, invoice, blocked, schedule, excused>>

-----------------------------------------------------------------------------
(***************************************************************************)
(* Installments.  [invoiceId, installmentNumber] is unique: of two         *)
(* concurrent schedules one is refused whole.                              *)
(***************************************************************************)
Generate(k, i) ==
  LET off == SumFunction(Plan[i]) - Ttc(i)
  IN /\ invoice[i] # "absent"
     /\ schedule[i] = <<>>
     /\ off \in 0 - 50..50
     /\ Enter(k, "insert_schedule", i, 0, <<>>)
     /\ UNCHANGED <<journal, invoiceVars>>

InsertSchedule(k) ==
  /\ At(k, "insert_schedule")
  /\ IF schedule[Doc(k)] = <<>>
     THEN schedule' = [schedule EXCEPT ![Doc(k)] = [n \in DOMAIN Plan[Doc(k)] |-> "PENDING"]]
     ELSE UNCHANGED schedule
  /\ Leave(k)
  /\ UNCHANGED <<journal, invoice, blocked, notices, excused>>

MarkPaid(k, i) ==
  /\ \E n \in DOMAIN schedule[i] : /\ schedule[i][n] # "PAID"
                                   /\ Enter(k, "mark_paid", i, n, <<>>)
  /\ UNCHANGED <<journal, invoiceVars>>

SetPaid(k) ==
  /\ At(k, "mark_paid")
  /\ schedule' = [schedule EXCEPT ![Doc(k)][Figure(k)] = "PAID"]
  /\ Leave(k)
  /\ UNCHANGED <<journal, invoice, blocked, notices, excused>>

MarkOverdue(k) ==
  /\ AtOnce(k, Company)
  /\ schedule' = [i \in Invs |-> [n \in DOMAIN schedule[i] |->
       IF n \in PastDue /\ schedule[i][n] = "PENDING" THEN "OVERDUE" ELSE schedule[i][n]]]
  /\ UNCHANGED <<journal, invoice, blocked, notices, excused>>

InvoicesStep(k) ==
  \/ \E i \in Invs : \/ CreateInvoice(k, i) \/ ValidateInvoice(k, i)
                     \/ Generate(k, i) \/ MarkPaid(k, i)
  \/ InsertInvoice(k) \/ PostInvoice(k) \/ InvoiceRefused(k) \/ MarkInvoice(k)
  \/ Evaluate(k) \/ WeighLimit(k) \/ BlockOverLimit(k)
  \/ \E c \in Customers : BlockByHand(k, c) \/ Unblock(k, c)
  \/ OverdueCheck(k) \/ Sweep(k) \/ SweepBlock(k) \/ SweepNotice(k)
  \/ InsertSchedule(k) \/ SetPaid(k) \/ MarkOverdue(k)

-----------------------------------------------------------------------------
(***************************************************************************)
(* A customer who owes more than the limit is blocked, or a request that   *)
(* validated an invoice of theirs has yet to look, or someone unblocked    *)
(* them after their last validation, or the request stopped before looking.*)
(***************************************************************************)
OverLimitIsBlocked ==
  \A c \in Customers :
    Outstanding(c) > Limit[c] =>
      \/ blocked[c]
      \/ c \in excused
      \/ \E i \in Validated(c) :
           i \in cut \/ \E k \in InFlight(i) : call[k].at \in {"evaluate", "outstanding", "block"}
=============================================================================
