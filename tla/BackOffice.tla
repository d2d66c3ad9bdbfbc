----------------------------- MODULE BackOffice -----------------------------
(***************************************************************************)
(* The back office: invoices, treasury, fixed assets, payroll with the     *)
(* people it pays, and reconciliation, served by the same process and      *)
(* posting to the same ledger.                                             *)
(***************************************************************************)
EXTENDS Invoices, Treasury, Assets, Payroll, Reconciliation

\* Documents of different kinds are rows of different tables.
Tables == <<Invs, {Company}, Transfers, Registers, DOMAIN Sessions, Tickets, FixedAssets, {Posting},
            Employees, Leaves, Runs, DOMAIN Letterings, {Bank}, Manuals>>

ASSUME TablesAssumption == \A i, j \in DOMAIN Tables : i # j => Tables[i] \cap Tables[j] = {}

vars == <<callVars, journal, invoiceVars, treasuryVars, assetVars, peopleVars, payrollVars,
          reconciliationVars>>

Init ==
  /\ CallsInit /\ LedgerInit
  /\ InvoicesInit /\ TreasuryInit /\ AssetsInit /\ PeopleInit /\ PayrollInit /\ ReconciliationInit

OthersThanInvoices == <<treasuryVars, assetVars, peopleVars, payrollVars, reconciliationVars>>
OthersThanTreasury == <<invoiceVars, assetVars, peopleVars, payrollVars, reconciliationVars>>
OthersThanAssets   == <<invoiceVars, treasuryVars, peopleVars, payrollVars, reconciliationVars>>
OthersThanPayroll  == <<invoiceVars, treasuryVars, assetVars, reconciliationVars>>
OthersThanReconciliation == <<invoiceVars, treasuryVars, assetVars, peopleVars, payrollVars>>

Components == <<invoiceVars, treasuryVars, assetVars, peopleVars, payrollVars, reconciliationVars>>

Step(k) ==
  \/ InvoicesStep(k) /\ UNCHANGED OthersThanInvoices
  \/ TreasuryStep(k) /\ UNCHANGED OthersThanTreasury
  \/ AssetsStep(k) /\ UNCHANGED OthersThanAssets
  \/ PayrollStep(k) /\ UNCHANGED OthersThanPayroll
  \/ PeopleStep(k) /\ UNCHANGED <<journal, payrollVars, OthersThanPayroll>>
  \/ ReconciliationStep(k) /\ UNCHANGED OthersThanReconciliation
  \/ \E d \in Manuals : ManualEntry(k, d) /\ UNCHANGED Components

Restart == Crash /\ UNCHANGED <<journal, Components>>

Next == Restart \/ \E k \in Slots : Step(k)

Spec == Init /\ [][Next]_vars

-----------------------------------------------------------------------------
TypeOK ==
  /\ CallsTypeOK /\ LedgerTypeOK
  /\ InvoicesTypeOK /\ TreasuryTypeOK /\ AssetsTypeOK /\ PeopleTypeOK /\ PayrollTypeOK
  /\ ReconciliationTypeOK

(***************************************************************************)
(* Where the status of a document says that it is posted, it is posted     *)
(* once, and where it says it is not, it is not: unless two requests about *)
(* it ran at once or one stopped half-way.  In any case, what says it is   *)
(* posted has an entry.                                                    *)
(***************************************************************************)
PostedOnce ==
  /\ \A i \in Invs : /\ invoice[i] = "VALIDATED" => journal[i] # <<>>
                     /\ Undisturbed(i) /\ InFlight(i) = {} =>
                          Len(journal[i]) = IF invoice[i] = "VALIDATED" THEN 1 ELSE 0
  /\ \A t \in Transfers : /\ transfer[t] = "COMPLETED" => journal[t] # <<>>
                          /\ Undisturbed(t) /\ InFlight(t) = {} =>
                               Len(journal[t]) = IF transfer[t] = "COMPLETED" THEN 1 ELSE 0
  /\ \A p \in Runs : Undisturbed(p) => Len(journal[p]) <= 1
=============================================================================
