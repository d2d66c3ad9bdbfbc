------------------------------- MODULE Ledger -------------------------------
(***************************************************************************)
(* The general ledger: journal entries posted by requests, and the reports *)
(* computed from them (modules/accounting, packages/accounting-engine).    *)
(*                                                                         *)
(* journal[d] is the sequence of entries whose source is document d.       *)
(* Amounts are whole cents, so that round2 and the sums of round2 amounts  *)
(* are exact; where a comparison of the code depends on how a difference   *)
(* of one cent is represented in binary, both outcomes are allowed.        *)
(***************************************************************************)
EXTENDS Calls, Functions

CONSTANTS Manuals,     \* documents that are manual entries
          ManualLines  \* the lines asked for

ASSUME LedgerAssumption ==
  /\ IsFiniteSet(Docs) /\ Manuals \subseteq Docs
  /\ \A d \in Manuals : ManualLines[d] \in Seq([account : Nat, debit : Nat, credit : Nat])

VARIABLE journal

\* The accounts of SYSCOHADA_CHART_OF_ACCOUNTS, their codes read as numbers.
Receivable == {411, 421, 4452, 471}
Equity     == {101, 106, 110, 120, 129}
Liability  == {162, 401, 408, 419, 422, 431, 4431, 447, 472}
Asset      == {231, 244, 245, 2831, 2844, 2845, 311, 320, 521, 571} \cup Receivable
Expense    == {601, 602, 6031, 61, 62, 63, 64, 65, 661, 664, 671, 681, 81, 83, 87, 89}
Revenue    == {701, 706, 707, 71, 75, 77, 78, 79, 82, 84}
Chart      == Equity \cup Liability \cup Asset \cup Expense \cup Revenue

Debit(a, n)  == [account |-> a, debit |-> n, credit |-> 0]
Credit(a, n) == [account |-> a, debit |-> 0, credit |-> n]
\* A line that is there only when its amount is not zero.
IfAny(line)  == IF line.debit + line.credit > 0 THEN <<line>> ELSE <<>>

Total(lines, side) == SumFunction([l \in DOMAIN lines |-> lines[l][side]])
Gap(lines) == Total(lines, "debit") - Total(lines, "credit")

\* postBalancedEntry: an entry whose sides differ by a cent passes or not
\* depending on how the two sums are represented.
Accepts(lines) ==
  /\ Gap(lines) \in {0 - 1, 0, 1}
  /\ \A l \in DOMAIN lines : lines[l].debit = 0 \/ lines[l].credit = 0
  /\ \A l \in DOMAIN lines : lines[l].account \in Chart

Post(d, code, lines) ==
  /\ Accepts(lines)
  /\ journal' = [journal EXCEPT ![d] = Append(@, [code |-> code, lines |-> lines])]

\* Nothing a manual entry reads changes while it is served.
ManualEntry(k, d) ==
  /\ AtOnce(k, d)
  /\ journal[d] = <<>>
  /\ Post(d, "OD", ManualLines[d])

LedgerInit == journal = [d \in Docs |-> <<>>]

Codes == {"VE", "AC", "BQ", "CA", "OD", "PA"}

LedgerTypeOK ==
  \A d \in Docs : \A e \in DOMAIN journal[d] :
    /\ journal[d][e].code \in Codes
    /\ \A l \in DOMAIN journal[d][e].lines :
         LET line == journal[d][e].lines[l]
         IN line.account \in Chart /\ line.debit \in Nat /\ line.credit \in Nat

-----------------------------------------------------------------------------
(***************************************************************************)
(* Reports.                                                                *)
(***************************************************************************)
EntryIds == UNION {{d} \X DOMAIN journal[d] : d \in Docs}
Entry(e) == journal[e[1]][e[2]]
LineIds  == UNION {{e} \X DOMAIN Entry(e).lines : e \in EntryIds}
Line(l)  == Entry(l[1]).lines[l[2]]

\* computeTrialBalance: a row for every account that moved.
TrialBalance ==
  [a \in {Line(l).account : l \in LineIds} |->
     LET moved == {l \in LineIds : Line(l).account = a}
     IN [debit  |-> SumFunction([l \in moved |-> Line(l).debit]),
         credit |-> SumFunction([l \in moved |-> Line(l).credit])]]

\* computeGeneralLedger: the running balance after the last movement.
ClosingBalance(a) ==
  LET moved == {l \in LineIds : Line(l).account = a}
  IN SumFunction([l \in moved |-> Line(l).debit - Line(l).credit])

\* computeJournalSummary: the totals of one journal.
JournalTotal(code, side) ==
  SumFunction([e \in {i \in EntryIds : Entry(i).code = code} |-> Total(Entry(e).lines, side)])

StartsWith(a, prefix) == \E k \in {1, 10, 100, 1000} : a \div k = prefix

\* What the rows of some accounts weigh on the debit side.
Weigh(rows, accounts) == SumFunction([a \in accounts |-> rows[a].debit - rows[a].credit])

Under(rows, prefixes)    == {a \in DOMAIN rows : \E p \in prefixes : StartsWith(a, p)}
Charges(rows, prefixes)  == Weigh(rows, Under(rows, prefixes))
Products(rows, prefixes) == 0 - Charges(rows, prefixes)

\* Mutant: the workers' share is left out of the net result.
ResultatNetSansParticipation(rows) ==
  Products(rows, {701, 706, 707, 71, 75, 78, 79, 77, 82, 84})
    - Charges(rows, {601, 6031, 602, 61, 62, 63, 661, 664, 64, 65, 68, 69, 67, 81, 83, 89})

\* computeIncomeStatement: the cascade down to the net result.
MargeCommerciale(rows) ==
  Products(rows, {701}) - Charges(rows, {601}) - Charges(rows, {6031})
ValeurAjoutee(rows) ==
  MargeCommerciale(rows) + Products(rows, {706, 707}) + Products(rows, {71})
    - Charges(rows, {602}) - Charges(rows, {61, 62, 63})
ExcedentBrut(rows) ==
  ValeurAjoutee(rows) - Charges(rows, {661, 664}) - Charges(rows, {64})
ResultatExploitation(rows) ==
  ExcedentBrut(rows) + Products(rows, {75, 78, 79}) - Charges(rows, {65}) - Charges(rows, {68, 69})
ResultatHAO(rows) == Products(rows, {82, 84}) - Charges(rows, {81, 83})
ResultatNet(rows) ==
  ResultatExploitation(rows) + (Products(rows, {77}) - Charges(rows, {67}))
    + ResultatHAO(rows) - Charges(rows, {87}) - Charges(rows, {89})

OfClass(rows, c) == Under(rows, {c})

\* computeBalanceSheet: total of the assets, total of the liabilities.
TotalActif(rows) ==
  Weigh(rows, OfClass(rows, 2)) + Weigh(rows, OfClass(rows, 3))
    + Weigh(rows, OfClass(rows, 4) \cap Asset) + Weigh(rows, OfClass(rows, 5) \cap Asset)
TotalPassif(rows) ==
  ResultatNet(rows) - Weigh(rows, OfClass(rows, 1))
    - Weigh(rows, OfClass(rows, 4) \cap Liability) - Weigh(rows, OfClass(rows, 5) \cap Liability)

(***************************************************************************)
(* The balance sheet is out of balance by exactly the cents that the       *)
(* entries accepted were out of balance, whatever accounts they moved; the *)
(* journal summary and the trial balance report the same gap.              *)
(***************************************************************************)
BooksBalance ==
  LET rows == TrialBalance
      gap  == SumFunction([e \in EntryIds |-> Gap(Entry(e).lines)])
  IN /\ TotalActif(rows) - TotalPassif(rows) = gap
     /\ SumFunction([c \in Codes |-> JournalTotal(c, "debit") - JournalTotal(c, "credit")]) = gap
     /\ SumFunction([a \in DOMAIN rows |-> ClosingBalance(a)]) = gap
     /\ gap \in 0 - Cardinality(EntryIds)..Cardinality(EntryIds)
=============================================================================
