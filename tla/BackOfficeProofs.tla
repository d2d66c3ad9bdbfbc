-------------------------- MODULE BackOfficeProofs --------------------------
(***************************************************************************)
(* Proofs about BackOffice: how a request moves, what each document's      *)
(* entries are, and the safety properties of the components.               *)
(***************************************************************************)
EXTENDS BackOffice, SumTheorems

(***************************************************************************)
(* The documents each component's requests are about.                      *)
(***************************************************************************)
InvoiceDocs   == Invs \cup {Company}
TreasuryDocs  == Transfers \cup Registers \cup DOMAIN Sessions \cup Tickets
AssetDocs     == FixedAssets \cup {Posting}
PeopleDocs    == Employees \cup Leaves
StatementDocs == DOMAIN Letterings \cup {Bank}

\* The rows of the schedules, the payslips, and what a run reads of the staff.
AssetRows == {r \in FixedAssets \X Nat : r[2] \in 1..Purchase[r[1]].years}
Slips == [employee : Employees, gross : Int, cnps : Int, its : Int, net : Int, employer : Int]
Staff == Employees \X Nat

(***************************************************************************)
(* What a request is about, and what it has read, by where it stands.      *)
(***************************************************************************)
Record(r) == r = [at |-> r.at, doc |-> r.doc, sum |-> r.sum, todo |-> r.todo]

ForInvoices(r) ==
  /\ r.at \in {"insert_invoice", "post_invoice", "mark_invoice", "evaluate", "outstanding", "block",
               "insert_schedule", "mark_paid"} => r.doc \in Invs
  /\ r.at \in {"sweep", "sweep_block", "sweep_notice"} => r.doc = Company

ForTreasury(r) ==
  /\ r.at \in {"post_transfer", "mark_transfer", "cancel_transfer"} => r.doc \in Transfers
  /\ r.at = "post_sale" => r.doc \in Tickets
  /\ r.at = "open_session" => r.doc \in Registers
  /\ r.at \in {"sum_takings", "close_session", "post_variance"} => r.doc \in DOMAIN Sessions
  /\ r.at = "close_session" => r.sum \in Int

ForAssets(r) ==
  /\ r.at \in {"schedule_asset", "dispose_asset"} => r.doc \in FixedAssets
  /\ r.at \in {"next_row", "mark_row", "retire_asset"} => r.doc = Posting /\ r.todo \in Seq(AssetRows)
  /\ r.at \in {"mark_row", "retire_asset"} => r.todo # <<>>

ForPeople(r) ==
  /\ r.at = "terminate" => r.doc \in Employees
  /\ r.at \in {"APPROVED", "REJECTED"} => r.doc \in Leaves

ForPayroll(r) ==
  /\ r.at \in {"insert_run", "next_slip", "insert_slip", "post_run", "mark_run"} => r.doc \in Runs
  /\ r.at \in {"insert_run", "next_slip", "insert_slip"} => r.todo \in Seq(Staff)
  /\ r.at = "insert_slip" => r.todo # <<>> /\ r.sum \in Int
  /\ r.at = "post_run" => r.todo \in Seq(Slips)

ForReconciliation(r) ==
  /\ r.at = "next_letter" => r.doc \in DOMAIN Letterings
  /\ r.at \in {"read_lines", "next_match"} => r.doc = Bank

Placed(r) ==
  /\ Record(r)
  /\ r.at = "free" => r.doc = None
  /\ ForInvoices(r) /\ ForTreasury(r) /\ ForAssets(r)
  /\ ForPeople(r) /\ ForPayroll(r) /\ ForReconciliation(r)

Served == call = [k \in Slots |-> call[k]] /\ \A k \in Slots : Placed(call[k])

\* Of a document that two requests never met on, at most one is in flight.
Alone == \A d \in Docs \ crossed : \A j, k \in InFlight(d) : j = k

(***************************************************************************)
(* One step of a request about documents of D: its record changes, and the *)
(* entries of documents of D at most.                                      *)
(***************************************************************************)
Moved(k, r, D) ==
  /\ call' = [call EXCEPT ![k] = r]
  /\ Placed(r)
  /\ call[k].doc \in D \cup {None} /\ r.doc \in D \cup {None}
  /\ r.doc \in {None, call[k].doc} \/ InFlight(r.doc) = {} \/ r.doc \in crossed'
  /\ crossed \subseteq crossed' /\ cut \subseteq cut'

Turn(k, D) == \E r : Moved(k, r, D)

\* What a step that is about other documents leaves of document d.
Away(d) ==
  /\ journal'[d] = journal[d]
  /\ crossed \subseteq crossed' /\ cut \subseteq cut'
  /\ \A k \in Slots : call[k].doc = d \/ call'[k].doc = d => call'[k] = call[k]

-----------------------------------------------------------------------------
\* Documents of different tables are different.
LEMMA Kinds ==
  /\ \A d \in Invs : d # Company /\ d \notin TreasuryDocs \cup AssetDocs \cup PeopleDocs \cup Runs
                                     \cup StatementDocs \cup Manuals
  /\ \A d \in TreasuryDocs : d \notin InvoiceDocs \cup AssetDocs \cup PeopleDocs \cup Runs
                                     \cup StatementDocs \cup Manuals
  /\ \A d \in AssetDocs : d \notin InvoiceDocs \cup TreasuryDocs \cup PeopleDocs \cup Runs
                                     \cup StatementDocs \cup Manuals
  /\ \A d \in Runs : d \notin InvoiceDocs \cup TreasuryDocs \cup AssetDocs \cup PeopleDocs
                                     \cup StatementDocs \cup Manuals
  /\ \A d \in StatementDocs : d \notin InvoiceDocs \cup TreasuryDocs \cup AssetDocs \cup PeopleDocs
                                      \cup Runs \cup Manuals
  /\ \A d \in Transfers : d \notin Registers \cup DOMAIN Sessions \cup Tickets
  /\ \A d \in Tickets : d \notin Registers \cup DOMAIN Sessions
  /\ \A d \in DOMAIN Sessions : d \notin Registers
  /\ Posting \notin FixedAssets
<1>1. /\ Tables[1] = Invs /\ Tables[2] = {Company} /\ Tables[3] = Transfers
      /\ Tables[4] = Registers /\ Tables[5] = DOMAIN Sessions /\ Tables[6] = Tickets
      /\ Tables[7] = FixedAssets /\ Tables[8] = {Posting} /\ Tables[9] = Employees
      /\ Tables[10] = Leaves /\ Tables[11] = Runs /\ Tables[12] = DOMAIN Letterings
      /\ Tables[13] = {Bank} /\ Tables[14] = Manuals
      /\ DOMAIN Tables = 1..14
  BY DEF Tables
<1>2. \A i, j \in 1..14 : i # j => Tables[i] \cap Tables[j] = {}
  BY <1>1, TablesAssumption
<1>3. \A d, i, j : i \in 1..14 /\ j \in 1..14 /\ d \in Tables[i] /\ d \in Tables[j] => i = j
  BY <1>2
<1> DEFINE Kind(d) == CHOOSE i \in 1..14 : d \in Tables[i]
<1>4. \A d : \A i \in 1..14 : d \in Tables[i] => Kind(d) = i
  BY <1>3
<1> HIDE DEF Kind
<1>5. /\ \A d \in Invs : Kind(d) = 1
      /\ Kind(Company) = 2
      /\ \A d \in Transfers : Kind(d) = 3
      /\ \A d \in Registers : Kind(d) = 4
      /\ \A d \in DOMAIN Sessions : Kind(d) = 5
      /\ \A d \in Tickets : Kind(d) = 6
      /\ \A d \in FixedAssets : Kind(d) = 7
      /\ Kind(Posting) = 8
      /\ \A d \in Employees : Kind(d) = 9
      /\ \A d \in Leaves : Kind(d) = 10
      /\ \A d \in Runs : Kind(d) = 11
      /\ \A d \in DOMAIN Letterings : Kind(d) = 12
      /\ Kind(Bank) = 13
      /\ \A d \in Manuals : Kind(d) = 14
  BY <1>1, <1>4
<1> QED BY <1>5 DEF InvoiceDocs, TreasuryDocs, AssetDocs, PeopleDocs, StatementDocs

\* Every one of them is a document.
LEMMA AreDocs ==
  /\ Invs \subseteq Docs /\ Company \in Docs /\ TreasuryDocs \subseteq Docs /\ AssetDocs \subseteq Docs
  /\ PeopleDocs \subseteq Docs /\ Runs \subseteq Docs /\ StatementDocs \subseteq Docs
  /\ Manuals \subseteq Docs /\ None \notin Docs
BY CallsAssumption, LedgerAssumption, InvoicesAssumption, TreasuryAssumption, AssetsAssumption,
   PeopleAssumption, PayrollAssumption, ReconciliationAssumption
   DEF TreasuryDocs, AssetDocs, PeopleDocs, StatementDocs

LEMMA FreePlaced == Placed(Free)
BY DEF Placed, Record, ForInvoices, ForTreasury, ForAssets, ForPeople, ForPayroll,
       ForReconciliation, Free

-----------------------------------------------------------------------------
(***************************************************************************)
(* The moves of Calls.                                                     *)
(***************************************************************************)
LEMMA EnterMoves ==
  ASSUME Served, NEW k \in Slots, NEW D, NEW place, NEW d \in D, NEW sum, NEW todo,
         Enter(k, place, d, sum, todo),
         Placed([at |-> place, doc |-> d, sum |-> sum, todo |-> todo])
  PROVE  Moved(k, [at |-> place, doc |-> d, sum |-> sum, todo |-> todo], D)
<1>1. call[k].doc = None
  BY DEF Enter, At, Served, Placed
<1> QED BY <1>1 DEF Enter, Moved

LEMMA AtOnceMoves ==
  ASSUME Served, NEW k \in Slots, NEW D, NEW d \in D, AtOnce(k, d)
  PROVE  Moved(k, call[k], D) /\ (InFlight(d) = {} \/ d \in crossed')
<1>1. call[k].doc = None /\ Placed(call[k])
  BY DEF AtOnce, At, Served, Placed
<1>2. call = [call EXCEPT ![k] = call[k]]
  BY DEF Served
<1> QED BY <1>1, <1>2 DEF AtOnce, Moved

LEMMA NewSum ==
  ASSUME NEW r, Record(r), NEW place, NEW new
  PROVE  [r EXCEPT !.at = place, !.sum = new]
           = [at |-> place, doc |-> r.doc, sum |-> new, todo |-> r.todo]
<1> DEFINE Fields == {"at", "doc", "sum", "todo"}
<1>1. DOMAIN r = Fields /\ r = [x \in Fields |-> r[x]]
  BY DEF Record
<1>2. [r EXCEPT !.at = place, !.sum = new]
        = [x \in Fields |-> IF x = "at" THEN place ELSE IF x = "sum" THEN new ELSE r[x]]
  BY <1>1
<1>3. [at |-> place, doc |-> r.doc, sum |-> new, todo |-> r.todo]
        = [x \in Fields |-> IF x = "at" THEN place ELSE IF x = "sum" THEN new ELSE r[x]]
  BY <1>1
<1> QED BY <1>2, <1>3

LEMMA GotoMoves ==
  ASSUME Served, NEW k \in Slots, NEW D, call[k].doc \in D, NEW place, Goto(k, place),
         Placed([at |-> place, doc |-> call[k].doc, sum |-> call[k].sum, todo |-> call[k].todo])
  PROVE  Moved(k, [at |-> place, doc |-> call[k].doc, sum |-> call[k].sum, todo |-> call[k].todo], D)
<1>1. Record(call[k])
  BY DEF Served, Placed
<1>2. [call[k] EXCEPT !.at = place]
        = [at |-> place, doc |-> call[k].doc, sum |-> call[k].sum, todo |-> call[k].todo]
  BY <1>1 DEF Record
<1> QED BY <1>2 DEF Goto, Moved, Served

LEMMA GotoWithMoves ==
  ASSUME Served, NEW k \in Slots, NEW D, call[k].doc \in D, NEW place, NEW sum,
         GotoWith(k, place, sum),
         Placed([at |-> place, doc |-> call[k].doc, sum |-> sum, todo |-> call[k].todo])
  PROVE  Moved(k, [at |-> place, doc |-> call[k].doc, sum |-> sum, todo |-> call[k].todo], D)
<1>1. Record(call[k])
  BY DEF Served, Placed
<1>2. [call[k] EXCEPT !.at = place, !.sum = sum]
        = [at |-> place, doc |-> call[k].doc, sum |-> sum, todo |-> call[k].todo]
  BY <1>1, NewSum
<1> QED BY <1>2 DEF GotoWith, Moved, Served

LEMMA GotoLeftMoves ==
  ASSUME Served, NEW k \in Slots, NEW D, call[k].doc \in D, NEW place, NEW rest,
         GotoLeft(k, place, rest),
         Placed([at |-> place, doc |-> call[k].doc, sum |-> call[k].sum, todo |-> rest])
  PROVE  Moved(k, [at |-> place, doc |-> call[k].doc, sum |-> call[k].sum, todo |-> rest], D)
<1> DEFINE Fields == {"at", "doc", "sum", "todo"}
           r == [at |-> place, doc |-> call[k].doc, sum |-> call[k].sum, todo |-> rest]
<1>1. DOMAIN call[k] = Fields /\ call[k] = [x \in Fields |-> call[k][x]]
  BY DEF Served, Placed, Record
<1>2. [call[k] EXCEPT !.at = place, !.todo = rest]
        = [x \in Fields |-> IF x = "at" THEN place ELSE IF x = "todo" THEN rest ELSE call[k][x]]
  BY <1>1
<1>3. r = [x \in Fields |-> IF x = "at" THEN place ELSE IF x = "todo" THEN rest ELSE call[k][x]]
  BY <1>1
<1>4. call' = [call EXCEPT ![k] = [call[k] EXCEPT !.at = place, !.todo = rest]]
  BY DEF GotoLeft, Served
<1>5. call' = [call EXCEPT ![k] = r]
  BY <1>2, <1>3, <1>4
<1> QED BY <1>5 DEF GotoLeft, Moved

LEMMA LeaveMoves ==
  ASSUME Served, NEW k \in Slots, NEW D, call[k].doc \in D, Leave(k)
  PROVE  Moved(k, Free, D)
BY FreePlaced DEF Leave, Moved, Free

LEMMA FailMoves ==
  ASSUME Served, NEW k \in Slots, NEW D, call[k].doc \in D, Fail(k)
  PROVE  Moved(k, Free, D) /\ call[k].doc \in cut'
BY FreePlaced DEF Fail, Moved, Free, Doc

\* A turn keeps the requests served and alone, and leaves other documents.
LEMMA MovedKeeps ==
  ASSUME Served, Alone, NEW k \in Slots, NEW D, Turn(k, D)
  PROVE  Served' /\ Alone'
<1>1. PICK r : Moved(k, r, D)
  BY DEF Turn
<1>2. \A j \in Slots : call'[j] = IF j = k THEN r ELSE call[j]
  BY <1>1 DEF Moved, Served
<1>3. Served'
  BY <1>1, <1>2 DEF Moved, Served
<1>4. Alone'
  <2> SUFFICES ASSUME NEW d \in Docs \ crossed', NEW i \in Slots, NEW j \in Slots,
                      call'[i].doc = d, call'[j].doc = d, i # j
               PROVE  FALSE
    BY DEF Alone, InFlight
  <2>1. d \notin crossed /\ d # None
    BY <1>1, CallsAssumption DEF Moved
  <2>2. ~(call[i].doc = d /\ call[j].doc = d)
    BY <2>1 DEF Alone, InFlight
  <2>3. r.doc = d /\ call[k].doc # d /\ InFlight(d) # {}
    BY <1>2, <2>2 DEF InFlight
  <2> QED BY <1>1, <2>1, <2>3 DEF Moved
<1> QED BY <1>3, <1>4

-----------------------------------------------------------------------------
(***************************************************************************)
(* The journal: what is posted is an entry that was accepted, its lines    *)
(* numbered, on accounts of the chart.                                     *)
(***************************************************************************)
Move == [account : Nat, debit : Int, credit : Int]

Lined(lines) ==
  /\ lines \in [DOMAIN lines -> Move]
  /\ DOMAIN lines \subseteq Nat /\ IsFiniteSet(DOMAIN lines)

LineSets == {S \in SUBSET Nat : IsFiniteSet(S)}
Entries  == {e \in [code : Codes, lines : UNION {[S -> Move] : S \in LineSets}] : Accepts(e.lines)}

JournalOK == journal \in [Docs -> Seq(Entries)]

\* An entry is added to those of a document of D, or none is.
PostedIn(D) ==
  \/ UNCHANGED journal
  \/ \E d \in D : \E e \in Entries : journal' = [journal EXCEPT ![d] = Append(@, e)]

LEMMA ListLined ==
  ASSUME NEW lines \in Seq(Move)
  PROVE  Lined(lines)
<1>1. Len(lines) \in Nat /\ DOMAIN lines = 1..Len(lines) /\ lines \in [1..Len(lines) -> Move]
  BY LenProperties
<1>2. IsFiniteSet(1..Len(lines))
  BY <1>1, FS_Interval
<1> QED BY <1>1, <1>2 DEF Lined

LEMMA PostPosts ==
  ASSUME NEW D, NEW d \in D, NEW code \in Codes, NEW lines, Lined(lines), Post(d, code, lines)
  PROVE  \E e \in Entries : /\ e = [code |-> code, lines |-> lines]
                            /\ journal' = [journal EXCEPT ![d] = Append(@, e)]
<1> DEFINE e == [code |-> code, lines |-> lines]
<1>1. lines \in UNION {[S -> Move] : S \in LineSets}
  BY DEF Lined, LineSets
<1>2. e \in Entries
  BY <1>1 DEF Post, Entries
<1>3. journal' = [journal EXCEPT ![d] = Append(@, e)]
  BY DEF Post
<1> HIDE DEF e
<1> QED BY <1>2, <1>3 DEF e

LEMMA JournalKept ==
  ASSUME JournalOK, NEW D, D \subseteq Docs, PostedIn(D)
  PROVE  JournalOK' /\ \A d \in Docs \ D : journal'[d] = journal[d]
<1>1. CASE UNCHANGED journal
  BY <1>1 DEF JournalOK
<1>2. ASSUME NEW d \in D, NEW e \in Entries, journal' = [journal EXCEPT ![d] = Append(@, e)]
      PROVE  JournalOK' /\ \A b \in Docs \ D : journal'[b] = journal[b]
  <2>1. journal[d] \in Seq(Entries)
    BY DEF JournalOK
  <2>2. Append(journal[d], e) \in Seq(Entries)
    BY <2>1
  <2>3. journal' \in [Docs -> Seq(Entries)]
    BY <1>2, <2>2 DEF JournalOK
  <2> QED BY <1>2, <2>3 DEF JournalOK
<1> QED BY <1>1, <1>2 DEF PostedIn

\* The accounts are numbers.
LEMMA ChartNat == Chart \subseteq Nat
BY DEF Chart, Equity, Liability, Asset, Expense, Revenue, Receivable

LEMMA DebitCredit ==
  ASSUME NEW a \in Nat, NEW n \in Int
  PROVE  Debit(a, n) \in Move /\ Credit(a, n) \in Move
BY DEF Debit, Credit, Move

LEMMA IfAnyList ==
  ASSUME NEW line \in Move
  PROVE  IfAny(line) \in Seq(Move)
BY DEF IfAny

LEMMA MaxMin ==
  ASSUME NEW a \in Int, NEW b \in Int
  PROVE  /\ Max({a, b}) = (IF a >= b THEN a ELSE b)
         /\ Min({a, b}) = (IF a <= b THEN a ELSE b)
<1>1. \A x \in {a, b} : (\A y \in {a, b} : x >= y) => x = (IF a >= b THEN a ELSE b)
  OBVIOUS
<1>2. \E x \in {a, b} : \A y \in {a, b} : x >= y
  OBVIOUS
<1>3. Max({a, b}) = (IF a >= b THEN a ELSE b)
  BY <1>1, <1>2 DEF Max
<1>4. \A x \in {a, b} : (\A y \in {a, b} : x <= y) => x = (IF a <= b THEN a ELSE b)
  OBVIOUS
<1>5. \E x \in {a, b} : \A y \in {a, b} : x <= y
  OBVIOUS
<1>6. Min({a, b}) = (IF a <= b THEN a ELSE b)
  BY <1>4, <1>5 DEF Min
<1> QED BY <1>3, <1>6

\* The documents are finitely many, and so are those of a kind.
LEMMA FiniteDocs ==
  ASSUME NEW S, S \subseteq Docs
  PROVE  IsFiniteSet(S)
BY LedgerAssumption, FS_Subset

-----------------------------------------------------------------------------
(***************************************************************************)
(* The amounts that are posted are numbers.                                *)
(***************************************************************************)
LEMMA SumOf ==
  ASSUME NEW f, IsFiniteSet(DOMAIN f), \A x \in DOMAIN f : f[x] \in Int
  PROVE  SumFunction(f) \in Int
BY SumInt DEF SumFunction

LEMMA DivNat ==
  ASSUME NEW n \in Nat, NEW d \in Nat \ {0}
  PROVE  n \div d \in Nat
OBVIOUS

LEMMA DivInt ==
  ASSUME NEW n \in Int, NEW d \in Nat \ {0}
  PROVE  n \div d \in Int
OBVIOUS

LEMMA RoundDivInt ==
  ASSUME NEW n \in Int, NEW d \in Nat \ {0}
  PROVE  RoundDiv(n, d) \in Int
<1>1. d \div 2 \in Int
  OBVIOUS
<1>2. n + d \div 2 \in Int
  BY <1>1
<1> QED BY <1>2, DivInt DEF RoundDiv

LEMMA RoundDivNat ==
  ASSUME NEW n \in Nat, NEW d \in Nat \ {0}
  PROVE  RoundDiv(n, d) \in Nat
<1>1. d \div 2 \in Nat
  OBVIOUS
<1>2. n + d \div 2 \in Nat
  BY <1>1
<1> QED BY <1>2, DivNat DEF RoundDiv

\* A quotient of a number that is not positive is not positive, nor less than it.
LEMMA RoundDivNegative ==
  ASSUME NEW n \in Int, n <= 0, NEW d \in Nat \ {0}
  PROVE  RoundDiv(n, d) \in Int /\ RoundDiv(n, d) <= 0 /\ n <= RoundDiv(n, d)
<1> DEFINE h == d \div 2
           x == n + h
           q == x \div d
<1>1. h \in Nat /\ h < d
  OBVIOUS
<1> HIDE DEF h
<1>2. x \in Int /\ x < d /\ x >= n
  BY <1>1
<1> HIDE DEF x
<1>3. q \in Int /\ q <= 0 /\ d * q <= x /\ x < d * q + d
  BY <1>2
<1> HIDE DEF q
<1>4. n <= q
  <2> SUFFICES ASSUME q < n PROVE FALSE
    BY <1>3
  <2>1. q + 1 \in Int /\ q + 1 <= n /\ q + 1 <= 0
    BY <1>3
  <2> DEFINE m == 0 - (q + 1)
             e == d - 1
  <2>2. m \in Nat /\ e \in Nat
    BY <2>1
  <2>3. e * m \in Nat
    BY <2>2
  <2>4. d * q + d = 0 - (e * m) - m
    BY <1>3
  <2>5. d * q + d <= q + 1
    <3>1. q + 1 = 0 - m
      BY <1>3
    <3> HIDE DEF m, e
    <3> QED BY <1>3, <2>2, <2>3, <2>4, <3>1
  <2> QED BY <1>2, <1>3, <2>1, <2>5
<1>5. RoundDiv(n, d) = q
  BY DEF RoundDiv, q, x, h
<1> QED BY <1>3, <1>4, <1>5

LEMMA RoundedInt ==
  ASSUME NEW n \in Int, NEW d \in Nat \ {0}
  PROVE  Rounded(n, d) \in Int
<1>1. d \div 2 \in Int
  OBVIOUS
<1>2. n + d \div 2 \in Int
  BY <1>1
<1> QED BY <1>2, DivInt DEF Rounded

LEMMA InvoiceLined ==
  ASSUME NEW i \in Invs
  PROVE  Lined(InvoiceLines(i)) /\ Ttc(i) \in Nat
<1>1. Bill[i].account \in Nat /\ Bill[i].ht \in Nat /\ Bill[i].tva \in Nat
  BY InvoicesAssumption
<1>2. Ttc(i) \in Nat
  BY <1>1 DEF Ttc
<1>0. \A x, y \in Move : <<x, y>> \in Seq(Move) /\ <<x>> \in Seq(Move)
  OBVIOUS
<1>b. /\ Debit(Bill[i].account, Ttc(i)) \in Move /\ Credit(701, Bill[i].ht) \in Move
      /\ Credit(4431, Bill[i].tva) \in Move /\ Debit(601, Bill[i].ht) \in Move
      /\ Debit(4452, Bill[i].tva) \in Move /\ Credit(Bill[i].account, Ttc(i)) \in Move
  BY <1>1, <1>2, DebitCredit
<1>3. /\ <<Debit(Bill[i].account, Ttc(i)), Credit(701, Bill[i].ht)>> \in Seq(Move)
      /\ IfAny(Credit(4431, Bill[i].tva)) \in Seq(Move)
      /\ <<Debit(601, Bill[i].ht)>> \in Seq(Move)
      /\ IfAny(Debit(4452, Bill[i].tva)) \in Seq(Move)
      /\ <<Credit(Bill[i].account, Ttc(i))>> \in Seq(Move)
  BY <1>0, <1>b, IfAnyList
<1>4. InvoiceLines(i) \in Seq(Move)
  BY <1>3, ConcatProperties DEF InvoiceLines
<1> QED BY <1>2, <1>4, ListLined

LEMMA TwoLined ==
  ASSUME NEW b \in Nat, NEW c \in Nat, NEW n \in Int
  PROVE  Lined(<<Debit(b, n), Credit(c, n)>>)
<1>1. Debit(b, n) \in Move /\ Credit(c, n) \in Move
  BY DebitCredit
<1>2. \A x, y \in Move : <<x, y>> \in Seq(Move)
  OBVIOUS
<1> QED BY <1>1, <1>2, ListLined

LEMMA TransferLined ==
  ASSUME NEW t \in Transfers
  PROVE  Lined(<<Debit(Route[t].to, Route[t].amount), Credit(Route[t].from, Route[t].amount)>>)
<1>1. Route[t].to \in Nat /\ Route[t].from \in Nat /\ Route[t].amount \in Nat
  BY TreasuryAssumption
<1> QED BY <1>1, TwoLined

(***************************************************************************)
(* The payments of a sale, and what they bring.                            *)
(***************************************************************************)
Numbers(v) == DOMAIN Ticket[v].payments

LEMMA Payments ==
  ASSUME NEW v \in Tickets
  PROVE  /\ Len(Ticket[v].payments) \in Nat /\ Numbers(v) = 1..Len(Ticket[v].payments)
         /\ IsFiniteSet(Numbers(v)) /\ Cash(v) \subseteq Numbers(v)
         /\ \A n \in Numbers(v) : Tender(v, n) \in Nat /\ AccountOf(Ticket[v].payments[n].method) \in {571, 411, 521}
         /\ Ticket[v].ht \in Nat /\ Ticket[v].tva \in Nat /\ Due(v) \in Nat
<1>1. Ticket[v].payments \in Seq([method : STRING, amount : Nat])
  BY TreasuryAssumption
<1>2. Len(Ticket[v].payments) \in Nat /\ Numbers(v) = 1..Len(Ticket[v].payments)
  BY <1>1, LenProperties DEF Numbers
<1>3. \A n \in Numbers(v) : Ticket[v].payments[n] \in [method : STRING, amount : Nat]
  BY <1>1, <1>2, ElementOfSeq
<1>4. IsFiniteSet(Numbers(v))
  BY <1>2, FS_Interval
<1>5. \A n \in Numbers(v) : Tender(v, n) \in Nat
  BY <1>3 DEF Tender
<1>6. \A m : AccountOf(m) \in {571, 411, 521}
  BY DEF AccountOf
<1> QED BY <1>2, <1>4, <1>5, <1>6, TreasuryAssumption DEF Cash, Numbers, Due

LEMMA Takings ==
  ASSUME NEW v \in Tickets
  PROVE  /\ Tendered(v) \in Nat /\ Paid(v) \in Nat /\ Change(v) \in Nat
         /\ Change(v) = (IF Paid(v) >= Due(v) THEN Paid(v) - Due(v) ELSE 0)
         /\ \A n \in Numbers(v) : NetTender(v, n) \in Int
<1> DEFINE c == [n \in Cash(v) |-> Tender(v, n)]
           p == [n \in Numbers(v) |-> Tender(v, n)]
<1>1. IsFiniteSet(Cash(v)) /\ IsFiniteSet(Numbers(v))
  BY Payments, FS_Subset
<1>2. SumFunction(c) \in Nat /\ SumFunction(p) \in Nat
  BY <1>1, Payments, SumNat DEF SumFunction
<1>3. Tendered(v) \in Nat /\ Paid(v) \in Nat /\ Due(v) \in Nat
  BY <1>2, Payments DEF Tendered, Paid, Numbers
<1>4. Change(v) = (IF Paid(v) >= Due(v) THEN Paid(v) - Due(v) ELSE 0)
  <2>1. Paid(v) - Due(v) \in Int
    BY <1>3
  <2> QED BY <1>3, <2>1, MaxMin DEF Change
<1>5. Change(v) \in Nat
  BY <1>3, <1>4
<1>6. ASSUME NEW n \in Numbers(v)
      PROVE  NetTender(v, n) \in Int
  <2> DEFINE T == {i \in Cash(v) : i < n}
             before == SumFunction([m \in T |-> Tender(v, m)])
             kept == Max({0, Change(v) - before})
  <2>1. IsFiniteSet(T)
    BY <1>1, FS_Subset
  <2>2. before \in Int
    BY <2>1, Payments, SumOf
  <2>3. kept \in Int
    <3> HIDE DEF before
    <3> QED BY <1>5, <2>2, MaxMin
  <2>4. NetTender(v, n) = IF n \in Cash(v) THEN Tender(v, n) - Min({Tender(v, n), kept}) ELSE Tender(v, n)
    BY DEF NetTender
  <2>5. Tender(v, n) \in Int
    BY Payments
  <2> HIDE DEF kept
  <2>6. Min({Tender(v, n), kept}) \in Int
    BY <2>3, <2>5, MaxMin
  <2> QED BY <2>4, <2>5, <2>6
<1> QED BY <1>3, <1>4, <1>5, <1>6

LEMMA SaleLined ==
  ASSUME NEW v \in Tickets
  PROVE  Lined(SaleLines(v))
<1> DEFINE top == Len(Ticket[v].payments) + 2
           kept == {m \in 1..top : IfAny(SaleLine(v, m)) # <<>>}
<1>0. top \in Nat
  BY Payments
<1>1. top \in Nat /\ IsFiniteSet(1..top)
  BY <1>0, FS_Interval
<1>2. kept \subseteq Nat /\ IsFiniteSet(kept)
  BY <1>1, FS_Subset
<1>3. \A n \in kept : SaleLine(v, n) \in Move
  <2> SUFFICES ASSUME NEW n \in kept PROVE SaleLine(v, n) \in Move
    OBVIOUS
  <2>1. CASE n <= Len(Ticket[v].payments)
    <3>1. n \in Numbers(v)
      BY <1>1, <2>1, Payments
    <3>2. SaleLine(v, n) = Debit(AccountOf(Ticket[v].payments[n].method), NetTender(v, n))
      BY <2>1 DEF SaleLine
    <3>3. AccountOf(Ticket[v].payments[n].method) \in Nat
      BY <3>1, Payments
    <3>4. NetTender(v, n) \in Int
      BY <3>1, Takings
    <3> QED BY <3>2, <3>3, <3>4, DebitCredit
  <2>2. CASE n > Len(Ticket[v].payments)
    <3>1. n \in Nat /\ Len(Ticket[v].payments) \in Nat
      BY <1>2, Payments
    <3>2. SaleLine(v, n) \in {Credit(701, Ticket[v].ht), Credit(4431, Ticket[v].tva)}
      BY <2>2, <3>1 DEF SaleLine
    <3> QED BY <3>2, Payments, DebitCredit
  <2> QED BY <1>2, <2>1, <2>2, Payments
<1>4. SaleLines(v) = [n \in kept |-> SaleLine(v, n)]
  BY DEF SaleLines
<1> HIDE DEF kept, top
<1> QED BY <1>2, <1>3, <1>4 DEF Lined

(***************************************************************************)
(* What is left of an asset after each year: the recursive definition has  *)
(* a solution, which never grows and never falls below zero; the first     *)
(* year takes the whole of a base below zero.                              *)
(***************************************************************************)
LeftAfter(a, x, n) ==
  LET years == Purchase[a].years
      declining == RoundDiv(x * Purchase[a].rate, 10 * years)
      straight  == RoundDiv(x, years - n + 1)
  IN IF n = 0 THEN Base(a)
     ELSE IF n = years THEN 0
     ELSE x - Min({Max({declining, straight}), x})

LEMMA Bought ==
  ASSUME NEW a \in FixedAssets
  PROVE  /\ Purchase[a].years \in Nat \ {0} /\ Purchase[a].rate \in Nat /\ Purchase[a].account \in Nat
         /\ Base(a) \in Int
BY AssetsAssumption DEF Base

LEMMA LeftAfterNat ==
  ASSUME NEW a \in FixedAssets, NEW x \in Nat, NEW n \in 1..Purchase[a].years
  PROVE  LeftAfter(a, x, n) \in 0..x
<1> DEFINE years == Purchase[a].years
           declining == RoundDiv(x * Purchase[a].rate, 10 * years)
           straight == RoundDiv(x, years - n + 1)
           most == Max({declining, straight})
<1>1. years \in Nat \ {0} /\ Purchase[a].rate \in Nat
  BY Bought
<1>2. x * Purchase[a].rate \in Nat /\ 10 * years \in Nat \ {0} /\ years - n + 1 \in Nat \ {0}
  BY <1>1
<1>3. declining \in Nat /\ straight \in Nat
  BY <1>2, RoundDivNat
<1>4. LeftAfter(a, x, n) = IF n = years THEN 0 ELSE x - Min({most, x})
  BY <1>1 DEF LeftAfter
<1> HIDE DEF years, declining, straight
<1>5. most \in Nat
  BY <1>3, MaxMin
<1> HIDE DEF most
<1>6. Min({most, x}) \in 0..x
  <2>1. Min({most, x}) = IF most <= x THEN most ELSE x
    BY <1>5, MaxMin
  <2> QED BY <1>5, <2>1
<1> QED BY <1>4, <1>6

LEMMA LeftAfterNegative ==
  ASSUME NEW a \in FixedAssets, NEW x \in Int, x <= 0, NEW n \in 1..Purchase[a].years
  PROVE  LeftAfter(a, x, n) = 0
<1> DEFINE years == Purchase[a].years
           declining == RoundDiv(x * Purchase[a].rate, 10 * years)
           straight == RoundDiv(x, years - n + 1)
           most == Max({declining, straight})
<1>1. years \in Nat \ {0} /\ Purchase[a].rate \in Nat
  BY Bought
<1>2. x * Purchase[a].rate \in Int /\ 10 * years \in Nat \ {0} /\ years - n + 1 \in Nat \ {0}
  BY <1>1
<1>3. declining \in Int /\ straight \in Int /\ x <= straight
  BY <1>2, RoundDivInt, RoundDivNegative
<1>4. LeftAfter(a, x, n) = IF n = years THEN 0 ELSE x - Min({most, x})
  BY <1>1 DEF LeftAfter
<1> HIDE DEF years, declining, straight
<1>5. most \in Int /\ x <= most
  BY <1>3, MaxMin
<1> HIDE DEF most
<1>6. Min({most, x}) = x
  BY <1>5, MaxMin
<1> QED BY <1>4, <1>6

LEMMA RemainingIs ==
  ASSUME NEW a \in FixedAssets
  PROVE  \A n \in 0..Purchase[a].years :
           Remaining(a)[n] = LeftAfter(a, Remaining(a)[n - 1], n)
<1> DEFINE years == Purchase[a].years
           Up(g, m) == g = [n \in 0..m |-> LeftAfter(a, g[n - 1], n)]
           Lacks == {m \in Nat : ~\E g : Up(g, m)}
<1>1. years \in Nat
  BY Bought
<1>2. Lacks = {}
  <2> SUFFICES ASSUME Lacks # {} PROVE FALSE
    OBVIOUS
  <2>1. PICK m \in Lacks : \A n \in Lacks : m <= n
    BY LeastElement
  <2>2. CASE m = 0
    <3> DEFINE g == [n \in 0..0 |-> Base(a)]
    <3>1. \A x : LeftAfter(a, x, 0) = Base(a)
      BY DEF LeftAfter
    <3>2. Up(g, 0)
      BY <3>1
    <3> HIDE DEF g
    <3> QED BY <2>1, <2>2, <3>2
  <2>3. CASE m # 0
    <3>0. m \in Nat
      BY <2>1
    <3>1. m - 1 \in Nat /\ m - 1 \notin Lacks
      <4> HIDE DEF Lacks
      <4>1. m - 1 \in Nat /\ ~(m <= m - 1)
        BY <2>3, <3>0
      <4> QED BY <2>1, <4>1
    <3>2. PICK g : Up(g, m - 1)
      BY <3>1
    <3> DEFINE h == [n \in 0..m |-> IF n = m THEN LeftAfter(a, g[m - 1], m) ELSE g[n]]
    <3>3. \A n \in 0..m : h[n - 1] = (IF n = 0 THEN h[n - 1] ELSE g[n - 1])
      BY <3>1
    <3>4. \A n \in 0..m - 1 : g[n] = LeftAfter(a, g[n - 1], n)
      BY <3>2
    <3>5. \A x, y : LeftAfter(a, x, 0) = LeftAfter(a, y, 0)
      BY DEF LeftAfter
    <3>6. \A n \in 0..m : h[n] = LeftAfter(a, h[n - 1], n)
      <4> TAKE n \in 0..m
      <4>1. CASE n = m
        BY <2>3, <3>1, <3>3, <4>1
      <4>2. CASE n # m /\ n = 0
        BY <2>3, <3>1, <3>4, <3>5, <4>2
      <4>3. CASE n # m /\ n # 0
        BY <3>1, <3>3, <3>4, <4>3
      <4> QED BY <4>1, <4>2, <4>3
    <3>7. Up(h, m)
      BY <3>6
    <3> HIDE DEF h
    <3> QED BY <2>1, <3>7
  <2> QED BY <2>2, <2>3
<1>3. PICK g : Up(g, years)
  BY <1>1, <1>2
<1>4. Remaining(a) = CHOOSE f : Up(f, years)
  BY DEF Remaining, LeftAfter
<1>5. Up(Remaining(a), years)
  BY <1>3, <1>4
<1> QED BY <1>5

LEMMA RemainingEnds ==
  ASSUME NEW a \in FixedAssets
  PROVE  Remaining(a)[0] = Base(a) /\ Remaining(a)[Purchase[a].years] = 0
<1> DEFINE years == Purchase[a].years
<1>1. years \in Nat \ {0}
  BY Bought
<1>2. \A n \in 0..years : Remaining(a)[n] = LeftAfter(a, Remaining(a)[n - 1], n)
  BY RemainingIs
<1>3. \A x : LeftAfter(a, x, 0) = Base(a) /\ LeftAfter(a, x, years) = 0
  BY <1>1 DEF LeftAfter
<1> QED BY <1>1, <1>2, <1>3

LEMMA RemainingNat ==
  ASSUME NEW a \in FixedAssets, Base(a) \in Nat
  PROVE  /\ \A n \in 0..Purchase[a].years : Remaining(a)[n] \in Nat
         /\ \A n \in 1..Purchase[a].years : Remaining(a)[n] <= Remaining(a)[n - 1]
<1> DEFINE years == Purchase[a].years
           left == Remaining(a)
           Wrong == {n \in 0..years : left[n] \notin Nat}
<1>1. years \in Nat \ {0} /\ Base(a) \in Nat
  BY Bought
<1>2. \A n \in 0..years : left[n] = LeftAfter(a, left[n - 1], n)
  BY RemainingIs
<1>3. left[0] = Base(a)
  BY RemainingEnds
<1> HIDE DEF left
<1>4. Wrong = {}
  <2> SUFFICES ASSUME Wrong # {} PROVE FALSE
    OBVIOUS
  <2>1. PICK n \in Wrong : \A m \in Wrong : n <= m
    <3>1. Wrong \in SUBSET Nat
      BY <1>1
    <3> QED BY <3>1, LeastElement
  <2>2. n \in 1..years /\ left[n - 1] \in Nat
    BY <1>1, <1>3, <2>1
  <2> QED BY <1>2, <2>1, <2>2, LeftAfterNat
<1>5. \A n \in 1..years : left[n] <= left[n - 1]
  <2> TAKE n \in 1..years
  <2>1. left[n - 1] \in Nat
    BY <1>1, <1>4
  <2>2. left[n] \in 0..left[n - 1]
    BY <1>1, <1>2, <2>1, LeftAfterNat
  <2> QED BY <2>1, <2>2
<1> QED BY <1>4, <1>5 DEF left

LEMMA RemainingNegative ==
  ASSUME NEW a \in FixedAssets, Base(a) < 0
  PROVE  \A n \in 1..Purchase[a].years : Remaining(a)[n] = 0
<1> DEFINE years == Purchase[a].years
           left == Remaining(a)
           Wrong == {n \in 1..years : left[n] # 0}
<1>1. years \in Nat \ {0} /\ Base(a) \in Int
  BY Bought
<1>2. \A n \in 0..years : left[n] = LeftAfter(a, left[n - 1], n)
  BY RemainingIs
<1>3. left[0] = Base(a)
  BY RemainingEnds
<1> HIDE DEF left
<1>4. Wrong = {}
  <2> SUFFICES ASSUME Wrong # {} PROVE FALSE
    OBVIOUS
  <2>1. PICK n \in Wrong : \A m \in Wrong : n <= m
    <3>1. Wrong \in SUBSET Nat
      BY <1>1
    <3> QED BY <3>1, LeastElement
  <2>2. n \in 1..years /\ left[n - 1] \in Int /\ left[n - 1] <= 0
    <3>1. n = 1 \/ (n - 1 \in 1..years /\ ~(n <= n - 1))
      BY <1>1, <2>1
    <3>2. n = 1 \/ left[n - 1] = 0
      BY <2>1, <3>1
    <3> QED BY <1>1, <1>3, <2>1, <3>2
  <2> QED BY <1>2, <2>1, <2>2, LeftAfterNegative
<1> QED BY <1>4 DEF left

LEMMA RemainingInt ==
  ASSUME NEW a \in FixedAssets
  PROVE  \A n \in 0..Purchase[a].years : Remaining(a)[n] \in Int
<1>1. Purchase[a].years \in Nat \ {0} /\ Base(a) \in Int
  BY Bought
<1>2. CASE Base(a) \in Nat
  BY <1>2, RemainingNat
<1>3. CASE Base(a) < 0
  BY <1>1, <1>3, RemainingEnds, RemainingNegative
<1> QED BY <1>1, <1>2, <1>3

LEMMA AmountInt ==
  ASSUME NEW a \in FixedAssets, NEW n \in 1..Purchase[a].years
  PROVE  Amount(a, n) \in Int
<1>1. Purchase[a].years \in Nat \ {0} /\ Base(a) \in Int
  BY Bought
<1>2. RoundDiv(Base(a), Purchase[a].years) \in Int
  BY <1>1, RoundDivInt
<1>3. Remaining(a)[n] \in Int /\ Remaining(a)[n - 1] \in Int
  BY <1>1, RemainingInt
<1>4. (Purchase[a].years - 1) * RoundDiv(Base(a), Purchase[a].years) \in Int
  BY <1>1, <1>2
<1> QED BY <1>1, <1>2, <1>3, <1>4 DEF Amount

LEMMA RowLined ==
  ASSUME NEW r \in AssetRows
  PROVE  Lined(<<Debit(681, Amount(r[1], r[2])), Credit(Purchase[r[1]].account, Amount(r[1], r[2]))>>)
<1>1. r[1] \in FixedAssets /\ r[2] \in 1..Purchase[r[1]].years
  BY DEF AssetRows
<1>2. Amount(r[1], r[2]) \in Int /\ Purchase[r[1]].account \in Nat
  BY <1>1, AmountInt, Bought
<1> QED BY <1>2, TwoLined

-----------------------------------------------------------------------------
(***************************************************************************)
(* Payslips.                                                               *)
(***************************************************************************)
LEMMA FiveBrackets == IsFiniteSet(Brackets)
<1> DEFINE b1 == <<0, 75000, 0>>
           b2 == <<75000, 240000, 16>>
           b3 == <<240000, 800000, 21>>
           b4 == <<800000, 2400000, 24>>
           b5 == <<2400000, 8000000, 28>>
<1>1. Brackets = ((({b1} \cup {b2}) \cup {b3}) \cup {b4}) \cup {b5}
  BY DEF Brackets
<1> HIDE DEF b1, b2, b3, b4, b5
<1>2. IsFiniteSet({b1} \cup {b2})
  BY FS_Singleton, FS_AddElement
<1>3. IsFiniteSet(({b1} \cup {b2}) \cup {b3})
  BY <1>2, FS_AddElement
<1>4. IsFiniteSet((({b1} \cup {b2}) \cup {b3}) \cup {b4})
  BY <1>3, FS_AddElement
<1> QED BY <1>1, <1>4, FS_AddElement

LEMMA ItsInt ==
  ASSUME NEW base \in Int
  PROVE  ITS(base) \in Int
<1> DEFINE due == [b \in Brackets |-> Slice(base, b) * b[3]]
<1>1. ASSUME NEW b \in Brackets
      PROVE  Slice(base, b) * b[3] \in Int
  <2>1. b[1] \in Int /\ b[2] \in Int /\ b[3] \in Int
    BY DEF Brackets
  <2>2. 100 * b[2] \in Int /\ 100 * b[1] \in Int
    BY <2>1
  <2>3. Min({base, 100 * b[2]}) \in Int
    BY <2>2, MaxMin
  <2>4. Min({base, 100 * b[2]}) - 100 * b[1] \in Int
    BY <2>2, <2>3
  <2>5. Slice(base, b) \in Int
    <3> DEFINE over == Min({base, 100 * b[2]}) - 100 * b[1]
    <3>1. Slice(base, b) = Max({0, over})
      BY DEF Slice
    <3>2. over \in Int
      BY <2>4
    <3> HIDE DEF over
    <3> QED BY <3>1, <3>2, MaxMin
  <2> QED BY <2>1, <2>5
<1>2. SumFunction(due) \in Int
  BY <1>1, FiveBrackets, SumOf
<1> QED BY <1>2, RoundedInt DEF ITS

LEMMA CappedInt ==
  ASSUME NEW gross \in Int, NEW tenths \in Int
  PROVE  Capped(gross, tenths) \in Int
<1>1. Min({gross, 164731500}) \in Int
  BY MaxMin
<1>2. Min({gross, 164731500}) * tenths \in Int
  BY <1>1
<1> QED BY <1>2, RoundedInt DEF Capped

LEMMA PayslipIs ==
  ASSUME NEW e \in Employees, NEW base \in Int
  PROVE  Payslip(e, base) \in Slips /\ Payslip(e, base).employee = e
<1> DEFINE gross == base + Transport
<1>1. gross \in Int /\ gross * 23 \in Int /\ gross * 3 \in Int
  BY DEF Transport
<1>2. Capped(gross, 63) \in Int /\ Capped(gross, 77) \in Int /\ ITS(base) \in Int
  <2>1. 63 \in Int /\ 77 \in Int
    OBVIOUS
  <2> HIDE DEF gross
  <2> QED BY <1>1, <2>1, CappedInt, ItsInt
<1>3. Rounded(gross * 23, 400) \in Int /\ Rounded(gross * 3, 100) \in Int
  BY <1>1, RoundedInt
<1>4. Payslip(e, base) =
        [employee |-> e, gross |-> gross, cnps |-> Capped(gross, 63), its |-> ITS(base),
         net |-> gross - (Capped(gross, 63) + ITS(base)),
         employer |-> Capped(gross, 77) + Rounded(gross * 23, 400) + Rounded(gross * 3, 100)]
  BY DEF Payslip
<1> HIDE DEF gross
<1> QED BY <1>1, <1>2, <1>3, <1>4 DEF Slips

LEMMA ProratedInt ==
  ASSUME NEW e \in Employees, NEW base \in Int
  PROVE  Prorated(e, base) \in Int
<1>1. IsFiniteSet(Weekdays)
  BY PeopleAssumption, FS_Subset DEF Weekdays
<1>2. Weekdays # {}
  <2>1. PICK d \in MonthDays : d \in 1..5
    BY PeopleAssumption
  <2>2. (d - 1) % 7 < 5
    BY <2>1
  <2> QED BY <2>1, <2>2 DEF Weekdays
<1>3. Cardinality(Weekdays) \in Nat \ {0}
  BY <1>1, <1>2, FS_CardinalityType, FS_EmptySet
<1>4. UnpaidDays(e) \in Int
  <2> DEFINE A == LeaveDays(e, {FALSE})
             B == {d \in Days : attendance[e][d] = "ABSENT"} \ LeaveDays(e, BOOLEAN)
  <2>1. A \subseteq Weekdays /\ B \subseteq Days
    BY DEF LeaveDays
  <2>2. IsFiniteSet(A) /\ IsFiniteSet(B)
    BY <1>1, <2>1, PeopleAssumption, FS_Subset
  <2>3. Cardinality(A) \in Int /\ Cardinality(B) \in Int
    BY <2>2, FS_CardinalityType
  <2> HIDE DEF A, B
  <2> QED BY <2>3 DEF UnpaidDays, A, B
<1>5. PaidDays(e) \in Int
  <2>1. Cardinality(Weekdays) - UnpaidDays(e) \in Int
    BY <1>3, <1>4
  <2> QED BY <2>1, MaxMin DEF PaidDays
<1>6. base * PaidDays(e) \in Int
  BY <1>5
<1> QED BY <1>3, <1>6, RoundedInt DEF Prorated

\* What a run books for the payslips paid.
PaidTotal(paid, field) == SumFunction([s \in paid |-> s[field]])

LEMMA RunLined ==
  ASSUME NEW paid, paid \subseteq Slips, IsFiniteSet(paid)
  PROVE  /\ Lined(RunLines(paid))
         /\ \A f \in {"gross", "cnps", "its", "net", "employer"} : PaidTotal(paid, f) \in Int
<1>1. ASSUME NEW f \in {"gross", "cnps", "its", "net", "employer"}
      PROVE  PaidTotal(paid, f) \in Int
  <2>1. \A s \in paid : s[f] \in Int
    BY DEF Slips
  <2> QED BY <2>1, SumOf DEF PaidTotal
<1> DEFINE G == PaidTotal(paid, "gross")
           E == PaidTotal(paid, "employer")
           N == PaidTotal(paid, "net")
           C == PaidTotal(paid, "cnps")
           I == PaidTotal(paid, "its")
           tail == <<Credit(422, N), Credit(431, C + E), Credit(447, I)>>
<1>2. G \in Int /\ E \in Int /\ N \in Int /\ C \in Int /\ I \in Int
  BY <1>1
<1>3. RunLines(paid) = <<Debit(661, G)>> \o IfAny(Debit(664, E)) \o tail
  BY DEF RunLines, PaidTotal
<1> HIDE DEF G, E, N, C, I
<1>4. C + E \in Int
  BY <1>2
<1>5. \A x, y, z \in Move : <<x>> \in Seq(Move) /\ <<x, y, z>> \in Seq(Move)
  OBVIOUS
<1>6. /\ Debit(661, G) \in Move /\ Debit(664, E) \in Move /\ Credit(422, N) \in Move
      /\ Credit(431, C + E) \in Move /\ Credit(447, I) \in Move
  BY <1>2, <1>4, DebitCredit
<1>7. <<Debit(661, G)>> \in Seq(Move) /\ IfAny(Debit(664, E)) \in Seq(Move) /\ tail \in Seq(Move)
  BY <1>5, <1>6, IfAnyList
<1> HIDE DEF tail
<1>8. RunLines(paid) \in Seq(Move)
  BY <1>3, <1>7, ConcatProperties
<1> QED BY <1>1, <1>8, ListLined

-----------------------------------------------------------------------------
(***************************************************************************)
(* The type of the state.                                                  *)
(***************************************************************************)
InvoicesTyped ==
  /\ invoice \in [Invs -> {"absent", "DRAFT", "VALIDATED"}]
  /\ blocked \in [Customers -> BOOLEAN]
  /\ excused \subseteq Customers

TreasuryTyped ==
  /\ transfer \in [Transfers -> {"absent", "PENDING", "COMPLETED", "CANCELLED"}]
  /\ session \in [DOMAIN Sessions ->
                    [status : {"absent", "OPEN", "CLOSED"}, closing : Int, expected : Int]]
  /\ sold \subseteq Tickets
  /\ late \subseteq DOMAIN Sessions

AssetsTyped ==
  /\ asset \in [FixedAssets -> {"absent", "IN_SERVICE", "FULLY_DEPRECIATED", "DISPOSED"}]
  /\ posted = [a \in FixedAssets |-> posted[a]]
  /\ \A a \in FixedAssets : posted[a] \in [{} -> BOOLEAN] \cup [1..Purchase[a].years -> BOOLEAN]

PeopleTyped == salary \in [Employees -> Nat]

PayrollTyped ==
  /\ run \in [Runs -> {"absent", "DRAFT", "VALIDATED"}]
  /\ slips \in [Runs -> {S \in SUBSET Slips : IsFiniteSet(S)}]
  /\ staffed \in [Runs -> SUBSET Employees]

Typed ==
  /\ Served /\ Alone /\ JournalOK
  /\ InvoicesTyped /\ TreasuryTyped /\ AssetsTyped /\ PeopleTyped /\ PayrollTyped

-----------------------------------------------------------------------------
(***************************************************************************)
(* The places of each component.                                           *)
(***************************************************************************)
LEMMA InvoicePlaces ==
  ASSUME NEW r, Record(r),
         \/ /\ r.at \in {"insert_invoice", "post_invoice", "mark_invoice", "evaluate", "outstanding",
                         "block", "insert_schedule", "mark_paid"}
            /\ r.doc \in Invs
         \/ r.at \in {"sweep", "sweep_block", "sweep_notice"} /\ r.doc = Company
  PROVE  Placed(r)
BY DEF Placed, ForInvoices, ForTreasury, ForAssets, ForPeople, ForPayroll, ForReconciliation

LEMMA TreasuryPlaces ==
  ASSUME NEW r, Record(r),
         \/ r.at \in {"post_transfer", "mark_transfer", "cancel_transfer"} /\ r.doc \in Transfers
         \/ r.at = "post_sale" /\ r.doc \in Tickets
         \/ r.at = "open_session" /\ r.doc \in Registers
         \/ r.at \in {"sum_takings", "post_variance"} /\ r.doc \in DOMAIN Sessions
         \/ r.at = "close_session" /\ r.doc \in DOMAIN Sessions /\ r.sum \in Int
  PROVE  Placed(r)
BY DEF Placed, ForInvoices, ForTreasury, ForAssets, ForPeople, ForPayroll, ForReconciliation

LEMMA AssetPlaces ==
  ASSUME NEW r, Record(r),
         \/ r.at \in {"schedule_asset", "dispose_asset"} /\ r.doc \in FixedAssets
         \/ r.at = "next_row" /\ r.doc = Posting /\ r.todo \in Seq(AssetRows)
         \/ /\ r.at \in {"mark_row", "retire_asset"}
            /\ r.doc = Posting /\ r.todo \in Seq(AssetRows) /\ r.todo # <<>>
  PROVE  Placed(r)
BY DEF Placed, ForInvoices, ForTreasury, ForAssets, ForPeople, ForPayroll, ForReconciliation

LEMMA PeoplePlaces ==
  ASSUME NEW r, Record(r),
         \/ r.at = "terminate" /\ r.doc \in Employees
         \/ r.at \in {"APPROVED", "REJECTED"} /\ r.doc \in Leaves
  PROVE  Placed(r)
BY DEF Placed, ForInvoices, ForTreasury, ForAssets, ForPeople, ForPayroll, ForReconciliation

LEMMA PayrollPlaces ==
  ASSUME NEW r, Record(r), r.doc \in Runs,
         \/ r.at = "mark_run"
         \/ r.at \in {"insert_run", "next_slip"} /\ r.todo \in Seq(Staff)
         \/ r.at = "insert_slip" /\ r.todo \in Seq(Staff) /\ r.todo # <<>> /\ r.sum \in Int
         \/ r.at = "post_run" /\ r.todo \in Seq(Slips)
  PROVE  Placed(r)
BY DEF Placed, ForInvoices, ForTreasury, ForAssets, ForPeople, ForPayroll, ForReconciliation

LEMMA StatementPlaces ==
  ASSUME NEW r, Record(r),
         \/ r.at = "next_letter" /\ r.doc \in DOMAIN Letterings
         \/ r.at \in {"read_lines", "next_match"} /\ r.doc = Bank
  PROVE  Placed(r)
BY DEF Placed, ForInvoices, ForTreasury, ForAssets, ForPeople, ForPayroll, ForReconciliation

LEMMA AsRecord ==
  ASSUME NEW a, NEW d, NEW s, NEW t
  PROVE  LET r == [at |-> a, doc |-> d, sum |-> s, todo |-> t]
         IN Record(r) /\ r.at = a /\ r.doc = d /\ r.sum = s /\ r.todo = t
BY DEF Record

-----------------------------------------------------------------------------
(***************************************************************************)
(* Invoices: every step is a turn about an invoice or the company.         *)
(***************************************************************************)
LEMMA InvoiceEnters ==
  ASSUME Served, NEW k \in Slots, NEW place, NEW d, NEW sum, NEW todo, Enter(k, place, d, sum, todo),
         \/ place \in {"insert_invoice", "post_invoice", "insert_schedule", "mark_paid"} /\ d \in Invs
         \/ place = "sweep" /\ d = Company
  PROVE  Turn(k, InvoiceDocs)
<1>1. Placed([at |-> place, doc |-> d, sum |-> sum, todo |-> todo])
  BY AsRecord, InvoicePlaces
<1>2. d \in InvoiceDocs
  BY DEF InvoiceDocs
<1> QED BY <1>1, <1>2, EnterMoves DEF Turn

LEMMA InvoiceGoes ==
  ASSUME Served, NEW k \in Slots, NEW place, NEW todo, call[k].doc \in Invs,
         place \in {"mark_invoice", "evaluate", "outstanding", "block"}, Goto(k, place)
  PROVE  Turn(k, InvoiceDocs)
<1>1. Placed([at |-> place, doc |-> call[k].doc, sum |-> call[k].sum, todo |-> call[k].todo])
  BY AsRecord, InvoicePlaces
<1>2. call[k].doc \in InvoiceDocs
  BY DEF InvoiceDocs
<1> QED BY <1>1, <1>2, GotoMoves DEF Turn

LEMMA SweepGoes ==
  ASSUME Served, NEW k \in Slots, NEW place, NEW todo, call[k].doc = Company,
         place \in {"sweep", "sweep_block", "sweep_notice"},
         Goto(k, place) \/ GotoLeft(k, place, todo)
  PROVE  Turn(k, InvoiceDocs)
<1>1. /\ Placed([at |-> place, doc |-> call[k].doc, sum |-> call[k].sum, todo |-> call[k].todo])
      /\ Placed([at |-> place, doc |-> call[k].doc, sum |-> call[k].sum, todo |-> todo])
  BY AsRecord, InvoicePlaces
<1>2. call[k].doc \in InvoiceDocs
  BY DEF InvoiceDocs
<1> QED BY <1>1, <1>2, GotoMoves, GotoLeftMoves DEF Turn

LEMMA LeaveTurns ==
  ASSUME Served, NEW k \in Slots, NEW D, call[k].doc \in D, Leave(k) \/ Fail(k)
  PROVE  Turn(k, D)
BY LeaveMoves, FailMoves DEF Turn

LEMMA InvoicesTurn ==
  ASSUME Typed, NEW k \in Slots, InvoicesStep(k)
  PROVE  Turn(k, InvoiceDocs) /\ PostedIn(InvoiceDocs) /\ InvoicesTyped'
<1> USE DEF Typed
<1>0. Placed(call[k])
  BY DEF Served
<1>1. ASSUME NEW i \in Invs, CreateInvoice(k, i) \/ ValidateInvoice(k, i)
      PROVE  Turn(k, InvoiceDocs) /\ PostedIn(InvoiceDocs) /\ InvoicesTyped'
  <2>1. Turn(k, InvoiceDocs)
    BY <1>1, InvoiceEnters DEF CreateInvoice, ValidateInvoice
  <2> QED BY <1>1, <2>1 DEF CreateInvoice, ValidateInvoice, invoiceVars, PostedIn, InvoicesTyped
<1>2. ASSUME NEW i \in Invs, Generate(k, i) \/ MarkPaid(k, i)
      PROVE  Turn(k, InvoiceDocs) /\ PostedIn(InvoiceDocs) /\ InvoicesTyped'
  <2>1. Turn(k, InvoiceDocs)
    BY <1>2, InvoiceEnters DEF Generate, MarkPaid
  <2> QED BY <1>2, <2>1 DEF Generate, MarkPaid, invoiceVars, PostedIn, InvoicesTyped
<1>3. CASE InsertInvoice(k)
  <2>1. call[k].doc \in Invs /\ Turn(k, InvoiceDocs)
    BY <1>0, <1>3, LeaveTurns DEF InsertInvoice, At, Placed, ForInvoices, InvoiceDocs
  <2> QED BY <1>3, <2>1 DEF InsertInvoice, PostedIn, InvoicesTyped
<1>4. CASE PostInvoice(k)
  <2> DEFINE i == call[k].doc
             code == IF Bill[i].type = "CUSTOMER" THEN "VE" ELSE "AC"
  <2>1. i \in Invs
    BY <1>0, <1>4 DEF PostInvoice, At, Placed, ForInvoices
  <2>2. Turn(k, InvoiceDocs)
    BY <1>4, <2>1, InvoiceGoes DEF PostInvoice
  <2>3. PostedIn(InvoiceDocs)
    <3>1. Post(i, code, InvoiceLines(i)) /\ code \in Codes /\ i \in InvoiceDocs
      BY <1>4, <2>1 DEF PostInvoice, Doc, Codes, InvoiceDocs
    <3> HIDE DEF i, code
    <3> QED BY <2>1, <3>1, InvoiceLined, PostPosts DEF PostedIn
  <2> QED BY <1>4, <2>2, <2>3 DEF PostInvoice, invoiceVars, InvoicesTyped
<1>5. CASE InvoiceRefused(k)
  <2>1. call[k].doc \in Invs /\ Turn(k, InvoiceDocs)
    BY <1>0, <1>5, LeaveTurns DEF InvoiceRefused, At, Placed, ForInvoices, InvoiceDocs
  <2> QED BY <1>5, <2>1 DEF InvoiceRefused, invoiceVars, PostedIn, InvoicesTyped
<1>6. CASE MarkInvoice(k)
  <2>1. call[k].doc \in Invs
    BY <1>0, <1>6 DEF MarkInvoice, At, Placed, ForInvoices
  <2>2. Turn(k, InvoiceDocs)
    BY <1>6, <2>1, InvoiceGoes, LeaveTurns DEF MarkInvoice, InvoiceDocs
  <2> QED BY <1>6, <2>2 DEF MarkInvoice, PostedIn, InvoicesTyped
<1>7. CASE Evaluate(k) \/ WeighLimit(k)
  <2>1. call[k].doc \in Invs
    BY <1>0, <1>7 DEF Evaluate, WeighLimit, At, Placed, ForInvoices
  <2>2. Turn(k, InvoiceDocs)
    BY <1>7, <2>1, InvoiceGoes, LeaveTurns DEF Evaluate, WeighLimit, InvoiceDocs
  <2> QED BY <1>7, <2>2 DEF Evaluate, WeighLimit, invoiceVars, PostedIn, InvoicesTyped
<1>8. CASE BlockOverLimit(k)
  <2>1. call[k].doc \in Invs /\ Turn(k, InvoiceDocs)
    BY <1>0, <1>8, LeaveTurns DEF BlockOverLimit, At, Placed, ForInvoices, InvoiceDocs
  <2> QED BY <1>8, <2>1 DEF BlockOverLimit, PostedIn, InvoicesTyped
<1>9. ASSUME NEW c \in Customers, BlockByHand(k, c) \/ Unblock(k, c)
      PROVE  Turn(k, InvoiceDocs) /\ PostedIn(InvoiceDocs) /\ InvoicesTyped'
  <2>1. Turn(k, InvoiceDocs)
    BY <1>9, AtOnceMoves DEF BlockByHand, Unblock, Turn, InvoiceDocs
  <2> QED BY <1>9, <2>1 DEF BlockByHand, Unblock, PostedIn, InvoicesTyped
<1>10. CASE OverdueCheck(k)
  <2>1. Turn(k, InvoiceDocs)
    BY <1>10, InvoiceEnters DEF OverdueCheck
  <2> QED BY <1>10, <2>1 DEF OverdueCheck, invoiceVars, PostedIn, InvoicesTyped
<1>11. CASE Sweep(k)
  <2>1. call[k].doc = Company
    BY <1>0, <1>11 DEF Sweep, At, Placed, ForInvoices
  <2>2. Turn(k, InvoiceDocs)
    BY <1>11, <2>1, SweepGoes, LeaveTurns DEF Sweep, InvoiceDocs
  <2> QED BY <1>11, <2>2 DEF Sweep, invoiceVars, PostedIn, InvoicesTyped
<1>12. CASE SweepBlock(k) \/ SweepNotice(k)
  <2>1. call[k].doc = Company
    BY <1>0, <1>12 DEF SweepBlock, SweepNotice, At, Placed, ForInvoices
  <2>2. Turn(k, InvoiceDocs)
    BY <1>12, <2>1, SweepGoes DEF SweepBlock, SweepNotice
  <2> QED BY <1>12, <2>2 DEF SweepBlock, SweepNotice, PostedIn, InvoicesTyped
<1>13. CASE InsertSchedule(k) \/ SetPaid(k)
  <2>1. call[k].doc \in Invs /\ Turn(k, InvoiceDocs)
    BY <1>0, <1>13, LeaveTurns DEF InsertSchedule, SetPaid, At, Placed, ForInvoices, InvoiceDocs
  <2> QED BY <1>13, <2>1 DEF InsertSchedule, SetPaid, PostedIn, InvoicesTyped
<1>14. CASE MarkOverdue(k)
  <2>1. Turn(k, InvoiceDocs)
    BY <1>14, AtOnceMoves DEF MarkOverdue, Turn, InvoiceDocs
  <2> QED BY <1>14, <2>1 DEF MarkOverdue, PostedIn, InvoicesTyped
<1> QED BY <1>1, <1>2, <1>3, <1>4, <1>5, <1>6, <1>7, <1>8, <1>9, <1>10, <1>11, <1>12, <1>13, <1>14
        DEF InvoicesStep

-----------------------------------------------------------------------------
(***************************************************************************)
(* Treasury: transfers, sales, sessions.                                   *)
(***************************************************************************)
LEMMA TreasuryEnters ==
  ASSUME Served, NEW k \in Slots, NEW place, NEW d, NEW sum, NEW todo, Enter(k, place, d, sum, todo),
         \/ place \in {"post_transfer", "cancel_transfer"} /\ d \in Transfers
         \/ place = "post_sale" /\ d \in Tickets
         \/ place = "open_session" /\ d \in Registers
         \/ place = "sum_takings" /\ d \in DOMAIN Sessions
  PROVE  Turn(k, TreasuryDocs)
<1>1. Placed([at |-> place, doc |-> d, sum |-> sum, todo |-> todo])
  BY AsRecord, TreasuryPlaces
<1>2. d \in TreasuryDocs
  BY DEF TreasuryDocs
<1> QED BY <1>1, <1>2, EnterMoves DEF Turn

\* What the drawer holds, and what the sales of a session brought.
LEMMA DrawerInt ==
  ASSUME TreasuryTyped, NEW s
  PROVE  /\ IsFiniteSet(InSession(s)) /\ InSession(s) \subseteq Tickets
         /\ Drawer(s) \in Int
         /\ SumFunction([v \in InSession(s) |-> Tendered(v)]) \in Int
         /\ SumFunction([v \in InSession(s) |-> Change(v)]) \in Int
         /\ Opening \in Nat
<1>1. InSession(s) \subseteq Tickets /\ Opening \in Nat /\ Tickets \subseteq Docs
  BY TreasuryAssumption DEF InSession, TreasuryTyped
<1>2. IsFiniteSet(InSession(s))
  BY <1>1, FiniteDocs
<1>3. \A v \in InSession(s) : Tendered(v) \in Nat /\ Change(v) \in Nat
  BY <1>1, Takings
<1>4. /\ SumFunction([v \in InSession(s) |-> Tendered(v) - Change(v)]) \in Int
      /\ SumFunction([v \in InSession(s) |-> Tendered(v)]) \in Int
      /\ SumFunction([v \in InSession(s) |-> Change(v)]) \in Int
  BY <1>2, <1>3, SumOf
<1> QED BY <1>1, <1>2, <1>4 DEF Drawer

LEMMA VarianceLined ==
  ASSUME TreasuryTyped, NEW s \in DOMAIN Sessions
  PROVE  Lined(VarianceLines(s)) /\ Variance(s) \in Int
<1>1. Variance(s) \in Int
  BY DEF TreasuryTyped, Variance
<1>2. 0 - Variance(s) \in Int
  BY <1>1
<1>3. 65 \in Nat /\ 571 \in Nat /\ 75 \in Nat
  OBVIOUS
<1>4. VarianceLines(s) \in {<<Debit(65, 0 - Variance(s)), Credit(571, 0 - Variance(s))>>,
                            <<Debit(571, Variance(s)), Credit(75, Variance(s))>>}
  BY DEF VarianceLines
<1> QED BY <1>1, <1>2, <1>3, <1>4, TwoLined

LEMMA TreasuryTurn ==
  ASSUME Typed, NEW k \in Slots, TreasuryStep(k)
  PROVE  Turn(k, TreasuryDocs) /\ PostedIn(TreasuryDocs) /\ TreasuryTyped'
<1> USE DEF Typed
<1>0. Placed(call[k])
  BY DEF Served
<1>1. ASSUME NEW t \in Transfers, CreateTransfer(k, t)
      PROVE  Turn(k, TreasuryDocs) /\ PostedIn(TreasuryDocs) /\ TreasuryTyped'
  <2>1. Turn(k, TreasuryDocs)
    BY <1>1, AtOnceMoves DEF CreateTransfer, Turn, TreasuryDocs
  <2> QED BY <1>1, <2>1 DEF CreateTransfer, PostedIn, TreasuryTyped
<1>2. ASSUME NEW t \in Transfers, CompleteTransfer(k, t) \/ CancelTransfer(k, t)
      PROVE  Turn(k, TreasuryDocs) /\ PostedIn(TreasuryDocs) /\ TreasuryTyped'
  <2>1. Turn(k, TreasuryDocs)
    BY <1>2, TreasuryEnters DEF CompleteTransfer, CancelTransfer
  <2> QED BY <1>2, <2>1 DEF CompleteTransfer, CancelTransfer, treasuryVars, PostedIn, TreasuryTyped
<1>3. CASE PostTransfer(k)
  <2> DEFINE t == call[k].doc
             lines == <<Debit(Route[t].to, Route[t].amount), Credit(Route[t].from, Route[t].amount)>>
  <2>1. t \in Transfers
    BY <1>0, <1>3 DEF PostTransfer, At, Placed, ForTreasury
  <2>2. Turn(k, TreasuryDocs)
    <3>1. Placed([at |-> "mark_transfer", doc |-> t, sum |-> call[k].sum, todo |-> call[k].todo])
      BY <2>1, AsRecord, TreasuryPlaces
    <3> QED BY <1>3, <2>1, <3>1, GotoMoves DEF PostTransfer, Turn, TreasuryDocs
  <2>3. PostedIn(TreasuryDocs)
    <3>1. Post(t, "OD", lines) /\ "OD" \in Codes /\ t \in TreasuryDocs /\ Lined(lines)
      BY <1>3, <2>1, TransferLined DEF PostTransfer, Doc, Codes, TreasuryDocs
    <3> HIDE DEF t, lines
    <3> QED BY <3>1, PostPosts DEF PostedIn
  <2> QED BY <1>3, <2>2, <2>3 DEF PostTransfer, treasuryVars, TreasuryTyped
<1>4. CASE TransferUnposted(k)
  <2>1. call[k].doc \in Transfers /\ Turn(k, TreasuryDocs)
    BY <1>0, <1>4, LeaveTurns DEF TransferUnposted, At, Placed, ForTreasury, TreasuryDocs
  <2> QED BY <1>4, <2>1 DEF TransferUnposted, treasuryVars, PostedIn, TreasuryTyped
<1>5. CASE MarkTransfer(k) \/ MarkCancelled(k)
  <2>1. call[k].doc \in Transfers /\ Turn(k, TreasuryDocs)
    BY <1>0, <1>5, LeaveTurns DEF MarkTransfer, MarkCancelled, At, Placed, ForTreasury, TreasuryDocs
  <2> QED BY <1>5, <2>1 DEF MarkTransfer, MarkCancelled, PostedIn, TreasuryTyped
<1>6. ASSUME NEW v \in Tickets, Checkout(k, v)
      PROVE  Turn(k, TreasuryDocs) /\ PostedIn(TreasuryDocs) /\ TreasuryTyped'
  <2>1. Turn(k, TreasuryDocs)
    BY <1>6, TreasuryEnters DEF Checkout
  <2> QED BY <1>6, <2>1 DEF Checkout, PostedIn, TreasuryTyped
<1>7. CASE PostSale(k)
  <2>1. call[k].doc \in Tickets /\ Turn(k, TreasuryDocs)
    BY <1>0, <1>7, LeaveTurns DEF PostSale, At, Placed, ForTreasury, TreasuryDocs
  <2>2. PostedIn(TreasuryDocs)
    <3>1. /\ Post(call[k].doc, "VE", SaleLines(call[k].doc)) /\ "VE" \in Codes
          /\ call[k].doc \in TreasuryDocs /\ Lined(SaleLines(call[k].doc))
      BY <1>7, <2>1, SaleLined DEF PostSale, Doc, Codes, TreasuryDocs
    <3> QED BY <3>1, PostPosts DEF PostedIn
  <2> QED BY <1>7, <2>1, <2>2 DEF PostSale, treasuryVars, TreasuryTyped
<1>8. CASE SaleUnposted(k)
  <2>1. call[k].doc \in Tickets /\ Turn(k, TreasuryDocs)
    BY <1>0, <1>8, LeaveTurns DEF SaleUnposted, At, Placed, ForTreasury, TreasuryDocs
  <2> QED BY <1>8, <2>1 DEF SaleUnposted, treasuryVars, PostedIn, TreasuryTyped
<1>9. ASSUME NEW r \in Registers, OpenSession(k, r)
      PROVE  Turn(k, TreasuryDocs) /\ PostedIn(TreasuryDocs) /\ TreasuryTyped'
  <2>1. Turn(k, TreasuryDocs)
    BY <1>9, TreasuryEnters DEF OpenSession
  <2> QED BY <1>9, <2>1 DEF OpenSession, treasuryVars, PostedIn, TreasuryTyped
<1>10. ASSUME NEW s \in DOMAIN Sessions, CloseSession(k, s)
       PROVE  Turn(k, TreasuryDocs) /\ PostedIn(TreasuryDocs) /\ TreasuryTyped'
  <2>1. Turn(k, TreasuryDocs)
    BY <1>10, TreasuryEnters DEF CloseSession
  <2> QED BY <1>10, <2>1 DEF CloseSession, treasuryVars, PostedIn, TreasuryTyped
<1>11. CASE InsertSession(k)
  <2>1. call[k].doc \in Registers /\ Turn(k, TreasuryDocs)
    BY <1>0, <1>11, LeaveTurns DEF InsertSession, At, Placed, ForTreasury, TreasuryDocs
  <2>2. PICK s \in DOMAIN Sessions : session' = [session EXCEPT ![s].status = "OPEN"]
    BY <1>11 DEF InsertSession
  <2>3. session'
          \in [DOMAIN Sessions -> [status : {"absent", "OPEN", "CLOSED"}, closing : Int, expected : Int]]
    BY <2>2 DEF TreasuryTyped
  <2> QED BY <1>11, <2>1, <2>3 DEF InsertSession, PostedIn, TreasuryTyped
<1>12. CASE SumTakings(k)
  <2> DEFINE sum == Opening + SumFunction([v \in InSession(Doc(k)) |-> Tendered(v)])
             s == call[k].doc
  <2>1. s \in DOMAIN Sessions
    BY <1>0, <1>12 DEF SumTakings, At, Placed, ForTreasury
  <2>2. sum \in Int
    <3>1. \A d : SumFunction([v \in InSession(d) |-> Tendered(v)]) \in Int /\ Opening \in Nat
      BY DrawerInt
    <3>2. SumFunction([v \in InSession(Doc(k)) |-> Tendered(v)]) \in Int /\ Opening \in Nat
      BY <3>1
    <3> QED BY <3>2
  <2>3. GotoWith(k, "close_session", sum)
    BY <1>12 DEF SumTakings
  <2> HIDE DEF sum
  <2>4. Placed([at |-> "close_session", doc |-> s, sum |-> sum, todo |-> call[k].todo])
    BY <2>1, <2>2, AsRecord, TreasuryPlaces
  <2>5. Turn(k, TreasuryDocs)
    BY <2>1, <2>3, <2>4, GotoWithMoves DEF Turn, TreasuryDocs
  <2> QED BY <1>12, <2>5 DEF SumTakings, treasuryVars, PostedIn, TreasuryTyped
<1>13. CASE WriteClosed(k)
  <2> DEFINE s == call[k].doc
  <2>1. s \in DOMAIN Sessions /\ call[k].sum \in Int
    BY <1>0, <1>13 DEF WriteClosed, At, Placed, ForTreasury
  <2>2. Placed([at |-> "post_variance", doc |-> s, sum |-> call[k].sum, todo |-> call[k].todo])
    BY <2>1, AsRecord, TreasuryPlaces
  <2>3. Turn(k, TreasuryDocs)
    BY <1>13, <2>1, <2>2, GotoMoves DEF WriteClosed, Turn, TreasuryDocs
  <2>4. PICK short \in Shortfalls : session' = [session EXCEPT ![s] =
          [status |-> "CLOSED", closing |-> Drawer(s) - short, expected |-> call[k].sum]]
    BY <1>13 DEF WriteClosed, Doc, Figure
  <2>5. short \in Int /\ Drawer(s) \in Int
    <3>1. \A d : Drawer(d) \in Int
      BY DrawerInt
    <3> QED BY <3>1, TreasuryAssumption
  <2>6. [status |-> "CLOSED", closing |-> Drawer(s) - short, expected |-> call[k].sum]
          \in [status : {"absent", "OPEN", "CLOSED"}, closing : Int, expected : Int]
    BY <2>1, <2>5
  <2>7. session'
          \in [DOMAIN Sessions -> [status : {"absent", "OPEN", "CLOSED"}, closing : Int, expected : Int]]
    BY <2>4, <2>6 DEF TreasuryTyped
  <2> QED BY <1>13, <2>3, <2>7 DEF WriteClosed, PostedIn, TreasuryTyped
<1>14. CASE PostVariance(k)
  <2>1. call[k].doc \in DOMAIN Sessions /\ Turn(k, TreasuryDocs)
    BY <1>0, <1>14, LeaveTurns DEF PostVariance, At, Placed, ForTreasury, TreasuryDocs
  <2>2. PostedIn(TreasuryDocs)
    <3>1. /\ UNCHANGED journal \/ Post(call[k].doc, "CA", VarianceLines(call[k].doc))
          /\ "CA" \in Codes /\ call[k].doc \in TreasuryDocs /\ Lined(VarianceLines(call[k].doc))
      BY <1>14, <2>1, VarianceLined DEF PostVariance, Doc, Codes, TreasuryDocs
    <3> QED BY <3>1, PostPosts DEF PostedIn
  <2> QED BY <1>14, <2>1, <2>2 DEF PostVariance, treasuryVars, TreasuryTyped
<1>15. CASE VarianceUnposted(k)
  <2>1. call[k].doc \in DOMAIN Sessions /\ Turn(k, TreasuryDocs)
    BY <1>0, <1>15, LeaveTurns DEF VarianceUnposted, At, Placed, ForTreasury, TreasuryDocs
  <2> QED BY <1>15, <2>1 DEF VarianceUnposted, treasuryVars, PostedIn, TreasuryTyped
<1> QED BY <1>1, <1>2, <1>3, <1>4, <1>5, <1>6, <1>7, <1>8, <1>9, <1>10, <1>11, <1>12, <1>13, <1>14, <1>15
        DEF TreasuryStep

-----------------------------------------------------------------------------
(***************************************************************************)
(* Fixed assets.                                                           *)
(***************************************************************************)
LEMMA RowsListed ==
  ASSUME AssetsTyped, NEW n, NEW rows \in SetToSeqs(DueRows(n))
  PROVE  rows \in Seq(AssetRows)
<1>1. DueRows(n) \subseteq AssetRows
  <2> SUFFICES ASSUME NEW r \in DueRows(n) PROVE r \in AssetRows
    OBVIOUS
  <2>1. PICK a \in FixedAssets : r \in {a} \X DOMAIN posted[a]
    BY DEF DueRows
  <2>2. DOMAIN posted[a] \subseteq 1..Purchase[a].years
    BY DEF AssetsTyped
  <2> QED BY <2>1, <2>2 DEF AssetRows
<1>2. IsFiniteSet(DueRows(n))
  <2>1. IsFiniteSet(FixedAssets)
    BY FiniteDocs, AreDocs DEF AssetDocs
  <2>2. DueRows(n) \subseteq UNION {{a} \X DOMAIN posted[a] : a \in FixedAssets}
    BY DEF DueRows
  <2>3. ASSUME NEW a \in FixedAssets
        PROVE  IsFiniteSet({a} \X DOMAIN posted[a])
    <3>1. DOMAIN posted[a] \subseteq 1..Purchase[a].years /\ Purchase[a].years \in Nat
      BY Bought DEF AssetsTyped
    <3>2. IsFiniteSet(1..Purchase[a].years)
      BY <3>1, FS_Interval
    <3>3. IsFiniteSet({a}) /\ IsFiniteSet(DOMAIN posted[a])
      BY <3>1, <3>2, FS_Subset, FS_Singleton
    <3> QED BY <3>3, FS_Product
  <2>4. IsFiniteSet(UNION {{a} \X DOMAIN posted[a] : a \in FixedAssets})
    <3> DEFINE All == {{a} \X DOMAIN posted[a] : a \in FixedAssets}
               f == [a \in FixedAssets |-> {a} \X DOMAIN posted[a]]
    <3>1. f \in Surjection(FixedAssets, All)
      BY DEF Surjection
    <3>2. \A S \in All : IsFiniteSet(S)
      BY <2>3
    <3> HIDE DEF All, f
    <3>3. IsFiniteSet(All)
      BY <2>1, <3>1, FS_Surjection
    <3>4. IsFiniteSet(UNION All)
      BY <3>2, <3>3, FS_UNION
    <3> QED BY <3>4 DEF All
  <2> QED BY <2>2, <2>4, FS_Subset
<1>3. Cardinality(DueRows(n)) \in Nat
  BY <1>2, FS_CardinalityType
<1>4. rows \in [1..Cardinality(DueRows(n)) -> DueRows(n)]
  BY DEF SetToSeqs
<1> QED BY <1>1, <1>3, <1>4

LEMMA RowInHand ==
  ASSUME Served, NEW k \in Slots, At(k, "next_row") \/ At(k, "mark_row") \/ At(k, "retire_asset")
  PROVE  /\ call[k].doc = Posting /\ Todo(k) \in Seq(AssetRows)
         /\ ~At(k, "next_row") => Todo(k) # <<>>
         /\ Todo(k) # <<>> => Row(k) \in AssetRows /\ Tail(Todo(k)) \in Seq(AssetRows)
<1>1. Placed(call[k])
  BY DEF Served
<1>2. /\ call[k].doc = Posting /\ Todo(k) \in Seq(AssetRows)
      /\ ~At(k, "next_row") => Todo(k) # <<>>
  BY <1>1 DEF At, Todo, Placed, ForAssets
<1> QED BY <1>2, HeadTailProperties DEF Row

LEMMA AssetEnters ==
  ASSUME Served, NEW k \in Slots, NEW place, NEW d, NEW sum, NEW todo, Enter(k, place, d, sum, todo),
         \/ place \in {"schedule_asset", "dispose_asset"} /\ d \in FixedAssets
         \/ place = "next_row" /\ d = Posting /\ todo \in Seq(AssetRows)
  PROVE  Turn(k, AssetDocs)
<1>1. Placed([at |-> place, doc |-> d, sum |-> sum, todo |-> todo])
  BY AsRecord, AssetPlaces
<1>2. d \in AssetDocs
  BY DEF AssetDocs
<1> QED BY <1>1, <1>2, EnterMoves DEF Turn

LEMMA RowGoes ==
  ASSUME Served, NEW k \in Slots, call[k].doc = Posting,
         \/ Goto(k, "mark_row") /\ Todo(k) \in Seq(AssetRows) /\ Todo(k) # <<>>
         \/ Goto(k, "retire_asset") /\ Todo(k) \in Seq(AssetRows) /\ Todo(k) # <<>>
         \/ GotoLeft(k, "next_row", Tail(Todo(k))) /\ Tail(Todo(k)) \in Seq(AssetRows)
  PROVE  Turn(k, AssetDocs)
<1>1. call[k].doc \in AssetDocs
  BY DEF AssetDocs
<1>2. ASSUME NEW place \in {"mark_row", "retire_asset"}, Goto(k, place),
             Todo(k) \in Seq(AssetRows), Todo(k) # <<>>
      PROVE  Turn(k, AssetDocs)
  <2>1. Placed([at |-> place, doc |-> call[k].doc, sum |-> call[k].sum, todo |-> call[k].todo])
    BY <1>2, AsRecord, AssetPlaces DEF Todo
  <2> QED BY <1>1, <1>2, <2>1, GotoMoves DEF Turn
<1>3. ASSUME GotoLeft(k, "next_row", Tail(Todo(k))), Tail(Todo(k)) \in Seq(AssetRows)
      PROVE  Turn(k, AssetDocs)
  <2>1. Placed([at |-> "next_row", doc |-> call[k].doc, sum |-> call[k].sum, todo |-> Tail(Todo(k))])
    BY <1>3, AsRecord, AssetPlaces
  <2> QED BY <1>1, <1>3, <2>1, GotoLeftMoves DEF Turn
<1> QED BY <1>2, <1>3

LEMMA AssetsTurn ==
  ASSUME Typed, NEW k \in Slots, AssetsStep(k)
  PROVE  Turn(k, AssetDocs) /\ PostedIn(AssetDocs) /\ AssetsTyped'
<1> USE DEF Typed
<1>0. Placed(call[k])
  BY DEF Served
<1>1. ASSUME NEW a \in FixedAssets, CreateAsset(k, a) \/ Dispose(k, a)
      PROVE  Turn(k, AssetDocs) /\ PostedIn(AssetDocs) /\ AssetsTyped'
  <2>1. Turn(k, AssetDocs)
    BY <1>1, AssetEnters DEF CreateAsset, Dispose
  <2> QED BY <1>1, <2>1 DEF CreateAsset, Dispose, assetVars, PostedIn, AssetsTyped
<1>2. CASE GenerateSchedule(k)
  <2>1. call[k].doc \in FixedAssets /\ Turn(k, AssetDocs)
    BY <1>0, <1>2, LeaveTurns DEF GenerateSchedule, At, Placed, ForAssets, AssetDocs
  <2>2. AssetsTyped'
    BY <1>2, <2>1 DEF GenerateSchedule, AssetsTyped, Doc
  <2> QED BY <1>2, <2>1, <2>2 DEF GenerateSchedule, PostedIn
<1>3. CASE MarkDisposed(k)
  <2>1. call[k].doc \in FixedAssets /\ Turn(k, AssetDocs)
    BY <1>0, <1>3, LeaveTurns DEF MarkDisposed, At, Placed, ForAssets, AssetDocs
  <2> QED BY <1>3, <2>1 DEF MarkDisposed, PostedIn, AssetsTyped
<1>4. ASSUME NEW n \in 1..MaxYears, PostDue(k, n)
      PROVE  Turn(k, AssetDocs) /\ PostedIn(AssetDocs) /\ AssetsTyped'
  <2>1. PICK rows \in SetToSeqs(DueRows(n)) : Enter(k, "next_row", Posting, 0, rows)
    BY <1>4 DEF PostDue
  <2>2. Turn(k, AssetDocs)
    BY <2>1, RowsListed, AssetEnters
  <2> QED BY <1>4, <2>2 DEF PostDue, assetVars, PostedIn, AssetsTyped
<1>5. CASE PostRow(k)
  <2> DEFINE r == Row(k)
             lines == <<Debit(681, Amount(r[1], r[2])), Credit(Purchase[r[1]].account, Amount(r[1], r[2]))>>
  <2>1. call[k].doc = Posting /\ r \in AssetRows /\ Todo(k) \in Seq(AssetRows) /\ Todo(k) # <<>>
    BY <1>5, RowInHand DEF PostRow
  <2>2. Turn(k, AssetDocs)
    BY <1>5, <2>1, RowGoes DEF PostRow
  <2>3. PostedIn(AssetDocs)
    <3>1. Post(r[1], "OD", lines) /\ "OD" \in Codes /\ r[1] \in AssetDocs /\ Lined(lines)
      BY <1>5, <2>1, RowLined DEF PostRow, Codes, AssetDocs, AssetRows
    <3> HIDE DEF r, lines
    <3> QED BY <3>1, PostPosts DEF PostedIn
  <2> QED BY <1>5, <2>2, <2>3 DEF PostRow, assetVars, AssetsTyped
<1>6. CASE SkipRow(k)
  <2>1. Turn(k, AssetDocs)
    BY <1>6, RowInHand, RowGoes DEF SkipRow
  <2> QED BY <1>6, <2>1 DEF SkipRow, assetVars, PostedIn, AssetsTyped
<1>7. CASE MarkRow(k)
  <2>0. call[k].doc = Posting /\ Todo(k) \in Seq(AssetRows) /\ Todo(k) # <<>>
          /\ Tail(Todo(k)) \in Seq(AssetRows)
    <3>1. At(k, "mark_row") /\ ~At(k, "next_row")
      BY <1>7 DEF MarkRow, At
    <3> QED BY <3>1, RowInHand
  <2>1. Turn(k, AssetDocs)
    BY <1>7, <2>0, RowGoes DEF MarkRow
  <2>2. AssetsTyped'
    BY <1>7 DEF MarkRow, AssetsTyped
  <2> QED BY <1>7, <2>1, <2>2 DEF MarkRow, PostedIn
<1>8. CASE Retire(k)
  <2>0. call[k].doc = Posting /\ Tail(Todo(k)) \in Seq(AssetRows)
    <3>1. At(k, "retire_asset") /\ ~At(k, "next_row")
      BY <1>8 DEF Retire, At
    <3> QED BY <3>1, RowInHand
  <2>1. Turn(k, AssetDocs)
    BY <1>8, <2>0, RowGoes DEF Retire
  <2> QED BY <1>8, <2>1 DEF Retire, PostedIn, AssetsTyped
<1>9. CASE PostDueDone(k)
  <2>1. call[k].doc \in AssetDocs
    BY <1>9, RowInHand DEF PostDueDone, AssetDocs
  <2>2. Turn(k, AssetDocs)
    BY <1>9, <2>1, LeaveTurns DEF PostDueDone
  <2> QED BY <1>9, <2>2 DEF PostDueDone, assetVars, PostedIn, AssetsTyped
<1> QED BY <1>1, <1>2, <1>3, <1>4, <1>5, <1>6, <1>7, <1>8, <1>9 DEF AssetsStep

-----------------------------------------------------------------------------
(***************************************************************************)
(* People and payroll.                                                     *)
(***************************************************************************)
LEMMA PeopleTurn ==
  ASSUME Typed, NEW k \in Slots, PeopleStep(k)
  PROVE  Turn(k, PeopleDocs) /\ PeopleTyped'
<1> USE DEF Typed
<1>0. Placed(call[k])
  BY DEF Served
<1>1. ASSUME NEW e \in Employees, Hire(k, e) \/ SignContract(k, e) \/ EndContract(k, e)
      PROVE  Turn(k, PeopleDocs) /\ PeopleTyped'
  <2>1. Turn(k, PeopleDocs)
    BY <1>1, AtOnceMoves DEF Hire, SignContract, EndContract, Turn, PeopleDocs
  <2> QED BY <1>1, <2>1 DEF Hire, SignContract, EndContract, PeopleTyped
<1>2. ASSUME NEW e \in Employees, Raise(k, e)
      PROVE  Turn(k, PeopleDocs) /\ PeopleTyped'
  <2>1. Turn(k, PeopleDocs)
    BY <1>2, AtOnceMoves DEF Raise, Turn, PeopleDocs
  <2> QED BY <1>2, <2>1, PeopleAssumption DEF Raise, PeopleTyped
<1>3. ASSUME NEW e \in Employees, Terminate(k, e)
      PROVE  Turn(k, PeopleDocs) /\ PeopleTyped'
  <2>1. Placed([at |-> "terminate", doc |-> e, sum |-> 0, todo |-> <<>>])
    BY AsRecord, PeoplePlaces
  <2>2. Turn(k, PeopleDocs)
    BY <1>3, <2>1, EnterMoves DEF Terminate, Turn, PeopleDocs
  <2> QED BY <1>3, <2>2 DEF Terminate, PeopleTyped
<1>4. ASSUME NEW e \in Employees, NEW d \in Days, NEW s, RecordAttendance(k, e, d, s)
      PROVE  Turn(k, PeopleDocs) /\ PeopleTyped'
  <2>1. Turn(k, PeopleDocs)
    BY <1>4, AtOnceMoves DEF RecordAttendance, Turn, PeopleDocs
  <2> QED BY <1>4, <2>1 DEF RecordAttendance, PeopleTyped
<1>5. ASSUME NEW r \in Leaves, RequestLeave(k, r)
      PROVE  Turn(k, PeopleDocs) /\ PeopleTyped'
  <2>1. Turn(k, PeopleDocs)
    BY <1>5, AtOnceMoves DEF RequestLeave, Turn, PeopleDocs
  <2> QED BY <1>5, <2>1 DEF RequestLeave, PeopleTyped
<1>6. ASSUME NEW r \in Leaves, NEW place \in {"APPROVED", "REJECTED"}, DecideLeave(k, r, place)
      PROVE  Turn(k, PeopleDocs) /\ PeopleTyped'
  <2>1. Placed([at |-> place, doc |-> r, sum |-> 0, todo |-> <<>>])
    BY AsRecord, PeoplePlaces
  <2>2. Turn(k, PeopleDocs)
    BY <1>6, <2>1, EnterMoves DEF DecideLeave, Turn, PeopleDocs
  <2> QED BY <1>6, <2>2 DEF DecideLeave, PeopleTyped, peopleVars
<1>7. CASE MarkTerminated(k) \/ WriteDecision(k)
  <2>1. call[k].doc \in PeopleDocs
    BY <1>0, <1>7 DEF MarkTerminated, WriteDecision, At, Placed, ForPeople, PeopleDocs
  <2>2. Turn(k, PeopleDocs)
    BY <1>7, <2>1, LeaveTurns DEF MarkTerminated, WriteDecision
  <2> QED BY <1>7, <2>2 DEF MarkTerminated, WriteDecision, PeopleTyped
<1> QED BY <1>1, <1>2, <1>3, <1>4, <1>5, <1>6, <1>7 DEF PeopleStep

LEMMA StaffListed ==
  ASSUME PeopleTyped
  PROVE  /\ IsFiniteSet({<<e, salary[e]>> : e \in Active})
         /\ {<<e, salary[e]>> : e \in Active} \subseteq Staff
         /\ SetToSeq({<<e, salary[e]>> : e \in Active}) \in Seq(Staff)
<1> DEFINE S == {<<e, salary[e]>> : e \in Active}
           f == [e \in Active |-> <<e, salary[e]>>]
<1>1. IsFiniteSet(Active)
  BY FiniteDocs, AreDocs DEF Active, PeopleDocs
<1>2. f \in Surjection(Active, S)
  BY DEF Surjection
<1>3. S \subseteq Staff
  BY DEF Active, Staff, PeopleTyped
<1> HIDE DEF S, f
<1>4. IsFiniteSet(S)
  BY <1>1, <1>2, FS_Surjection
<1>5. SetToSeq(S) \in Seq(S)
  BY <1>4, Listing
<1>6. SetToSeq(S) \in Seq(Staff)
  BY <1>3, <1>5, SeqMonotonic
<1> QED BY <1>3, <1>4, <1>6 DEF S

LEMMA SlipInHand ==
  ASSUME Served, NEW k \in Slots, At(k, "next_slip") \/ At(k, "insert_slip")
  PROVE  /\ call[k].doc \in Runs /\ Todo(k) \in Seq(Staff)
         /\ At(k, "insert_slip") => Todo(k) # <<>> /\ Figure(k) \in Int
         /\ Todo(k) # <<>> => Head(Todo(k)) \in Staff /\ Tail(Todo(k)) \in Seq(Staff)
<1>1. Placed(call[k])
  BY DEF Served
<1>2. /\ call[k].doc \in Runs /\ Todo(k) \in Seq(Staff)
      /\ At(k, "insert_slip") => Todo(k) # <<>> /\ Figure(k) \in Int
  BY <1>1 DEF At, Todo, Figure, Placed, ForPayroll
<1> QED BY <1>2, HeadTailProperties

LEMMA PayrollTurn ==
  ASSUME Typed, NEW k \in Slots, PayrollStep(k)
  PROVE  Turn(k, Runs) /\ PostedIn(Runs) /\ PayrollTyped' /\ PeopleTyped'
<1> USE DEF Typed
<1>0. Placed(call[k])
  BY DEF Served
<1>1. ASSUME NEW p \in Runs, CreateRun(k, p)
      PROVE  Turn(k, Runs) /\ PostedIn(Runs) /\ PayrollTyped' /\ PeopleTyped'
  <2> DEFINE todo == SetToSeq({<<e, salary[e]>> : e \in Active})
  <2>1. todo \in Seq(Staff) /\ Enter(k, "insert_run", p, 0, todo)
    BY <1>1, StaffListed DEF CreateRun
  <2> HIDE DEF todo
  <2>2. Placed([at |-> "insert_run", doc |-> p, sum |-> 0, todo |-> todo])
    BY <2>1, AsRecord, PayrollPlaces
  <2>3. Turn(k, Runs)
    BY <2>1, <2>2, EnterMoves DEF Turn
  <2> QED BY <1>1, <2>3 DEF CreateRun, peopleVars, payrollVars, PostedIn, PayrollTyped, PeopleTyped
<1>2. ASSUME NEW p \in Runs, ValidateRun(k, p)
      PROVE  Turn(k, Runs) /\ PostedIn(Runs) /\ PayrollTyped' /\ PeopleTyped'
  <2>1. slips[p] \subseteq Slips /\ IsFiniteSet(slips[p])
    BY DEF PayrollTyped
  <2>2. SetToSeq(slips[p]) \in Seq(Slips)
    BY <2>1, Listing, SeqMonotonic
  <2>3. Placed([at |-> "post_run", doc |-> p, sum |-> 0, todo |-> SetToSeq(slips[p])])
    BY <2>2, AsRecord, PayrollPlaces
  <2>4. Turn(k, Runs)
    BY <1>2, <2>3, EnterMoves DEF Turn, ValidateRun
  <2> QED BY <1>2, <2>4 DEF ValidateRun, peopleVars, payrollVars, PostedIn, PayrollTyped, PeopleTyped
<1>3. ASSUME NEW p \in Runs, GenerateTransfers(k, p)
      PROVE  Turn(k, Runs) /\ PostedIn(Runs) /\ PayrollTyped' /\ PeopleTyped'
  <2>1. Turn(k, Runs)
    BY <1>3, AtOnceMoves DEF GenerateTransfers, Turn
  <2> QED BY <1>3, <2>1 DEF GenerateTransfers, peopleVars, PostedIn, PayrollTyped, PeopleTyped
<1>4. CASE InsertRun(k)
  <2>1. call[k].doc \in Runs /\ call[k].todo \in Seq(Staff)
    BY <1>0, <1>4 DEF InsertRun, At, Placed, ForPayroll
  <2>2. Placed([at |-> "next_slip", doc |-> call[k].doc, sum |-> call[k].sum, todo |-> call[k].todo])
    BY <2>1, AsRecord, PayrollPlaces
  <2>3. Turn(k, Runs)
    BY <1>4, <2>1, <2>2, GotoMoves, LeaveTurns DEF InsertRun, Turn
  <2>4. {t[1] : t \in ToSet(Todo(k))} \subseteq Employees
    <3>1. \A i \in DOMAIN call[k].todo : call[k].todo[i] \in Staff
      BY <2>1, LenProperties, ElementOfSeq
    <3> QED BY <3>1 DEF ToSet, Todo, Staff
  <2>5. PayrollTyped'
    BY <1>4, <2>1, <2>4 DEF InsertRun, PayrollTyped, Doc
  <2> QED BY <1>4, <2>3, <2>5 DEF InsertRun, peopleVars, PostedIn, PeopleTyped
<1>5. CASE ComputeSlip(k)
  <2> DEFINE h == Head(Todo(k))
             base == Prorated(h[1], h[2])
  <2>1. call[k].doc \in Runs /\ Todo(k) \in Seq(Staff) /\ Todo(k) # <<>> /\ h \in Staff
    BY <1>5, SlipInHand DEF ComputeSlip
  <2>2. GotoWith(k, "insert_slip", base)
    BY <1>5 DEF ComputeSlip
  <2>3. base \in Int
    <3>1. h[1] \in Employees /\ h[2] \in Int
      BY <2>1 DEF Staff
    <3> HIDE DEF h
    <3> QED BY <3>1, ProratedInt
  <2> HIDE DEF base
  <2>4. Placed([at |-> "insert_slip", doc |-> call[k].doc, sum |-> base, todo |-> call[k].todo])
    BY <2>1, <2>3, AsRecord, PayrollPlaces DEF Todo
  <2>5. Turn(k, Runs)
    BY <2>1, <2>2, <2>4, GotoWithMoves DEF Turn
  <2> QED BY <1>5, <2>5 DEF ComputeSlip, peopleVars, payrollVars, PostedIn, PayrollTyped, PeopleTyped
<1>6. CASE InsertSlip(k)
  <2> DEFINE p == call[k].doc
             slip == Payslip(Head(Todo(k))[1], Figure(k))
  <2>1. /\ p \in Runs /\ Figure(k) \in Int /\ Head(Todo(k)) \in Staff /\ Tail(Todo(k)) \in Seq(Staff)
    BY <1>6, SlipInHand DEF InsertSlip
  <2>2. Placed([at |-> "next_slip", doc |-> p, sum |-> call[k].sum, todo |-> Tail(Todo(k))])
    BY <2>1, AsRecord, PayrollPlaces
  <2>3. Turn(k, Runs)
    BY <1>6, <2>1, <2>2, GotoLeftMoves DEF InsertSlip, Turn
  <2>4. slip \in Slips
    <3>1. Head(Todo(k))[1] \in Employees
      BY <2>1 DEF Staff
    <3> QED BY <2>1, <3>1, PayslipIs
  <2> HIDE DEF slip
  <2>5. slips[p] \cup {slip} \in {S \in SUBSET Slips : IsFiniteSet(S)}
    <3>1. slips[p] \subseteq Slips /\ IsFiniteSet(slips[p])
      BY <2>1 DEF PayrollTyped
    <3> QED BY <2>4, <3>1, FS_AddElement
  <2>6. slips' = [slips EXCEPT ![p] = slips[p] \cup {slip}]
    BY <1>6 DEF InsertSlip, Doc, slip
  <2>7. slips' \in [Runs -> {S \in SUBSET Slips : IsFiniteSet(S)}]
    BY <2>5, <2>6 DEF PayrollTyped
  <2> QED BY <1>6, <2>3, <2>7 DEF InsertSlip, peopleVars, PostedIn, PayrollTyped, PeopleTyped
<1>7. CASE RunCreated(k)
  <2>1. call[k].doc \in Runs
    BY <1>7, SlipInHand DEF RunCreated
  <2>2. Turn(k, Runs)
    BY <1>7, <2>1, LeaveTurns DEF RunCreated
  <2> QED BY <1>7, <2>2 DEF RunCreated, peopleVars, payrollVars, PostedIn, PayrollTyped, PeopleTyped
<1>8. CASE PostRun(k) \/ RunUnposted(k)
  <2>1. call[k].doc \in Runs /\ call[k].todo \in Seq(Slips)
    BY <1>0, <1>8 DEF PostRun, RunUnposted, At, Placed, ForPayroll
  <2>2. Placed([at |-> "mark_run", doc |-> call[k].doc, sum |-> call[k].sum, todo |-> call[k].todo])
    BY <2>1, AsRecord, PayrollPlaces
  <2>3. Turn(k, Runs)
    BY <1>8, <2>1, <2>2, GotoMoves DEF PostRun, RunUnposted, Turn
  <2>4. PostedIn(Runs)
    <3> DEFINE paid == ToSet(Todo(k))
    <3>1. Lined(RunLines(paid))
      <4>1. /\ \A i \in DOMAIN call[k].todo : call[k].todo[i] \in Slips
            /\ Len(call[k].todo) \in Nat /\ DOMAIN call[k].todo = 1..Len(call[k].todo)
        BY <2>1, LenProperties, ElementOfSeq
      <4>2. paid \subseteq Slips
        BY <4>1 DEF ToSet, Todo
      <4>3. call[k].todo \in Surjection(DOMAIN call[k].todo, paid)
        BY <2>1, LenProperties DEF ToSet, Todo, Surjection
      <4>4. IsFiniteSet(paid)
        BY <4>1, <4>3, FS_Interval, FS_Surjection
      <4> HIDE DEF paid
      <4> QED BY <4>2, <4>4, RunLined
    <3> HIDE DEF paid
    <3>2. UNCHANGED journal \/ Post(call[k].doc, "PA", RunLines(paid))
      BY <1>8 DEF PostRun, RunUnposted, Doc, paid
    <3>3. "PA" \in Codes
      BY DEF Codes
    <3> QED BY <2>1, <3>1, <3>2, <3>3, PostPosts DEF PostedIn
  <2> QED BY <1>8, <2>3, <2>4 DEF PostRun, RunUnposted, peopleVars, payrollVars, PayrollTyped, PeopleTyped
<1>9. CASE MarkRun(k)
  <2>1. call[k].doc \in Runs
    BY <1>0, <1>9 DEF MarkRun, At, Placed, ForPayroll
  <2>2. Turn(k, Runs)
    BY <1>9, <2>1, LeaveTurns DEF MarkRun
  <2> QED BY <1>9, <2>2 DEF MarkRun, peopleVars, PostedIn, PayrollTyped, PeopleTyped
<1> QED BY <1>1, <1>2, <1>3, <1>4, <1>5, <1>6, <1>7, <1>8, <1>9 DEF PayrollStep

-----------------------------------------------------------------------------
(***************************************************************************)
(* Reconciliation, manual entries, restarts.                               *)
(***************************************************************************)
LEMMA ReconciliationTurn ==
  ASSUME Typed, NEW k \in Slots, ReconciliationStep(k)
  PROVE  Turn(k, StatementDocs) /\ UNCHANGED journal
<1> USE DEF Typed
<1>0. Placed(call[k])
  BY DEF Served
<1>1. ASSUME NEW d \in DOMAIN Letterings, AutoLetter(k, d)
      PROVE  Turn(k, StatementDocs) /\ UNCHANGED journal
  <2>1. Placed([at |-> "next_letter", doc |-> d, sum |-> 0, todo |-> Pairs(Letterings[d])])
    BY AsRecord, StatementPlaces
  <2>2. Turn(k, StatementDocs)
    BY <1>1, <2>1, EnterMoves DEF AutoLetter, Turn, StatementDocs
  <2> QED BY <1>1, <2>2 DEF AutoLetter
<1>2. CASE WriteLetter(k)
  <2>1. call[k].doc \in DOMAIN Letterings
    BY <1>0, <1>2 DEF WriteLetter, At, Placed, ForReconciliation
  <2>2. Placed([at |-> "next_letter", doc |-> call[k].doc, sum |-> call[k].sum, todo |-> Tail(Todo(k))])
    BY <2>1, AsRecord, StatementPlaces
  <2>3. Turn(k, StatementDocs)
    BY <1>2, <2>1, <2>2, GotoLeftMoves DEF WriteLetter, Turn, StatementDocs
  <2> QED BY <1>2, <2>3 DEF WriteLetter
<1>3. ASSUME NEW s \in Statements, Import(k, s)
      PROVE  Turn(k, StatementDocs) /\ UNCHANGED journal
  BY <1>3, AtOnceMoves DEF Import, Turn, StatementDocs
<1>4. ASSUME NEW s \in Statements, AutoMatch(k, s)
      PROVE  Turn(k, StatementDocs) /\ UNCHANGED journal
  <2>1. PICK ns : Enter(k, "read_lines", Bank, 0, <<s, ns>>)
    BY <1>4 DEF AutoMatch
  <2>2. Placed([at |-> "read_lines", doc |-> Bank, sum |-> 0, todo |-> <<s, ns>>])
    BY AsRecord, StatementPlaces
  <2>3. Turn(k, StatementDocs)
    BY <2>1, <2>2, EnterMoves DEF Turn, StatementDocs
  <2> QED BY <1>4, <2>3 DEF AutoMatch
<1>5. ASSUME NEW s \in Statements, NEW n, NEW l, ManualMatch(k, s, n, l)
      PROVE  Turn(k, StatementDocs) /\ UNCHANGED journal
  BY <1>5, AtOnceMoves DEF ManualMatch, Turn, StatementDocs
<1>6. CASE ReadLines(k) \/ WriteMatch(k)
  <2>1. call[k].doc = Bank
    BY <1>0, <1>6 DEF ReadLines, WriteMatch, At, Placed, ForReconciliation
  <2>2. PICK todo : GotoLeft(k, "next_match", todo)
    BY <1>6 DEF ReadLines, WriteMatch
  <2>3. Placed([at |-> "next_match", doc |-> call[k].doc, sum |-> call[k].sum, todo |-> todo])
    BY <2>1, AsRecord, StatementPlaces
  <2>4. Turn(k, StatementDocs)
    BY <2>1, <2>2, <2>3, GotoLeftMoves DEF Turn, StatementDocs
  <2> QED BY <1>6, <2>4 DEF ReadLines, WriteMatch
<1>7. CASE AllWritten(k)
  <2>1. call[k].doc \in StatementDocs
    BY <1>0, <1>7 DEF AllWritten, At, Placed, ForReconciliation, StatementDocs
  <2>2. Turn(k, StatementDocs)
    BY <1>7, <2>1, LeaveTurns DEF AllWritten
  <2> QED BY <1>7, <2>2 DEF AllWritten
<1> QED BY <1>1, <1>2, <1>3, <1>4, <1>5, <1>6, <1>7 DEF ReconciliationStep

LEMMA ManualTurn ==
  ASSUME Typed, NEW k \in Slots, NEW d \in Manuals, ManualEntry(k, d)
  PROVE  Turn(k, Manuals) /\ PostedIn(Manuals)
<1>1. Turn(k, Manuals)
  BY AtOnceMoves DEF ManualEntry, Turn, Typed
<1>2. ManualLines[d] \in Seq(Move)
  <2>1. ManualLines[d] \in Seq([account : Nat, debit : Nat, credit : Nat])
    BY LedgerAssumption
  <2>2. [account : Nat, debit : Nat, credit : Nat] \subseteq Move
    BY DEF Move
  <2> QED BY <2>1, <2>2, SeqMonotonic
<1>3. PostedIn(Manuals)
  <2>1. Post(d, "OD", ManualLines[d]) /\ "OD" \in Codes /\ Lined(ManualLines[d])
    BY <1>2, ListLined DEF ManualEntry, Codes
  <2> QED BY <2>1, PostPosts DEF PostedIn
<1> QED BY <1>1, <1>3

LEMMA RestartKeeps ==
  ASSUME Served, Crash
  PROVE  /\ Served' /\ Alone'
         /\ \A k \in Slots : call'[k] = Free
         /\ crossed' = crossed /\ cut \subseteq cut'
         /\ \A k \in Slots : call[k].doc # None => call[k].doc \in cut'
<1>1. call' = [k \in Slots |-> Free]
  BY DEF Crash
<1>2. Served'
  BY <1>1, FreePlaced DEF Served
<1>3. Alone'
  BY <1>1, CallsAssumption DEF Alone, InFlight, Free
<1> QED BY <1>1, <1>2, <1>3 DEF Crash, Doc

(***************************************************************************)
(* A turn about the documents of one component is away from the others.    *)
(***************************************************************************)
LEMMA TurnIsAway ==
  ASSUME Typed, NEW k \in Slots, NEW D, D \subseteq Docs, Turn(k, D), PostedIn(D)
  PROVE  \A d \in Docs \ D : Away(d)
<1> TAKE d \in Docs \ D
<1>1. journal'[d] = journal[d]
  BY JournalKept DEF Typed
<1>2. PICK r : Moved(k, r, D)
  BY DEF Turn
<1>3. d # None
  BY CallsAssumption
<1>4. \A j \in Slots : call'[j] = IF j = k THEN r ELSE call[j]
  BY <1>2 DEF Moved, Typed, Served
<1> QED BY <1>1, <1>2, <1>3, <1>4 DEF Away, Moved

\* The parts of the state whose types are stated, component by component.
LEMMA TypedKept ==
  /\ UNCHANGED invoiceVars /\ InvoicesTyped => InvoicesTyped'
  /\ UNCHANGED treasuryVars /\ TreasuryTyped => TreasuryTyped'
  /\ UNCHANGED assetVars /\ AssetsTyped => AssetsTyped'
  /\ UNCHANGED peopleVars /\ PeopleTyped => PeopleTyped'
  /\ UNCHANGED payrollVars /\ PayrollTyped => PayrollTyped'
BY DEF invoiceVars, treasuryVars, assetVars, peopleVars, payrollVars,
       InvoicesTyped, TreasuryTyped, AssetsTyped, PeopleTyped, PayrollTyped

(***************************************************************************)
(* Who takes a step: a request about the documents of one component, which *)
(* leaves the variables of the others.                                     *)
(***************************************************************************)
Took(k, D) == Turn(k, D) /\ PostedIn(D) /\ D \subseteq Docs

LEMMA StepTurns ==
  ASSUME Typed, NEW k \in Slots, Step(k)
  PROVE  \/ /\ InvoicesStep(k) /\ Took(k, InvoiceDocs) /\ InvoicesTyped'
            /\ UNCHANGED <<treasuryVars, assetVars, peopleVars, payrollVars>>
         \/ /\ TreasuryStep(k) /\ Took(k, TreasuryDocs) /\ TreasuryTyped'
            /\ UNCHANGED <<invoiceVars, assetVars, peopleVars, payrollVars>>
         \/ /\ AssetsStep(k) /\ Took(k, AssetDocs) /\ AssetsTyped'
            /\ UNCHANGED <<invoiceVars, treasuryVars, peopleVars, payrollVars>>
         \/ /\ PayrollStep(k) /\ Took(k, Runs) /\ PayrollTyped' /\ PeopleTyped'
            /\ UNCHANGED <<invoiceVars, treasuryVars, assetVars>>
         \/ /\ Took(k, PeopleDocs) /\ PeopleTyped'
            /\ UNCHANGED <<invoiceVars, treasuryVars, assetVars, payrollVars>>
         \/ /\ Took(k, StatementDocs) \/ Took(k, Manuals)
            /\ UNCHANGED <<invoiceVars, treasuryVars, assetVars, peopleVars, payrollVars>>
<1>1. /\ InvoiceDocs \subseteq Docs /\ TreasuryDocs \subseteq Docs /\ AssetDocs \subseteq Docs
      /\ PeopleDocs \subseteq Docs /\ Runs \subseteq Docs /\ StatementDocs \subseteq Docs
      /\ Manuals \subseteq Docs
  BY AreDocs DEF InvoiceDocs
<1>2. CASE InvoicesStep(k) /\ UNCHANGED OthersThanInvoices
  BY <1>1, <1>2, InvoicesTurn DEF OthersThanInvoices, Took
<1>3. CASE TreasuryStep(k) /\ UNCHANGED OthersThanTreasury
  BY <1>1, <1>3, TreasuryTurn DEF OthersThanTreasury, Took
<1>4. CASE AssetsStep(k) /\ UNCHANGED OthersThanAssets
  BY <1>1, <1>4, AssetsTurn DEF OthersThanAssets, Took
<1>5. CASE PayrollStep(k) /\ UNCHANGED OthersThanPayroll
  BY <1>1, <1>5, PayrollTurn DEF OthersThanPayroll, Took
<1>6. CASE PeopleStep(k) /\ UNCHANGED <<journal, payrollVars, OthersThanPayroll>>
  BY <1>1, <1>6, PeopleTurn DEF OthersThanPayroll, Took, PostedIn
<1>7. CASE ReconciliationStep(k) /\ UNCHANGED OthersThanReconciliation
  BY <1>1, <1>7, ReconciliationTurn DEF OthersThanReconciliation, Took, PostedIn
<1>8. ASSUME NEW d \in Manuals, ManualEntry(k, d), UNCHANGED Components
      PROVE  /\ Took(k, Manuals)
             /\ UNCHANGED <<invoiceVars, treasuryVars, assetVars, peopleVars, payrollVars>>
  BY <1>1, <1>8, ManualTurn DEF Components, Took
<1> QED BY <1>2, <1>3, <1>4, <1>5, <1>6, <1>7, <1>8 DEF Step

LEMMA TookKeeps ==
  ASSUME Typed, NEW k \in Slots, NEW D, Took(k, D)
  PROVE  Served' /\ Alone' /\ JournalOK' /\ \A d \in Docs \ D : Away(d)
<1>1. Served' /\ Alone'
  BY MovedKeeps DEF Typed, Took
<1>2. JournalOK'
  BY JournalKept DEF Typed, Took
<1>3. \A d \in Docs \ D : Away(d)
  BY TurnIsAway DEF Took
<1> QED BY <1>1, <1>2, <1>3

LEMMA TypedStep ==
  ASSUME Typed, [Next]_vars
  PROVE  Typed'
<1>1. ASSUME NEW k \in Slots, Step(k)
      PROVE  Typed'
  <2>1. \A D : Took(k, D) => Served' /\ Alone' /\ JournalOK'
    BY TookKeeps
  <2>2. /\ InvoicesTyped /\ TreasuryTyped /\ AssetsTyped /\ PeopleTyped /\ PayrollTyped
    BY DEF Typed
  <2>3. /\ InvoicesTyped' /\ TreasuryTyped' /\ AssetsTyped' /\ PeopleTyped' /\ PayrollTyped'
        /\ \E D : Took(k, D)
    BY <1>1, <2>2, StepTurns, TypedKept
  <2> QED BY <2>1, <2>3 DEF Typed
<1>2. CASE Restart
  <2>1. Served' /\ Alone' /\ JournalOK'
    BY <1>2, RestartKeeps DEF Restart, Typed, JournalOK
  <2> QED BY <1>2, <2>1, TypedKept DEF Restart, Components, Typed
<1>3. CASE UNCHANGED vars
  <2>1. Served' /\ Alone' /\ JournalOK'
    BY <1>3 DEF vars, callVars, Typed, Served, Alone, JournalOK, InFlight
  <2> QED BY <1>3, <2>1, TypedKept DEF vars, Typed
<1> QED BY <1>1, <1>2, <1>3 DEF Next

LEMMA TypedInit ==
  ASSUME Init
  PROVE  Typed
<1>1. call = [k \in Slots |-> Free] /\ crossed = {}
  BY DEF Init, CallsInit
<1>2. Served /\ Alone
  BY <1>1, FreePlaced, CallsAssumption DEF Served, Alone, InFlight, Free
<1>3. JournalOK
  BY DEF Init, LedgerInit, JournalOK
<1>4. InvoicesTyped /\ PeopleTyped
  BY PeopleAssumption DEF Init, InvoicesInit, InvoicesTyped, PeopleInit, PeopleTyped
<1>5. TreasuryTyped
  BY DEF Init, TreasuryInit, TreasuryTyped, NoSession
<1>6. AssetsTyped
  <2>1. <<>> \in [{} -> BOOLEAN]
    OBVIOUS
  <2> QED BY <2>1 DEF Init, AssetsInit, AssetsTyped
<1>7. PayrollTyped
  BY FS_EmptySet DEF Init, PayrollInit, PayrollTyped
<1> QED BY <1>2, <1>3, <1>4, <1>5, <1>6, <1>7 DEF Typed

(***************************************************************************)
(* In every reachable state a request stands at a place of its component,  *)
(* about a document of the right table and with what that place reads; of  *)
(* a document no two requests met on, at most one is in flight; and the    *)
(* journal holds accepted entries only.                                    *)
(***************************************************************************)
THEOREM RequestsAreTyped == Spec => []Typed
BY TypedInit, TypedStep, PTL DEF Spec

-----------------------------------------------------------------------------
(***************************************************************************)
(* What an invoice's requests and entries are, by its status: the part of  *)
(* the inductive invariant that makes PostedOnce one.                      *)
(***************************************************************************)
Posts(i, place) == \E k \in InFlight(i) : call[k].at = place

InvoiceSound(i) ==
  /\ invoice[i] = "VALIDATED" \/ Posts(i, "mark_invoice") => journal[i] # <<>>
  /\ Undisturbed(i) =>
       /\ Posts(i, "insert_invoice") => invoice[i] = "absent"
       /\ Posts(i, "post_invoice") \/ Posts(i, "mark_invoice") => invoice[i] = "DRAFT"
       /\ Len(journal[i]) = IF invoice[i] = "VALIDATED" \/ Posts(i, "mark_invoice") THEN 1 ELSE 0

TransferSound(t) ==
  /\ transfer[t] = "COMPLETED" \/ Posts(t, "mark_transfer") => journal[t] # <<>>
  /\ Undisturbed(t) =>
       /\ Posts(t, "post_transfer") \/ Posts(t, "mark_transfer") \/ Posts(t, "cancel_transfer")
            => transfer[t] = "PENDING"
       /\ Len(journal[t]) = IF transfer[t] = "COMPLETED" \/ Posts(t, "mark_transfer") THEN 1 ELSE 0

\* A step after which those who are at these places about d were there before,
\* and, unless it disturbs d, who was at the mark still is.
Settles(d, places, mark) ==
  /\ journal'[d] = journal[d]
  /\ crossed \subseteq crossed' /\ cut \subseteq cut'
  /\ \A p \in places : Posts(d, p)' => Posts(d, p)
  /\ d \in crossed' \cup cut' \/ (Posts(d, mark) => Posts(d, mark)')

LEMMA AwaySettles ==
  ASSUME NEW d, Away(d), NEW places, NEW mark
  PROVE  Settles(d, places, mark)
<1>1. \A k \in Slots : call[k].doc = d <=> call'[k].doc = d
  BY DEF Away
<1>2. \A p : Posts(d, p) <=> Posts(d, p)'
  BY <1>1 DEF Away, Posts, InFlight
<1> QED BY <1>2 DEF Settles, Away

LEMMA RestartSettles ==
  ASSUME Served, Restart, NEW d \in Docs, NEW places, NEW mark
  PROVE  Settles(d, places, mark)
<1>1. /\ \A k \in Slots : call'[k] = Free
      /\ crossed' = crossed /\ cut \subseteq cut'
      /\ \A k \in Slots : call[k].doc # None => call[k].doc \in cut'
  BY RestartKeeps DEF Restart
<1>2. \A p : ~Posts(d, p)'
  BY <1>1, CallsAssumption DEF Posts, InFlight, Free
<1>3. \A p : Posts(d, p) => d \in cut'
  BY <1>1, CallsAssumption DEF Posts, InFlight
<1> QED BY <1>1, <1>2, <1>3 DEF Settles, Restart

\* The request in slot k is at a place, about d; nothing else about requests
\* changes, but for what is disturbed.
Puts(k, place, d, sum, todo) ==
  /\ call'[k] = [at |-> place, doc |-> d, sum |-> sum, todo |-> todo]
  /\ \A j \in Slots \ {k} : call'[j] = call[j]
  /\ crossed \subseteq crossed' /\ cut \subseteq cut'

LEMMA EnterPuts ==
  ASSUME Served, NEW k \in Slots, NEW place, NEW d, NEW sum, NEW todo, Enter(k, place, d, sum, todo)
  PROVE  /\ Puts(k, place, d, sum, todo) /\ call[k].at = "free" /\ call[k].doc = None
         /\ InFlight(d) = {} \/ d \in crossed'
BY DEF Enter, Puts, Served, At, Placed

LEMMA AtOncePuts ==
  ASSUME Served, NEW k \in Slots, NEW d, AtOnce(k, d)
  PROVE  /\ Puts(k, "free", None, call[k].sum, call[k].todo)
         /\ call[k].at = "free" /\ call[k].doc = None
         /\ InFlight(d) = {} \/ d \in crossed'
<1>1. Record(call[k]) /\ call[k].at = "free" /\ call[k].doc = None
  BY DEF Served, Placed, AtOnce, At
<1> QED BY <1>1 DEF AtOnce, Puts, Record

LEMMA GotoPuts ==
  ASSUME Served, NEW k \in Slots, NEW place, Goto(k, place)
  PROVE  Puts(k, place, call[k].doc, call[k].sum, call[k].todo)
<1>1. Record(call[k])
  BY DEF Served, Placed
<1>2. [call[k] EXCEPT !.at = place]
        = [at |-> place, doc |-> call[k].doc, sum |-> call[k].sum, todo |-> call[k].todo]
  BY <1>1 DEF Record
<1> QED BY <1>2 DEF Goto, Puts, Served

LEMMA GotoWithPuts ==
  ASSUME Served, NEW k \in Slots, NEW place, NEW sum, GotoWith(k, place, sum)
  PROVE  Puts(k, place, call[k].doc, sum, call[k].todo)
<1>1. Record(call[k])
  BY DEF Served, Placed
<1>2. [call[k] EXCEPT !.at = place, !.sum = sum]
        = [at |-> place, doc |-> call[k].doc, sum |-> sum, todo |-> call[k].todo]
  BY <1>1, NewSum
<1> QED BY <1>2 DEF GotoWith, Puts, Served

LEMMA GotoLeftPuts ==
  ASSUME Served, NEW k \in Slots, NEW place, NEW rest, GotoLeft(k, place, rest)
  PROVE  Puts(k, place, call[k].doc, call[k].sum, rest)
<1> DEFINE Fields == {"at", "doc", "sum", "todo"}
           r == [at |-> place, doc |-> call[k].doc, sum |-> call[k].sum, todo |-> rest]
<1>1. DOMAIN call[k] = Fields /\ call[k] = [x \in Fields |-> call[k][x]]
  BY DEF Served, Placed, Record
<1>2. [call[k] EXCEPT !.at = place, !.todo = rest]
        = [x \in Fields |-> IF x = "at" THEN place ELSE IF x = "todo" THEN rest ELSE call[k][x]]
  BY <1>1
<1>3. r = [x \in Fields |-> IF x = "at" THEN place ELSE IF x = "todo" THEN rest ELSE call[k][x]]
  BY <1>1
<1>4. call' = [call EXCEPT ![k] = [call[k] EXCEPT !.at = place, !.todo = rest]]
  BY DEF GotoLeft, Served
<1>5. call' = [call EXCEPT ![k] = r]
  BY <1>2, <1>3, <1>4
<1> QED BY <1>5 DEF GotoLeft, Puts, Served

LEMMA LeavePuts ==
  ASSUME Served, NEW k \in Slots, Leave(k) \/ Fail(k)
  PROVE  /\ Puts(k, "free", None, 0, <<>>)
         /\ Fail(k) => call[k].doc \in cut'
BY DEF Leave, Fail, Puts, Served, Free, Doc

LEMMA PutSettles ==
  ASSUME Served, NEW k \in Slots, NEW d, NEW place, NEW doc, NEW sum, NEW todo,
         Puts(k, place, doc, sum, todo), journal'[d] = journal[d], NEW places, NEW mark,
         place \notin places \/ doc # d, call[k].at # mark \/ call[k].doc # d
  PROVE  Settles(d, places, mark)
<1>1. \A p \in places : Posts(d, p)' => Posts(d, p)
  BY DEF Puts, Posts, InFlight
<1>2. Posts(d, mark) => Posts(d, mark)'
  BY DEF Puts, Posts, InFlight
<1> QED BY <1>1, <1>2 DEF Settles, Puts

LEMMA InvoiceSettles ==
  ASSUME NEW i \in Invs, InvoiceSound(i), invoice'[i] = invoice[i],
         Settles(i, {"insert_invoice", "post_invoice", "mark_invoice"}, "mark_invoice")
  PROVE  InvoiceSound(i)'
BY DEF InvoiceSound, Settles, Undisturbed

LEMMA TransferSettles ==
  ASSUME NEW t \in Transfers, TransferSound(t), transfer'[t] = transfer[t],
         Settles(t, {"post_transfer", "mark_transfer", "cancel_transfer"}, "mark_transfer")
  PROVE  TransferSound(t)'
BY DEF TransferSound, Settles, Undisturbed

\* Of an undisturbed document, the request in flight is the only one.
LEMMA OnlyOne ==
  ASSUME Alone, NEW d \in Docs, Undisturbed(d), NEW k \in Slots, call[k].doc = d
  PROVE  InFlight(d) = {k} /\ \A p : Posts(d, p) <=> call[k].at = p
BY DEF Alone, Undisturbed, InFlight, Posts

\* An entry of the journal is added after the others.
LEMMA Added ==
  ASSUME JournalOK, NEW d \in Docs, NEW code, NEW lines, Post(d, code, lines)
  PROVE  /\ journal'[d] = Append(journal[d], [code |-> code, lines |-> lines])
         /\ \A b \in Docs \ {d} : journal'[b] = journal[b]
         /\ Len(journal[d]) \in Nat /\ Len(journal'[d]) = Len(journal[d]) + 1 /\ journal'[d] # <<>>
<1>1. journal[d] \in Seq(Entries)
  BY DEF JournalOK
<1>2. /\ journal'[d] = Append(journal[d], [code |-> code, lines |-> lines])
      /\ \A b \in Docs \ {d} : journal'[b] = journal[b]
  BY DEF Post, JournalOK
<1>3. \A S : \A q \in Seq(S) : \A e : /\ Len(q) \in Nat /\ Len(Append(q, e)) = Len(q) + 1
                                      /\ Append(q, e) # <<>>
  OBVIOUS
<1> QED BY <1>1, <1>2, <1>3

LEMMA InvoicesKeepSound ==
  ASSUME Typed, NEW k \in Slots, InvoicesStep(k), NEW i \in Invs, InvoiceSound(i)
  PROVE  InvoiceSound(i)'
<1> USE DEF Typed
<1> DEFINE places == {"insert_invoice", "post_invoice", "mark_invoice"}
<1>0. Placed(call[k]) /\ i \in Docs /\ Company # i /\ i # None
  BY AreDocs, Kinds DEF Served
<1>a. ASSUME NEW place, NEW doc, NEW sum, NEW todo, Puts(k, place, doc, sum, todo),
             journal'[i] = journal[i], invoice'[i] = invoice[i],
             place \notin places \/ doc # i, call[k].at # "mark_invoice" \/ call[k].doc # i
      PROVE  InvoiceSound(i)'
  <2>1. places = {"insert_invoice", "post_invoice", "mark_invoice"}
    OBVIOUS
  <2> HIDE DEF places
  <2>2. Settles(i, places, "mark_invoice")
    BY <1>a, PutSettles
  <2> QED BY <1>a, <2>1, <2>2, InvoiceSettles
<1>1. ASSUME NEW j \in Invs, CreateInvoice(k, j) \/ ValidateInvoice(k, j)
      PROVE  InvoiceSound(i)'
  <2> DEFINE place == IF invoice[j] = "absent" THEN "insert_invoice" ELSE "post_invoice"
  <2>1. /\ UNCHANGED <<journal, invoice>> /\ Enter(k, place, j, 0, <<>>)
        /\ invoice[j] = (IF place = "insert_invoice" THEN "absent" ELSE "DRAFT")
        /\ place \in {"insert_invoice", "post_invoice"}
    BY <1>1 DEF CreateInvoice, ValidateInvoice, invoiceVars
  <2> HIDE DEF place
  <2>2. /\ Puts(k, place, j, 0, <<>>) /\ call[k].at = "free" /\ call[k].doc = None
        /\ InFlight(j) = {} \/ j \in crossed'
    BY <2>1, EnterPuts
  <2>3. CASE j # i
    BY <1>a, <2>1, <2>2, <2>3
  <2>4. CASE j = i
    <3>1. \A p : InFlight(i) = {} => (Posts(i, p)' <=> p = place) /\ ~Posts(i, p)
      BY <2>2, <2>4 DEF Puts, Posts, InFlight
    <3>2. Posts(i, "mark_invoice")' <=> Posts(i, "mark_invoice")
      BY <1>0, <2>1, <2>2, <2>4 DEF Puts, Posts, InFlight
    <3>3. Undisturbed(i)' => Undisturbed(i) /\ InFlight(i) = {}
      BY <2>2, <2>4 DEF Undisturbed, Puts
    <3> QED BY <2>1, <2>4, <3>1, <3>2, <3>3 DEF InvoiceSound
  <2> QED BY <2>3, <2>4
<1>2. ASSUME NEW j \in Invs, Generate(k, j) \/ MarkPaid(k, j)
      PROVE  InvoiceSound(i)'
  <2>1. PICK place, sum : /\ place \in {"insert_schedule", "mark_paid"}
                          /\ Enter(k, place, j, sum, <<>>)
    BY <1>2 DEF Generate, MarkPaid
  <2>2. Puts(k, place, j, sum, <<>>) /\ call[k].at = "free"
    BY <2>1, EnterPuts
  <2> QED BY <1>2, <1>a, <2>1, <2>2 DEF Generate, MarkPaid, invoiceVars
<1>3. CASE InsertInvoice(k)
  <2> DEFINE j == call[k].doc
  <2>1. j \in Invs /\ Puts(k, "free", None, 0, <<>>)
    BY <1>0, <1>3, LeavePuts DEF InsertInvoice, At, Placed, ForInvoices
  <2>2. UNCHANGED journal /\ invoice' = [invoice EXCEPT ![j] = "DRAFT"] /\ call[k].at = "insert_invoice"
    BY <1>3 DEF InsertInvoice, At, Doc
  <2>3. CASE j # i
    BY <1>0, <1>a, <2>1, <2>2, <2>3 DEF InvoicesTyped
  <2>4. CASE j = i
    <3>1. invoice'[i] = "DRAFT"
      BY <2>2, <2>4 DEF InvoicesTyped
    <3>2. Posts(i, "mark_invoice")' <=> Posts(i, "mark_invoice")
      BY <1>0, <2>1, <2>2 DEF Puts, Posts, InFlight
    <3>3. Undisturbed(i)' => /\ Undisturbed(i) /\ Posts(i, "insert_invoice")
                             /\ ~Posts(i, "mark_invoice") /\ ~Posts(i, "insert_invoice")'
      <4>1. Undisturbed(i)' => Undisturbed(i)
        BY <2>1 DEF Undisturbed, Puts
      <4>2. Undisturbed(i) => InFlight(i) = {k}
        BY <1>0, <2>1, <2>4, OnlyOne
      <4> QED BY <1>0, <2>1, <2>2, <4>1, <4>2 DEF Puts, Posts, InFlight
    <3> QED BY <2>2, <3>1, <3>2, <3>3 DEF InvoiceSound
  <2> QED BY <2>3, <2>4
<1>4. CASE PostInvoice(k)
  <2> DEFINE j == call[k].doc
  <2>1. j \in Invs /\ Puts(k, "mark_invoice", j, call[k].sum, call[k].todo)
    BY <1>0, <1>4, GotoPuts DEF PostInvoice, At, Placed, ForInvoices
  <2>2. /\ UNCHANGED invoice /\ call[k].at = "post_invoice"
        /\ \A b \in Docs \ {j} : journal'[b] = journal[b]
        /\ Len(journal[j]) \in Nat /\ Len(journal'[j]) = Len(journal[j]) + 1 /\ journal'[j] # <<>>
    BY <1>4, <2>1, AreDocs, Added DEF PostInvoice, At, Doc, invoiceVars
  <2>3. CASE j # i
    BY <1>0, <1>a, <2>1, <2>2, <2>3
  <2>4. CASE j = i
    <3>1. Undisturbed(i)' => /\ Undisturbed(i) /\ InFlight(i) = {k}
      BY <1>0, <2>1, <2>4, OnlyOne DEF Undisturbed, Puts
    <3>2. InFlight(i) = {k} => /\ Posts(i, "post_invoice") /\ ~Posts(i, "mark_invoice")
                               /\ Posts(i, "mark_invoice")' /\ ~Posts(i, "insert_invoice")'
      BY <2>1, <2>2, <2>4 DEF Puts, Posts, InFlight
    <3> QED BY <2>2, <2>4, <3>1, <3>2 DEF InvoiceSound
  <2> QED BY <2>3, <2>4
<1>5. CASE InvoiceRefused(k)
  <2>1. Puts(k, "free", None, 0, <<>>)
    BY <1>5, LeavePuts DEF InvoiceRefused
  <2> QED BY <1>0, <1>5, <1>a, <2>1 DEF InvoiceRefused, At, invoiceVars
<1>6. CASE MarkInvoice(k)
  <2> DEFINE j == call[k].doc
  <2>1. j \in Invs /\ call[k].at = "mark_invoice"
    BY <1>0, <1>6 DEF MarkInvoice, At, Placed, ForInvoices
  <2>2. PICK place, doc, sum, todo : /\ Puts(k, place, doc, sum, todo) /\ place \notin places
    BY <1>6, GotoPuts, LeavePuts DEF MarkInvoice
  <2>3. UNCHANGED journal /\ invoice' = [invoice EXCEPT ![j] = "VALIDATED"]
    BY <1>6 DEF MarkInvoice, Doc
  <2>4. CASE j # i
    BY <1>a, <2>2, <2>3, <2>4 DEF InvoicesTyped
  <2>5. CASE j = i
    <3>1. invoice'[i] = "VALIDATED"
      BY <2>3, <2>5 DEF InvoicesTyped
    <3>2. Undisturbed(i)' => /\ Undisturbed(i) /\ InFlight(i) = {k}
      BY <1>0, <2>1, <2>2, <2>5, OnlyOne DEF Undisturbed, Puts
    <3>3. InFlight(i) = {k} => \A p \in places : ~Posts(i, p)'
      BY <2>2 DEF Puts, Posts, InFlight
    <3>4. Posts(i, "mark_invoice")
      BY <2>1, <2>5 DEF Posts, InFlight
    <3> QED BY <2>3, <3>1, <3>2, <3>3, <3>4 DEF InvoiceSound
  <2> QED BY <2>4, <2>5
<1>7. CASE Evaluate(k) \/ WeighLimit(k)
  <2>1. PICK place, doc, sum, todo : /\ Puts(k, place, doc, sum, todo) /\ place \notin places
    BY <1>7, GotoPuts, LeavePuts DEF Evaluate, WeighLimit
  <2> QED BY <1>7, <1>a, <2>1 DEF Evaluate, WeighLimit, At, invoiceVars
<1>8. CASE BlockOverLimit(k) \/ InsertSchedule(k) \/ SetPaid(k)
  <2>1. Puts(k, "free", None, 0, <<>>)
    BY <1>8, LeavePuts DEF BlockOverLimit, InsertSchedule, SetPaid
  <2> QED BY <1>8, <1>a, <2>1 DEF BlockOverLimit, InsertSchedule, SetPaid, At
<1>9. ASSUME \/ \E c \in Customers : BlockByHand(k, c) \/ Unblock(k, c)
             \/ MarkOverdue(k)
      PROVE  InvoiceSound(i)'
  <2>1. Puts(k, "free", None, call[k].sum, call[k].todo) /\ call[k].at = "free"
    BY <1>9, AtOncePuts DEF BlockByHand, Unblock, MarkOverdue
  <2> QED BY <1>9, <1>a, <2>1 DEF BlockByHand, Unblock, MarkOverdue
<1>10. CASE OverdueCheck(k)
  <2>1. PICK todo : Puts(k, "sweep", Company, 0, todo) /\ call[k].at = "free"
    BY <1>10, EnterPuts DEF OverdueCheck
  <2> QED BY <1>10, <1>a, <2>1 DEF OverdueCheck, invoiceVars
<1>11. CASE Sweep(k) \/ SweepBlock(k) \/ SweepNotice(k)
  <2>1. PICK place, doc, sum, todo : /\ Puts(k, place, doc, sum, todo) /\ place \notin places
    BY <1>11, GotoPuts, GotoLeftPuts, LeavePuts DEF Sweep, SweepBlock, SweepNotice
  <2> QED BY <1>11, <1>a, <2>1 DEF Sweep, SweepBlock, SweepNotice, At, invoiceVars
<1> QED BY <1>1, <1>2, <1>3, <1>4, <1>5, <1>6, <1>7, <1>8, <1>9, <1>10, <1>11 DEF InvoicesStep

LEMMA TreasuryKeepsSound ==
  ASSUME Typed, NEW k \in Slots, TreasuryStep(k), NEW t \in Transfers, TransferSound(t)
  PROVE  TransferSound(t)'
<1> USE DEF Typed
<1> DEFINE places == {"post_transfer", "mark_transfer", "cancel_transfer"}
<1>0. /\ Placed(call[k]) /\ t \in Docs /\ t # None /\ t \in TreasuryDocs
      /\ t \notin Registers /\ t \notin DOMAIN Sessions /\ t \notin Tickets
  BY AreDocs, Kinds DEF Served, TreasuryDocs
<1>a. ASSUME NEW place, NEW doc, NEW sum, NEW todo, Puts(k, place, doc, sum, todo),
             journal'[t] = journal[t], transfer'[t] = transfer[t],
             place \notin places \/ doc # t, call[k].at # "mark_transfer" \/ call[k].doc # t
      PROVE  TransferSound(t)'
  <2>1. places = {"post_transfer", "mark_transfer", "cancel_transfer"}
    OBVIOUS
  <2> HIDE DEF places
  <2>2. Settles(t, places, "mark_transfer")
    BY <1>a, PutSettles
  <2> QED BY <1>a, <2>1, <2>2, TransferSettles
<1>1. ASSUME NEW u \in Transfers, CreateTransfer(k, u)
      PROVE  TransferSound(t)'
  <2>1. /\ Puts(k, "free", None, call[k].sum, call[k].todo) /\ call[k].doc = None
        /\ InFlight(u) = {} \/ u \in crossed'
    BY <1>1, AtOncePuts DEF CreateTransfer
  <2>2. /\ UNCHANGED journal /\ transfer[u] = "absent"
        /\ transfer' = [transfer EXCEPT ![u] = "PENDING"]
    BY <1>1 DEF CreateTransfer
  <2>3. CASE u # t
    BY <1>0, <1>a, <2>1, <2>2, <2>3 DEF TreasuryTyped
  <2>4. CASE u = t
    <3>1. transfer'[t] = "PENDING"
      BY <2>2, <2>4 DEF TreasuryTyped
    <3>2. \A p : Posts(t, p)' <=> Posts(t, p)
      BY <1>0, <2>1 DEF Puts, Posts, InFlight
    <3>3. Undisturbed(t)' => Undisturbed(t)
      BY <2>1 DEF Undisturbed, Puts
    <3> QED BY <2>2, <2>4, <3>1, <3>2, <3>3 DEF TransferSound
  <2> QED BY <2>3, <2>4
<1>2. ASSUME NEW u \in Transfers, CompleteTransfer(k, u) \/ CancelTransfer(k, u)
      PROVE  TransferSound(t)'
  <2>1. PICK place \in {"post_transfer", "cancel_transfer"} : Enter(k, place, u, 0, <<>>)
    BY <1>2 DEF CompleteTransfer, CancelTransfer
  <2>2. UNCHANGED <<journal, transfer>> /\ transfer[u] = "PENDING"
    BY <1>2 DEF CompleteTransfer, CancelTransfer, treasuryVars
  <2>3. /\ Puts(k, place, u, 0, <<>>) /\ call[k].at = "free" /\ call[k].doc = None
        /\ InFlight(u) = {} \/ u \in crossed'
    BY <2>1, EnterPuts
  <2>4. CASE u # t
    BY <1>a, <2>2, <2>3, <2>4
  <2>5. CASE u = t
    <3>1. Posts(t, "mark_transfer")' <=> Posts(t, "mark_transfer")
      BY <1>0, <2>1, <2>3, <2>5 DEF Puts, Posts, InFlight
    <3>2. Undisturbed(t)' => Undisturbed(t)
      BY <2>3 DEF Undisturbed, Puts
    <3> QED BY <2>2, <2>5, <3>1, <3>2 DEF TransferSound
  <2> QED BY <2>4, <2>5
<1>3. CASE PostTransfer(k)
  <2> DEFINE u == call[k].doc
  <2>1. u \in Transfers /\ Puts(k, "mark_transfer", u, call[k].sum, call[k].todo)
    BY <1>0, <1>3, GotoPuts DEF PostTransfer, At, Placed, ForTreasury
  <2>2. /\ UNCHANGED transfer /\ call[k].at = "post_transfer"
        /\ \A b \in Docs \ {u} : journal'[b] = journal[b]
        /\ Len(journal[u]) \in Nat /\ Len(journal'[u]) = Len(journal[u]) + 1 /\ journal'[u] # <<>>
    BY <1>3, <2>1, AreDocs, Added DEF PostTransfer, At, Doc, treasuryVars, TreasuryDocs
  <2>3. CASE u # t
    BY <1>0, <1>a, <2>1, <2>2, <2>3
  <2>4. CASE u = t
    <3>1. Undisturbed(t)' => /\ Undisturbed(t) /\ InFlight(t) = {k}
      BY <1>0, <2>1, <2>4, OnlyOne DEF Undisturbed, Puts
    <3>2. InFlight(t) = {k} => /\ Posts(t, "post_transfer") /\ ~Posts(t, "mark_transfer")
                               /\ Posts(t, "mark_transfer")'
      BY <2>1, <2>2, <2>4 DEF Puts, Posts, InFlight
    <3> QED BY <2>2, <2>4, <3>1, <3>2 DEF TransferSound
  <2> QED BY <2>3, <2>4
<1>4. CASE TransferUnposted(k)
  <2>1. Puts(k, "free", None, 0, <<>>)
    BY <1>4, LeavePuts DEF TransferUnposted
  <2> QED BY <1>0, <1>4, <1>a, <2>1 DEF TransferUnposted, At, treasuryVars
<1>5. CASE MarkTransfer(k) \/ MarkCancelled(k)
  <2> DEFINE u == call[k].doc
             new == IF call[k].at = "mark_transfer" THEN "COMPLETED" ELSE "CANCELLED"
  <2>1. /\ u \in Transfers /\ Puts(k, "free", None, 0, <<>>)
        /\ call[k].at \in {"mark_transfer", "cancel_transfer"}
    BY <1>0, <1>5, LeavePuts DEF MarkTransfer, MarkCancelled, At, Placed, ForTreasury
  <2>2. UNCHANGED journal /\ transfer' = [transfer EXCEPT ![u] = new]
    BY <1>5 DEF MarkTransfer, MarkCancelled, At, Doc
  <2>3. CASE u # t
    BY <1>a, <2>1, <2>2, <2>3 DEF TreasuryTyped
  <2>4. CASE u = t
    <3>1. transfer'[t] = new
      BY <2>2, <2>4 DEF TreasuryTyped
    <3>2. Undisturbed(t)' => /\ Undisturbed(t) /\ InFlight(t) = {k}
      BY <1>0, <2>1, <2>4, OnlyOne DEF Undisturbed, Puts
    <3>3. InFlight(t) = {k} => /\ \A p \in places : ~Posts(t, p)'
                               /\ \A p \in places : Posts(t, p) <=> call[k].at = p
      BY <1>0, <2>1 DEF Puts, Posts, InFlight
    <3>4. Posts(t, call[k].at) /\ (Posts(t, "mark_transfer")' => Posts(t, "mark_transfer"))
      BY <1>0, <2>1, <2>4 DEF Puts, Posts, InFlight
    <3> QED BY <2>1, <2>2, <3>1, <3>2, <3>3, <3>4 DEF TransferSound
  <2> QED BY <2>3, <2>4
<1>6. ASSUME NEW v \in Tickets, Checkout(k, v)
      PROVE  TransferSound(t)'
  <2>1. Puts(k, "post_sale", v, 0, <<>>) /\ call[k].at = "free"
    BY <1>6, EnterPuts DEF Checkout
  <2> QED BY <1>6, <1>a, <2>1 DEF Checkout
<1>7. CASE PostSale(k)
  <2>1. Puts(k, "free", None, 0, <<>>) /\ call[k].doc \in Tickets /\ call[k].at = "post_sale"
    BY <1>0, <1>7, LeavePuts DEF PostSale, At, Placed, ForTreasury
  <2>2. journal'[t] = journal[t]
    BY <1>0, <1>7, <2>1, AreDocs, Added DEF PostSale, Doc, TreasuryDocs
  <2> QED BY <1>7, <1>a, <2>1, <2>2 DEF PostSale, treasuryVars
<1>8. CASE SaleUnposted(k) \/ VarianceUnposted(k)
  <2>1. Puts(k, "free", None, 0, <<>>)
    BY <1>8, LeavePuts DEF SaleUnposted, VarianceUnposted
  <2> QED BY <1>8, <1>a, <2>1 DEF SaleUnposted, VarianceUnposted, At, treasuryVars
<1>9. ASSUME \/ \E r \in Registers : OpenSession(k, r)
             \/ \E s \in DOMAIN Sessions : CloseSession(k, s)
      PROVE  TransferSound(t)'
  <2>1. PICK place \in {"open_session", "sum_takings"} : \E d : Enter(k, place, d, 0, <<>>)
    BY <1>9 DEF OpenSession, CloseSession
  <2>2. PICK d : Puts(k, place, d, 0, <<>>) /\ call[k].at = "free"
    BY <2>1, EnterPuts
  <2> QED BY <1>9, <1>a, <2>1, <2>2 DEF OpenSession, CloseSession, treasuryVars
<1>10. CASE InsertSession(k)
  <2>1. Puts(k, "free", None, 0, <<>>)
    BY <1>10, LeavePuts DEF InsertSession
  <2> QED BY <1>10, <1>a, <2>1 DEF InsertSession, At
<1>11. CASE SumTakings(k) \/ WriteClosed(k)
  <2>1. PICK place \in {"close_session", "post_variance"} :
          \E doc, sum, todo : Puts(k, place, doc, sum, todo)
    BY <1>11, GotoPuts, GotoWithPuts DEF SumTakings, WriteClosed
  <2>2. PICK doc, sum, todo : Puts(k, place, doc, sum, todo)
    BY <2>1
  <2> QED BY <1>11, <1>a, <2>1, <2>2 DEF SumTakings, WriteClosed, At, treasuryVars
<1>12. CASE PostVariance(k)
  <2>1. /\ Puts(k, "free", None, 0, <<>>) /\ call[k].doc \in DOMAIN Sessions
        /\ call[k].at = "post_variance"
    BY <1>0, <1>12, LeavePuts DEF PostVariance, At, Placed, ForTreasury
  <2>2. journal'[t] = journal[t]
    BY <1>0, <1>12, <2>1, AreDocs, Added DEF PostVariance, Doc, TreasuryDocs
  <2> QED BY <1>12, <1>a, <2>1, <2>2 DEF PostVariance, treasuryVars
<1> QED BY <1>1, <1>2, <1>3, <1>4, <1>5, <1>6, <1>7, <1>8, <1>9, <1>10, <1>11, <1>12
        DEF TreasuryStep

-----------------------------------------------------------------------------
(***************************************************************************)
(* A payroll run nothing disturbed.  While the payslips are being written, *)
(* those there and those to come are for every employee of the run, each   *)
(* once; whoever is posting it read all of them; and what is posted is     *)
(* the entry of those payslips.                                            *)
(***************************************************************************)
PaidOf(paid)  == {s.employee : s \in paid}
Listed(todo)  == {t[1] : t \in ToSet(todo)}
OneEach(todo) == \A i, j \in DOMAIN todo : todo[i][1] = todo[j][1] => i = j

RunEntry(paid) == [code |-> "PA", lines |-> RunLines(paid)]

RunStage(p, k) ==
  /\ At(k, "insert_run") => OneEach(Todo(k))
  /\ At(k, "next_slip") \/ At(k, "insert_slip") =>
       /\ run[p] = "DRAFT" /\ OneEach(Todo(k))
       /\ PaidOf(slips[p]) \cap Listed(Todo(k)) = {}
       /\ PaidOf(slips[p]) \cup Listed(Todo(k)) = staffed[p]
  /\ At(k, "post_run") => run[p] = "DRAFT" /\ ToSet(Todo(k)) = slips[p]
  /\ At(k, "mark_run") => run[p] = "DRAFT"

RunWhole(p) ==
  /\ run[p] = "absent" => slips[p] = {}
  /\ \A s, t \in slips[p] : s.employee = t.employee => s = t
  /\ \A k \in InFlight(p) : RunStage(p, k)
  /\ run[p] = "absent" \/ Posts(p, "next_slip") \/ Posts(p, "insert_slip")
       \/ PaidOf(slips[p]) = staffed[p]
  /\ \/ journal[p] = <<>>
     \/ /\ run[p] = "VALIDATED" \/ Posts(p, "mark_run")
        /\ journal[p] = <<RunEntry(slips[p])>>

RunSound(p) == Undisturbed(p) => RunWhole(p)

LEMMA FirstOut ==
  ASSUME NEW todo \in Seq(Staff), todo # <<>>, OneEach(todo)
  PROVE  /\ OneEach(Tail(todo)) /\ Head(todo)[1] \notin Listed(Tail(todo))
         /\ Listed(todo) = {Head(todo)[1]} \cup Listed(Tail(todo))
<1>1. /\ Len(todo) \in Nat \ {0} /\ DOMAIN todo = 1..Len(todo)
      /\ Head(todo) = todo[1] /\ DOMAIN Tail(todo) = 1..(Len(todo) - 1)
      /\ \A i \in 1..(Len(todo) - 1) : Tail(todo)[i] = todo[i + 1]
  <2>1. \A q \in Seq(Staff) : q # <<>> =>
          /\ Len(q) \in Nat \ {0} /\ DOMAIN q = 1..Len(q)
          /\ Head(q) = q[1] /\ DOMAIN Tail(q) = 1..(Len(q) - 1)
          /\ \A i \in 1..(Len(q) - 1) : Tail(q)[i] = q[i + 1]
    OBVIOUS
  <2> QED BY <2>1
<1>2. OneEach(Tail(todo)) /\ Head(todo)[1] \notin Listed(Tail(todo))
  BY <1>1 DEF OneEach, Listed, ToSet
<1>3. ToSet(todo) = {Head(todo)} \cup ToSet(Tail(todo))
  <2>1. \A i \in 1..Len(todo) : i = 1 \/ i - 1 \in 1..(Len(todo) - 1)
    BY <1>1
  <2>2. \A i \in 2..Len(todo) : Tail(todo)[i - 1] = todo[i]
    BY <1>1
  <2>3. ASSUME NEW e \in ToSet(todo)
        PROVE  e \in {Head(todo)} \cup ToSet(Tail(todo))
    <3>1. PICK i \in 1..Len(todo) : todo[i] = e
      BY <1>1, <2>3 DEF ToSet
    <3>2. i = 1 \/ (i - 1 \in DOMAIN Tail(todo) /\ Tail(todo)[i - 1] = e)
      BY <1>1, <2>1, <2>2, <3>1
    <3> QED BY <1>1, <3>1, <3>2 DEF ToSet
  <2>4. ASSUME NEW e \in ToSet(Tail(todo))
        PROVE  e \in ToSet(todo)
    <3>1. PICK i \in 1..(Len(todo) - 1) : Tail(todo)[i] = e
      BY <1>1, <2>4 DEF ToSet
    <3>2. i + 1 \in DOMAIN todo /\ todo[i + 1] = e
      BY <1>1, <3>1
    <3> QED BY <3>2 DEF ToSet
  <2>5. 1 \in DOMAIN todo /\ todo[1] = Head(todo)
    BY <1>1
  <2>6. Head(todo) \in ToSet(todo)
    BY <2>5 DEF ToSet
  <2> QED BY <2>3, <2>4, <2>6
<1> QED BY <1>2, <1>3 DEF Listed

\* Everything about a run is as it was, or the run is disturbed.
LEMMA RunKept ==
  ASSUME NEW p \in Runs, RunSound(p), crossed \subseteq crossed', cut \subseteq cut',
         p \in crossed' \cup cut' \/
           /\ \A j \in Slots : call[j].doc = p \/ call'[j].doc = p => call'[j] = call[j]
           /\ run'[p] = run[p] /\ slips'[p] = slips[p] /\ staffed'[p] = staffed[p]
           /\ journal'[p] = journal[p]
  PROVE  RunSound(p)'
<1> SUFFICES ASSUME Undisturbed(p)'
             PROVE  RunWhole(p)'
  BY DEF RunSound
<1>1. Undisturbed(p) /\ RunWhole(p)
  BY DEF RunSound, Undisturbed
<1>2. /\ \A j \in Slots : call[j].doc = p \/ call'[j].doc = p => call'[j] = call[j]
      /\ run'[p] = run[p] /\ slips'[p] = slips[p] /\ staffed'[p] = staffed[p]
      /\ journal'[p] = journal[p]
  BY DEF Undisturbed
<1>3. InFlight(p)' = InFlight(p) /\ \A j \in InFlight(p) : call'[j] = call[j]
  BY <1>2 DEF InFlight
<1>4. /\ \A a : Posts(p, a)' <=> Posts(p, a)
      /\ \A k \in InFlight(p) : RunStage(p, k) => RunStage(p, k)'
  BY <1>2, <1>3 DEF Posts, RunStage, At, Todo
<1> QED BY <1>1, <1>2, <1>3, <1>4 DEF RunWhole

LEMMA PutKeepsRun ==
  ASSUME NEW p \in Runs, RunSound(p), NEW k \in Slots,
         NEW place, NEW doc, NEW sum, NEW todo, Puts(k, place, doc, sum, todo),
         call[k].doc # p, doc # p,
         run'[p] = run[p], slips'[p] = slips[p], staffed'[p] = staffed[p], journal'[p] = journal[p]
  PROVE  RunSound(p)'
BY RunKept DEF Puts

\* Who is alone on an undisturbed run: the others' parts of RunWhole are void.
LEMMA RunAlone ==
  ASSUME NEW p \in Runs, NEW k \in Slots, NEW place, NEW sum, NEW todo,
         InFlight(p) \subseteq {k}, Puts(k, place, p, sum, todo)
  PROVE  InFlight(p)' = {k} /\ At(k, place)' /\ Todo(k)' = todo /\ \A a : Posts(p, a)' <=> a = place
<1>1. call'[k].at = place /\ call'[k].doc = p /\ call'[k].todo = todo
  BY DEF Puts
<1>2. \A j \in Slots : call'[j].doc = p => j = k
  BY DEF Puts, InFlight
<1>3. InFlight(p)' = {k}
  BY <1>1, <1>2 DEF InFlight
<1> QED BY <1>1, <1>3 DEF At, Todo, Posts

LEMMA RunLeft ==
  ASSUME NEW p \in Runs, NEW k \in Slots, NEW sum, NEW todo,
         InFlight(p) \subseteq {k}, Puts(k, "free", None, sum, todo)
  PROVE  InFlight(p)' = {} /\ \A a : ~Posts(p, a)'
<1>1. p # None
  BY AreDocs
<1>2. call'[k].doc # p /\ \A j \in Slots : j # k => call'[j].doc # p
  BY <1>1 DEF Puts, InFlight
<1> QED BY <1>2 DEF InFlight, Posts

LEMMA CreateKeepsRun ==
  ASSUME Typed, NEW k \in Slots, NEW p \in Runs, CreateRun(k, p), RunSound(p)
  PROVE  RunSound(p)'
<1> DEFINE S == {<<e, salary[e]>> : e \in Active}
           todo == SetToSeq(S)
<1>1. /\ Puts(k, "insert_run", p, 0, todo) /\ (InFlight(p) = {} \/ p \in crossed')
  BY EnterPuts DEF CreateRun, Typed
<1>2. OneEach(todo)
  <2>1. todo \in Seq(S) /\ \A i, j \in DOMAIN todo : todo[i] = todo[j] => i = j
    BY StaffListed, Listing DEF Typed
  <2>2. \A i \in DOMAIN todo : todo[i] \in S
    BY <2>1, LenProperties, ElementOfSeq
  <2>3. \A x, y \in S : x[1] = y[1] => x = y
    OBVIOUS
  <2> HIDE DEF S, todo
  <2> QED BY <2>1, <2>2, <2>3 DEF OneEach
<1> HIDE DEF todo
<1>3. SUFFICES ASSUME Undisturbed(p)'
               PROVE  RunWhole(p)'
  BY DEF RunSound
<1>4. Undisturbed(p) /\ RunWhole(p) /\ InFlight(p) = {} /\ UNCHANGED <<journal, run, slips, staffed>>
  BY <1>1, <1>3 DEF RunSound, Undisturbed, Puts, CreateRun, payrollVars
<1>5. InFlight(p)' = {k} /\ At(k, "insert_run")' /\ Todo(k)' = todo /\ \A a : ~Posts(p, a)
  BY <1>1, <1>3, <1>4, RunAlone DEF Posts, Undisturbed
<1>6. RunStage(p, k)'
  BY <1>2, <1>5 DEF RunStage, At
<1>7. run[p] = "absent" /\ journal[p] = <<>>
  BY <1>4, <1>5 DEF CreateRun, RunWhole
<1> QED BY <1>4, <1>5, <1>6, <1>7 DEF RunWhole

LEMMA ValidateKeepsRun ==
  ASSUME Typed, NEW k \in Slots, NEW p \in Runs, ValidateRun(k, p), RunSound(p)
  PROVE  RunSound(p)'
<1> DEFINE todo == SetToSeq(slips[p])
<1>1. /\ Puts(k, "post_run", p, 0, todo) /\ (InFlight(p) = {} \/ p \in crossed')
  BY EnterPuts DEF ValidateRun, Typed
<1>2. ToSet(todo) = slips[p]
  BY Listing DEF Typed, PayrollTyped
<1> HIDE DEF todo
<1>3. SUFFICES ASSUME Undisturbed(p)'
               PROVE  RunWhole(p)'
  BY DEF RunSound
<1>4. Undisturbed(p) /\ RunWhole(p) /\ InFlight(p) = {} /\ UNCHANGED <<journal, run, slips, staffed>>
  BY <1>1, <1>3 DEF RunSound, Undisturbed, Puts, ValidateRun, payrollVars
<1>5. InFlight(p)' = {k} /\ At(k, "post_run")' /\ Todo(k)' = todo /\ \A a : ~Posts(p, a)
  BY <1>1, <1>3, <1>4, RunAlone DEF Posts, Undisturbed
<1>6. run[p] = "DRAFT"
  BY DEF ValidateRun
<1>7. RunStage(p, k)'
  BY <1>2, <1>4, <1>5, <1>6 DEF RunStage, At
<1>8. journal[p] = <<>> /\ PaidOf(slips[p]) = staffed[p]
  BY <1>4, <1>5, <1>6 DEF RunWhole
<1> QED BY <1>4, <1>5, <1>7, <1>8 DEF RunWhole

LEMMA SlipsKeepRun ==
  ASSUME Typed, NEW k \in Slots, NEW p \in Runs, call[k].doc = p, RunSound(p),
         InsertRun(k) \/ ComputeSlip(k) \/ InsertSlip(k) \/ RunCreated(k)
  PROVE  RunSound(p)'
<1> USE DEF Typed
<1>1. ASSUME Undisturbed(p)', crossed \subseteq crossed', cut \subseteq cut'
      PROVE  Undisturbed(p) /\ RunWhole(p) /\ InFlight(p) = {k} /\ RunStage(p, k)
  <2>1. Undisturbed(p) /\ RunWhole(p)
    BY <1>1 DEF RunSound, Undisturbed
  <2>2. InFlight(p) = {k}
    BY <2>1, AreDocs, OnlyOne
  <2> QED BY <2>1, <2>2 DEF RunWhole
<1>2. SUFFICES ASSUME Undisturbed(p)', crossed \subseteq crossed', cut \subseteq cut'
               PROVE  RunWhole(p)'
  BY LeavePuts, GotoPuts, GotoWithPuts, GotoLeftPuts
     DEF InsertRun, ComputeSlip, InsertSlip, RunCreated, Puts, RunSound
<1>3. Undisturbed(p) /\ RunWhole(p) /\ InFlight(p) = {k} /\ RunStage(p, k)
  BY <1>1, <1>2
<1>4. \A a : Posts(p, a) <=> call[k].at = a
  BY <1>3 DEF Posts
<1>5. CASE InsertRun(k)
  <2>1. journal' = journal /\ slips' = slips /\ At(k, "insert_run")
    BY <1>5 DEF InsertRun
  <2>2. CASE run[p] = "absent"
    <3>1. /\ Puts(k, "next_slip", p, call[k].sum, call[k].todo)
          /\ run'[p] = "DRAFT" /\ staffed'[p] = Listed(Todo(k))
      BY <1>5, <2>2, GotoPuts DEF InsertRun, Doc, PayrollTyped, Listed
    <3>2. /\ InFlight(p)' = {k} /\ At(k, "next_slip")' /\ Todo(k)' = Todo(k)
          /\ \A a : Posts(p, a)' <=> a = "next_slip"
      BY <1>3, <3>1, RunAlone DEF Todo
    <3>3. slips[p] = {} /\ OneEach(Todo(k)) /\ journal[p] = <<>>
      BY <1>3, <1>4, <2>1, <2>2 DEF RunWhole, RunStage, At
    <3>4. RunStage(p, k)'
      <4>1. PaidOf(slips'[p]) = {}
        BY <2>1, <3>3 DEF PaidOf
      <4> QED BY <3>1, <3>2, <3>3, <4>1 DEF RunStage, At
    <3> QED BY <2>1, <3>1, <3>2, <3>3, <3>4 DEF RunWhole
  <2>3. CASE run[p] # "absent"
    <3>1. Puts(k, "free", None, 0, <<>>) /\ UNCHANGED <<run, staffed>>
      BY <1>5, <2>3, LeavePuts DEF InsertRun, Doc
    <3>2. InFlight(p)' = {} /\ \A a : ~Posts(p, a)'
      BY <1>3, <3>1, RunLeft
    <3> QED BY <1>3, <1>4, <2>1, <3>1, <3>2 DEF RunWhole, At
  <2> QED BY <2>2, <2>3
<1>6. CASE ComputeSlip(k)
  <2> DEFINE base == Prorated(Head(Todo(k))[1], Head(Todo(k))[2])
  <2>1. GotoWith(k, "insert_slip", base) /\ UNCHANGED <<journal, run, slips, staffed>> /\ At(k, "next_slip")
    BY <1>6 DEF ComputeSlip, payrollVars
  <2> HIDE DEF base
  <2>2. Puts(k, "insert_slip", p, base, call[k].todo)
    BY <2>1, GotoWithPuts
  <2>3. /\ InFlight(p)' = {k} /\ At(k, "insert_slip")' /\ Todo(k)' = Todo(k)
        /\ \A a : Posts(p, a)' <=> a = "insert_slip"
    BY <1>3, <2>2, RunAlone DEF Todo
  <2>4. RunStage(p, k)'
    BY <1>3, <2>1, <2>3 DEF RunStage, At
  <2> QED BY <1>3, <1>4, <2>1, <2>3, <2>4 DEF RunWhole, RunStage, At
<1>7. CASE InsertSlip(k)
  <2> DEFINE e == Head(Todo(k))[1]
             slip == Payslip(e, Figure(k))
  <2>1. /\ Todo(k) \in Seq(Staff) /\ Todo(k) # <<>> /\ Figure(k) \in Int /\ Head(Todo(k)) \in Staff
    BY <1>7, SlipInHand DEF InsertSlip
  <2>2. slip.employee = e
    <3>1. Head(Todo(k))[1] \in Employees
      BY <2>1 DEF Staff
    <3> QED BY <2>1, <3>1, PayslipIs
  <2>3. /\ slips'[p] = slips[p] \cup {slip} /\ UNCHANGED <<journal, run, staffed>> /\ At(k, "insert_slip")
    BY <1>7 DEF InsertSlip, PayrollTyped, Doc
  <2>4. Puts(k, "next_slip", p, call[k].sum, Tail(Todo(k)))
    BY <1>7, GotoLeftPuts DEF InsertSlip
  <2> HIDE DEF slip
  <2>5. /\ InFlight(p)' = {k} /\ At(k, "next_slip")' /\ Todo(k)' = Tail(Todo(k))
        /\ \A a : Posts(p, a)' <=> a = "next_slip"
    BY <1>3, <2>4, RunAlone
  <2>6. /\ run[p] = "DRAFT" /\ OneEach(Todo(k))
        /\ PaidOf(slips[p]) \cap Listed(Todo(k)) = {}
        /\ PaidOf(slips[p]) \cup Listed(Todo(k)) = staffed[p]
    BY <1>3, <2>3 DEF RunStage
  <2>7. /\ OneEach(Tail(Todo(k))) /\ e \notin Listed(Tail(Todo(k)))
        /\ Listed(Todo(k)) = {e} \cup Listed(Tail(Todo(k)))
    BY <2>1, <2>6, FirstOut
  <2>8. PaidOf(slips'[p]) = PaidOf(slips[p]) \cup {e}
    BY <2>2, <2>3 DEF PaidOf
  <2>9. \A s, t \in slips'[p] : s.employee = t.employee => s = t
    <3>1. e \notin PaidOf(slips[p])
      BY <2>6, <2>7
    <3>2. \A s, t \in slips[p] : s.employee = t.employee => s = t
      BY <1>3 DEF RunWhole
    <3> QED BY <2>2, <2>3, <3>1, <3>2 DEF PaidOf
  <2>10. RunStage(p, k)'
    <3>1. /\ PaidOf(slips'[p]) \cap Listed(Tail(Todo(k))) = {}
          /\ PaidOf(slips'[p]) \cup Listed(Tail(Todo(k))) = staffed[p]
      BY <2>6, <2>7, <2>8
    <3> QED BY <2>3, <2>5, <2>6, <2>7, <3>1 DEF RunStage, At
  <2>11. journal[p] = <<>>
    BY <1>3, <1>4, <2>3, <2>6 DEF RunWhole, At
  <2> QED BY <2>3, <2>5, <2>6, <2>9, <2>10, <2>11 DEF RunWhole
<1>8. CASE RunCreated(k)
  <2>1. UNCHANGED <<journal, run, slips, staffed>> /\ At(k, "next_slip") /\ Todo(k) = <<>>
    BY <1>8 DEF RunCreated, payrollVars
  <2>2. Puts(k, "free", None, 0, <<>>)
    BY <1>8, LeavePuts DEF RunCreated
  <2>3. InFlight(p)' = {} /\ \A a : ~Posts(p, a)'
    BY <1>3, <2>2, RunLeft
  <2>4. PaidOf(slips[p]) = staffed[p]
    <3>1. Listed(Todo(k)) = {}
      BY <2>1 DEF Listed, ToSet
    <3> QED BY <1>3, <2>1, <3>1 DEF RunStage
  <2> QED BY <1>3, <1>4, <2>1, <2>3, <2>4 DEF RunWhole, At
<1> QED BY <1>5, <1>6, <1>7, <1>8

LEMMA PostingKeepsRun ==
  ASSUME Typed, NEW k \in Slots, NEW p \in Runs, call[k].doc = p, RunSound(p),
         PostRun(k) \/ RunUnposted(k) \/ MarkRun(k)
  PROVE  RunSound(p)'
<1> USE DEF Typed
<1>1. ASSUME Undisturbed(p)', crossed \subseteq crossed', cut \subseteq cut'
      PROVE  Undisturbed(p) /\ RunWhole(p) /\ InFlight(p) = {k} /\ RunStage(p, k)
  <2>1. Undisturbed(p) /\ RunWhole(p)
    BY <1>1 DEF RunSound, Undisturbed
  <2>2. InFlight(p) = {k}
    BY <2>1, AreDocs, OnlyOne
  <2> QED BY <2>1, <2>2 DEF RunWhole
<1>2. SUFFICES ASSUME Undisturbed(p)', crossed \subseteq crossed', cut \subseteq cut'
               PROVE  RunWhole(p)'
  BY LeavePuts, GotoPuts DEF PostRun, RunUnposted, MarkRun, Puts, RunSound
<1>3. Undisturbed(p) /\ RunWhole(p) /\ InFlight(p) = {k} /\ RunStage(p, k)
  BY <1>1, <1>2
<1>4. \A a : Posts(p, a) <=> call[k].at = a
  BY <1>3 DEF Posts
<1>5. CASE PostRun(k) \/ RunUnposted(k)
  <2>1. UNCHANGED <<run, slips, staffed>> /\ At(k, "post_run") /\ Puts(k, "mark_run", p, call[k].sum, call[k].todo)
    BY <1>5, GotoPuts DEF PostRun, RunUnposted, payrollVars
  <2>2. /\ InFlight(p)' = {k} /\ At(k, "mark_run")' /\ Todo(k)' = Todo(k)
        /\ \A a : Posts(p, a)' <=> a = "mark_run"
    BY <1>3, <2>1, RunAlone DEF Todo
  <2>3. run[p] = "DRAFT" /\ ToSet(Todo(k)) = slips[p] /\ journal[p] = <<>> /\ PaidOf(slips[p]) = staffed[p]
    BY <1>3, <1>4, <2>1 DEF RunStage, RunWhole, At
  <2>4. journal'[p] = <<>> \/ journal'[p] = <<RunEntry(slips[p])>>
    <3>1. CASE PostRun(k)
      <4>1. Post(p, "PA", RunLines(slips[p]))
        BY <2>3, <3>1 DEF PostRun, Doc
      <4>2. journal'[p] = Append(journal[p], RunEntry(slips[p]))
        BY <4>1, AreDocs, Added DEF RunEntry
      <4>3. \A x : Append(<<>>, x) = <<x>>
        OBVIOUS
      <4> QED BY <2>3, <4>2, <4>3
    <3>2. CASE RunUnposted(k)
      BY <2>3, <3>2 DEF RunUnposted
    <3> QED BY <1>5, <3>1, <3>2
  <2>5. RunStage(p, k)'
    BY <2>1, <2>2, <2>3 DEF RunStage, At
  <2> QED BY <1>3, <2>1, <2>2, <2>3, <2>4, <2>5 DEF RunWhole
<1>6. CASE MarkRun(k)
  <2>1. /\ UNCHANGED <<journal, slips, staffed>> /\ At(k, "mark_run") /\ run'[p] = "VALIDATED"
        /\ Puts(k, "free", None, 0, <<>>)
    BY <1>6, LeavePuts DEF MarkRun, Doc, PayrollTyped
  <2>2. InFlight(p)' = {} /\ \A a : ~Posts(p, a)'
    BY <1>3, <2>1, RunLeft
  <2>3. run[p] = "DRAFT" /\ PaidOf(slips[p]) = staffed[p]
    BY <1>3, <1>4, <2>1 DEF RunStage, RunWhole, At
  <2> QED BY <1>3, <2>1, <2>2, <2>3 DEF RunWhole
<1> QED BY <1>5, <1>6

LEMMA PayrollKeepsSound ==
  ASSUME Typed, NEW k \in Slots, PayrollStep(k), NEW p \in Runs, RunSound(p)
  PROVE  RunSound(p)'
<1> USE DEF Typed
<1>0. Placed(call[k]) /\ p \in Docs /\ p # None
  BY AreDocs DEF Served
<1>1. ASSUME NEW q \in Runs, CreateRun(k, q) \/ ValidateRun(k, q)
      PROVE  RunSound(p)'
  <2>1. CASE q = p
    BY <1>1, <2>1, CreateKeepsRun, ValidateKeepsRun
  <2>2. CASE q # p
    <3>1. PICK place, todo : Puts(k, place, q, 0, todo) /\ call[k].doc = None
      BY <1>1, EnterPuts DEF CreateRun, ValidateRun
    <3> QED BY <1>0, <1>1, <2>2, <3>1, PutKeepsRun DEF CreateRun, ValidateRun, payrollVars
  <2> QED BY <2>1, <2>2
<1>2. ASSUME NEW q \in Runs, GenerateTransfers(k, q)
      PROVE  RunSound(p)'
  <2>1. Puts(k, "free", None, call[k].sum, call[k].todo) /\ call[k].doc = None
    BY <1>2, AtOncePuts DEF GenerateTransfers
  <2> QED BY <1>0, <1>2, <2>1, PutKeepsRun DEF GenerateTransfers
<1>3. CASE InsertRun(k) \/ ComputeSlip(k) \/ InsertSlip(k) \/ RunCreated(k)
           \/ PostRun(k) \/ RunUnposted(k) \/ MarkRun(k)
  <2> DEFINE q == call[k].doc
  <2>1. q \in Runs
    BY <1>0, <1>3 DEF InsertRun, ComputeSlip, InsertSlip, RunCreated, PostRun, RunUnposted, MarkRun,
                      At, Placed, ForPayroll
  <2>2. CASE q = p
    BY <1>3, <2>2, SlipsKeepRun, PostingKeepsRun
  <2>3. CASE q # p
    <3>1. PICK place, doc, sum, todo : Puts(k, place, doc, sum, todo) /\ doc \in {q, None}
      BY <1>3, LeavePuts, GotoPuts, GotoWithPuts, GotoLeftPuts
         DEF InsertRun, ComputeSlip, InsertSlip, RunCreated, PostRun, RunUnposted, MarkRun
    <3>2. run'[p] = run[p] /\ slips'[p] = slips[p] /\ staffed'[p] = staffed[p]
      BY <1>3, <2>1, <2>3
         DEF InsertRun, ComputeSlip, InsertSlip, RunCreated, PostRun, RunUnposted, MarkRun,
             payrollVars, PayrollTyped, Doc
    <3>3. journal'[p] = journal[p]
      <4>1. CASE PostRun(k)
        BY <1>0, <2>1, <2>3, <4>1, AreDocs, Added DEF PostRun, Doc
      <4>2. CASE ~PostRun(k)
        BY <1>3, <4>2 DEF InsertRun, ComputeSlip, InsertSlip, RunCreated, RunUnposted, MarkRun
      <4> QED BY <4>1, <4>2
    <3> QED BY <1>0, <2>3, <3>1, <3>2, <3>3, PutKeepsRun
  <2> QED BY <2>2, <2>3
<1> QED BY <1>1, <1>2, <1>3 DEF PayrollStep

-----------------------------------------------------------------------------
(***************************************************************************)
(* The invariant of the documents that are posted once.                    *)
(***************************************************************************)
PostingSound ==
  /\ \A i \in Invs : InvoiceSound(i)
  /\ \A t \in Transfers : TransferSound(t)
  /\ \A p \in Runs : RunSound(p)

LEMMA AwayKeepsSound ==
  ASSUME NEW d, Away(d)
  PROVE  /\ d \in Invs /\ InvoiceSound(d) /\ UNCHANGED invoice => InvoiceSound(d)'
         /\ d \in Transfers /\ TransferSound(d) /\ UNCHANGED transfer => TransferSound(d)'
         /\ d \in Runs /\ RunSound(d) /\ UNCHANGED payrollVars => RunSound(d)'
<1>1. d \in Invs /\ InvoiceSound(d) /\ UNCHANGED invoice => InvoiceSound(d)'
  BY AwaySettles, InvoiceSettles
<1>2. d \in Transfers /\ TransferSound(d) /\ UNCHANGED transfer => TransferSound(d)'
  BY AwaySettles, TransferSettles
<1>3. d \in Runs /\ RunSound(d) /\ UNCHANGED payrollVars => RunSound(d)'
  BY RunKept DEF Away, payrollVars
<1> QED BY <1>1, <1>2, <1>3

LEMMA PostingStep ==
  ASSUME Typed, PostingSound, [Next]_vars
  PROVE  PostingSound'
<1>1. ASSUME NEW k \in Slots, Step(k)
      PROVE  PostingSound'
  <2>1. /\ \A d \in Invs : d \in Docs \ (TreasuryDocs \cup AssetDocs \cup PeopleDocs \cup Runs
                                           \cup StatementDocs \cup Manuals)
        /\ \A d \in Transfers : d \in Docs \ (InvoiceDocs \cup AssetDocs \cup PeopleDocs \cup Runs
                                                \cup StatementDocs \cup Manuals)
        /\ \A d \in Runs : d \in Docs \ (InvoiceDocs \cup TreasuryDocs \cup AssetDocs \cup PeopleDocs
                                           \cup StatementDocs \cup Manuals)
    BY AreDocs, Kinds DEF TreasuryDocs
  <2>2. \A D : Took(k, D) => \A d \in Docs \ D : Away(d)
    BY TookKeeps
  <2>3. \A i \in Invs : InvoiceSound(i)'
    <3> SUFFICES ASSUME NEW i \in Invs
                 PROVE  InvoiceSound(i)'
      OBVIOUS
    <3>0. \/ InvoicesStep(k)
          \/ /\ UNCHANGED invoiceVars
             /\ \E D \in {TreasuryDocs, AssetDocs, PeopleDocs, Runs, StatementDocs, Manuals} : Took(k, D)
      BY <1>1, StepTurns
    <3>1. InvoicesStep(k) \/ (Away(i) /\ UNCHANGED invoice)
      BY <2>1, <2>2, <3>0 DEF invoiceVars
    <3> QED BY <3>1, AwayKeepsSound, InvoicesKeepSound DEF PostingSound
  <2>4. \A t \in Transfers : TransferSound(t)'
    <3> SUFFICES ASSUME NEW t \in Transfers
                 PROVE  TransferSound(t)'
      OBVIOUS
    <3>0. \/ TreasuryStep(k)
          \/ /\ UNCHANGED treasuryVars
             /\ \E D \in {InvoiceDocs, AssetDocs, PeopleDocs, Runs, StatementDocs, Manuals} : Took(k, D)
      BY <1>1, StepTurns
    <3>1. TreasuryStep(k) \/ (Away(t) /\ UNCHANGED transfer)
      BY <2>1, <2>2, <3>0 DEF treasuryVars
    <3> QED BY <3>1, AwayKeepsSound, TreasuryKeepsSound DEF PostingSound
  <2>5. \A p \in Runs : RunSound(p)'
    <3> SUFFICES ASSUME NEW p \in Runs
                 PROVE  RunSound(p)'
      OBVIOUS
    <3>0. \/ PayrollStep(k)
          \/ /\ UNCHANGED payrollVars
             /\ \E D \in {InvoiceDocs, TreasuryDocs, AssetDocs, PeopleDocs, StatementDocs, Manuals} : Took(k, D)
      BY <1>1, StepTurns
    <3>1. PayrollStep(k) \/ (Away(p) /\ UNCHANGED payrollVars)
      BY <2>1, <2>2, <3>0
    <3> QED BY <3>1, AwayKeepsSound, PayrollKeepsSound DEF PostingSound
  <2> QED BY <2>3, <2>4, <2>5 DEF PostingSound
<1>2. CASE Restart
  <2>1. /\ UNCHANGED <<journal, invoice, transfer, payrollVars>>
        /\ crossed' = crossed /\ cut \subseteq cut'
        /\ \A k \in Slots : call'[k] = Free
        /\ \A k \in Slots : call[k].doc # None => call[k].doc \in cut'
    BY <1>2, RestartKeeps DEF Restart, Components, invoiceVars, treasuryVars, Typed
  <2>2. \A i \in Invs : InvoiceSound(i)'
    BY <1>2, <2>1, AreDocs, RestartSettles, InvoiceSettles DEF PostingSound, Typed
  <2>3. \A t \in Transfers : TransferSound(t)'
    BY <1>2, <2>1, AreDocs, RestartSettles, TransferSettles DEF PostingSound, Typed, TreasuryDocs
  <2>4. \A p \in Runs : RunSound(p)'
    BY <2>1, AreDocs, RunKept DEF PostingSound, payrollVars, Free
  <2> QED BY <2>2, <2>3, <2>4 DEF PostingSound
<1>3. CASE UNCHANGED vars
  <2>1. \A d : Away(d)
    BY <1>3 DEF vars, callVars, Away
  <2>2. UNCHANGED <<invoice, transfer, payrollVars>>
    BY <1>3 DEF vars, invoiceVars, treasuryVars
  <2> QED BY <2>1, <2>2, AwayKeepsSound DEF PostingSound
<1> QED BY <1>1, <1>2, <1>3 DEF Next

LEMMA PostingInit ==
  ASSUME Init
  PROVE  PostingSound
<1>1. \A d \in Docs : InFlight(d) = {} /\ (\A p : ~Posts(d, p)) /\ journal[d] = <<>> /\ Len(journal[d]) = 0
  BY CallsAssumption DEF Init, CallsInit, LedgerInit, InFlight, Posts, Free
<1>2. \A i \in Invs : invoice[i] # "VALIDATED"
  BY DEF Init, InvoicesInit
<1>3. \A t \in Transfers : transfer[t] = "absent"
  BY DEF Init, TreasuryInit
<1>4. \A p \in Runs : run[p] = "absent" /\ slips[p] = {}
  BY DEF Init, PayrollInit
<1>5. \A i \in Invs : InvoiceSound(i)
  BY <1>1, <1>2, AreDocs DEF InvoiceSound
<1>6. \A t \in Transfers : TransferSound(t)
  BY <1>1, <1>3, AreDocs DEF TransferSound, TreasuryDocs
<1>7. \A p \in Runs : RunSound(p)
  BY <1>1, <1>4, AreDocs DEF RunSound, RunWhole
<1> QED BY <1>5, <1>6, <1>7 DEF PostingSound

LEMMA PostingIsOnce ==
  ASSUME PostingSound
  PROVE  PostedOnce
<1>1. \A d : InFlight(d) = {} => \A p : ~Posts(d, p)
  BY DEF Posts
<1>2. \A x : Len(<<x>>) <= 1
  OBVIOUS
<1>3. \A p \in Runs : Undisturbed(p) => Len(journal[p]) <= 1
  <2> SUFFICES ASSUME NEW p \in Runs, Undisturbed(p)
               PROVE  Len(journal[p]) <= 1
    OBVIOUS
  <2>1. journal[p] = <<>> \/ journal[p] = <<RunEntry(slips[p])>>
    BY DEF PostingSound, RunSound, RunWhole
  <2>2. Len(<<>>) <= 1
    OBVIOUS
  <2>3. Len(<<RunEntry(slips[p])>>) <= 1
    BY <1>2
  <2> QED BY <2>1, <2>2, <2>3
<1> QED BY <1>1, <1>3 DEF PostingSound, InvoiceSound, TransferSound, PostedOnce

(***************************************************************************)
(* An invoice, a transfer or a payroll run that says it is posted has its  *)
(* entry; one that nothing disturbed has exactly one, or none while it is  *)
(* not posted, whatever else the back office was doing in between.         *)
(***************************************************************************)
THEOREM PostingHappensOnce == Spec => []PostedOnce
<1>1. Init => Typed /\ PostingSound
  BY TypedInit, PostingInit
<1>2. Typed /\ PostingSound /\ [Next]_vars => (Typed /\ PostingSound)'
  BY TypedStep, PostingStep
<1>3. Typed /\ PostingSound => PostedOnce
  BY PostingIsOnce
<1> QED BY <1>1, <1>2, <1>3, PTL DEF Spec

-----------------------------------------------------------------------------
(***************************************************************************)
(* What customers owe.  An invoice is validated by a request that is then  *)
(* weighing the limit, and one whose row is being written has no other     *)
(* request about it but those that will find it absent.                    *)
(***************************************************************************)
Weighing == {"evaluate", "outstanding", "block"}

Fresh ==
  \A i \in Invs :
    /\ Posts(i, "insert_invoice") =>
         /\ invoice[i] = "absent"
         /\ \A j, k \in InFlight(i) : At(j, "insert_invoice") /\ At(k, "insert_invoice") => j = k
    /\ Posts(i, "post_invoice") \/ Posts(i, "mark_invoice") => invoice[i] # "absent"

\* Someone is still to look, or was stopped before looking.
Pending(i) == i \in cut \/ \E k \in InFlight(i) : call[k].at \in Weighing

LEMMA OverLimitIs ==
  OverLimitIsBlocked <=>
    \A c \in Customers : Outstanding(c) > Limit[c] =>
      blocked[c] \/ c \in excused \/ \E i \in Validated(c) : Pending(i)
BY DEF OverLimitIsBlocked, Pending, Weighing

LEMMA FreshStep ==
  ASSUME Typed, Fresh, NEW k \in Slots, InvoicesStep(k)
  PROVE  Fresh'
<1> USE DEF Typed
<1> DEFINE places == {"insert_invoice", "post_invoice", "mark_invoice"}
<1>0. /\ Placed(call[k]) /\ Company \notin Invs /\ None \notin Invs
      /\ invoice \in [Invs -> {"absent", "DRAFT", "VALIDATED"}]
  BY AreDocs, Kinds DEF Served, InvoicesTyped
<1>a. ASSUME NEW place, NEW doc, NEW sum, NEW todo, Puts(k, place, doc, sum, todo),
             place \notin places,
             \A i \in Invs : /\ invoice[i] # "absent" => invoice'[i] # "absent"
                             /\ invoice[i] = "absent" => \/ invoice'[i] = "absent"
                                                         \/ call[k].doc = i /\ At(k, "insert_invoice")
      PROVE  Fresh'
  <2> SUFFICES ASSUME NEW i \in Invs
               PROVE  /\ Posts(i, "insert_invoice")' =>
                           /\ invoice'[i] = "absent"
                           /\ \A m, j \in InFlight(i)' :
                                At(m, "insert_invoice")' /\ At(j, "insert_invoice")' => m = j
                      /\ Posts(i, "post_invoice")' \/ Posts(i, "mark_invoice")' => invoice'[i] # "absent"
    BY DEF Fresh
  <2>1. \A m \in Slots : \A p \in places : call'[m].doc = i /\ call'[m].at = p =>
          m # k /\ call[m].doc = i /\ call[m].at = p
    BY <1>a DEF Puts
  <2> QED BY <1>a, <2>1 DEF Fresh, Posts, InFlight, At
<1>1. ASSUME NEW j \in Invs, CreateInvoice(k, j)
      PROVE  Fresh'
  <2>1. /\ Puts(k, "insert_invoice", j, 0, <<>>) /\ UNCHANGED invoice /\ invoice[j] = "absent"
        /\ InFlight(j) = {}
    BY <1>1, EnterPuts DEF CreateInvoice, invoiceVars
  <2>2. \A i \in Invs : \A m \in Slots : call'[m].doc = i =>
          (m = k /\ i = j /\ call'[m].at = "insert_invoice")
            \/ (m # k /\ i # j /\ call[m].doc = i /\ call'[m].at = call[m].at)
    BY <2>1 DEF Puts, InFlight
  <2> QED BY <2>1, <2>2 DEF Fresh, Posts, InFlight, At
<1>2. ASSUME NEW j \in Invs, ValidateInvoice(k, j)
      PROVE  Fresh'
  <2>1. Puts(k, "post_invoice", j, 0, <<>>) /\ UNCHANGED invoice /\ invoice[j] = "DRAFT"
    BY <1>2, EnterPuts DEF ValidateInvoice, invoiceVars
  <2>2. \A i \in Invs : \A m \in Slots : call'[m].doc = i =>
          (m = k /\ i = j /\ call'[m].at = "post_invoice")
            \/ (m # k /\ call[m].doc = i /\ call'[m].at = call[m].at)
    BY <2>1 DEF Puts
  <2> QED BY <2>1, <2>2 DEF Fresh, Posts, InFlight, At
<1>3. ASSUME NEW j \in Invs, Generate(k, j) \/ MarkPaid(k, j)
      PROVE  Fresh'
  <2>1. PICK place, sum : /\ place \in {"insert_schedule", "mark_paid"}
                          /\ Enter(k, place, j, sum, <<>>)
    BY <1>3 DEF Generate, MarkPaid
  <2>2. Puts(k, place, j, sum, <<>>)
    BY <2>1, EnterPuts
  <2> QED BY <1>3, <1>a, <2>1, <2>2 DEF Generate, MarkPaid, invoiceVars
<1>4. CASE InsertInvoice(k)
  <2>1. Puts(k, "free", None, 0, <<>>)
    BY <1>4, LeavePuts DEF InsertInvoice
  <2>2. invoice' = [invoice EXCEPT ![call[k].doc] = "DRAFT"] /\ At(k, "insert_invoice")
    BY <1>4 DEF InsertInvoice, Doc
  <2>3. \A i \in Invs : invoice'[i] = IF i = call[k].doc THEN "DRAFT" ELSE invoice[i]
    BY <1>0, <2>2
  <2>4. ASSUME NEW i \in Invs, i = call[k].doc
        PROVE  ~Posts(i, "insert_invoice")'
    <3>1. \A m \in Slots : call[m].doc = i /\ call[m].at = "insert_invoice" => m = k
      BY <2>2, <2>4 DEF Fresh, Posts, InFlight, At
    <3>2. call'[k].at # "insert_invoice"
      BY <2>1 DEF Puts
    <3> QED BY <2>1, <3>1, <3>2 DEF Puts, Posts, InFlight
  <2>5. \A i \in Invs : \A m \in Slots : \A p \in places : call'[m].doc = i /\ call'[m].at = p =>
          m # k /\ call[m].doc = i /\ call[m].at = p
    BY <2>1 DEF Puts
  <2> QED BY <2>3, <2>4, <2>5 DEF Fresh, Posts, InFlight, At
<1>5. CASE PostInvoice(k)
  <2>1. /\ Puts(k, "mark_invoice", call[k].doc, call[k].sum, call[k].todo)
        /\ UNCHANGED invoice /\ call[k].at = "post_invoice"
    BY <1>5, GotoPuts DEF PostInvoice, At, invoiceVars
  <2>2. \A i \in Invs : \A m \in Slots : call'[m].doc = i =>
          /\ call[m].doc = i
          /\ (m = k /\ call'[m].at = "mark_invoice") \/ (m # k /\ call'[m].at = call[m].at)
    BY <2>1 DEF Puts
  <2> QED BY <2>1, <2>2 DEF Fresh, Posts, InFlight, At
<1>6. CASE MarkInvoice(k)
  <2>1. PICK place, doc, sum, todo : /\ Puts(k, place, doc, sum, todo) /\ place \notin places
    BY <1>6, GotoPuts, LeavePuts DEF MarkInvoice
  <2>2. invoice' = [invoice EXCEPT ![call[k].doc] = "VALIDATED"] /\ At(k, "mark_invoice")
    BY <1>6 DEF MarkInvoice, Doc
  <2>3. \A i \in Invs : invoice'[i] = IF i = call[k].doc THEN "VALIDATED" ELSE invoice[i]
    BY <1>0, <2>2
  <2>4. \A i \in Invs : i = call[k].doc => invoice[i] # "absent"
    BY <2>2 DEF Fresh, Posts, InFlight, At
  <2> QED BY <1>a, <2>1, <2>3, <2>4
<1>7. CASE \/ InvoiceRefused(k) \/ Evaluate(k) \/ WeighLimit(k) \/ BlockOverLimit(k)
           \/ InsertSchedule(k) \/ SetPaid(k) \/ Sweep(k) \/ SweepBlock(k) \/ SweepNotice(k)
  <2>1. PICK place, doc, sum, todo : /\ Puts(k, place, doc, sum, todo) /\ place \notin places
    BY <1>7, GotoPuts, GotoLeftPuts, LeavePuts
       DEF InvoiceRefused, Evaluate, WeighLimit, BlockOverLimit, InsertSchedule, SetPaid,
           Sweep, SweepBlock, SweepNotice
  <2>2. UNCHANGED invoice
    BY <1>7 DEF InvoiceRefused, Evaluate, WeighLimit, BlockOverLimit, InsertSchedule, SetPaid,
                Sweep, SweepBlock, SweepNotice, invoiceVars
  <2> QED BY <1>a, <2>1, <2>2
<1>8. CASE OverdueCheck(k) \/ MarkOverdue(k) \/ \E c \in Customers : BlockByHand(k, c) \/ Unblock(k, c)
  <2>1. PICK place, doc, sum, todo : /\ Puts(k, place, doc, sum, todo) /\ place \notin places
    BY <1>8, EnterPuts, AtOncePuts DEF OverdueCheck, MarkOverdue, BlockByHand, Unblock
  <2>2. UNCHANGED invoice
    BY <1>8 DEF OverdueCheck, MarkOverdue, BlockByHand, Unblock, invoiceVars
  <2> QED BY <1>a, <2>1, <2>2
<1> QED BY <1>1, <1>2, <1>3, <1>4, <1>5, <1>6, <1>7, <1>8 DEF InvoicesStep

\* The customers' debts are as they were; whoever was weighing one still is,
\* was stopped, or found what the property says.
LEMMA LimitKept ==
  ASSUME OverLimitIsBlocked, NEW c \in Customers,
         Validated(c)' = Validated(c), cut \subseteq cut',
         blocked[c] \/ c \in excused => blocked'[c] \/ c \in excused',
         \A i \in Validated(c) : \A j \in Slots : call[j].doc = i /\ call[j].at \in Weighing =>
           \/ call'[j].doc = i /\ call'[j].at \in Weighing
           \/ i \in cut' \/ blocked'[c] \/ Outstanding(c) <= Limit[c] \/ c \in excused'
  PROVE  Outstanding(c)' > Limit[c] =>
           blocked'[c] \/ c \in excused' \/ \E i \in Validated(c)' : Pending(i)'
<1>1. Outstanding(c)' = Outstanding(c)
  BY DEF Outstanding
<1>2. SUFFICES ASSUME Outstanding(c) > Limit[c], ~blocked'[c], c \notin excused'
               PROVE  \E i \in Validated(c) : Pending(i)'
  BY <1>1
<1>3. PICK i \in Validated(c) : Pending(i)
  BY <1>2, OverLimitIs
<1>4. Limit[c] \in Int /\ Outstanding(c) \in Int
  <2>1. \A j \in Validated(c) : Ttc(j) \in Int
    BY InvoiceLined DEF Validated
  <2>2. IsFiniteSet(Validated(c))
    BY FiniteDocs, AreDocs DEF Validated
  <2> QED BY <2>1, <2>2, SumOf, InvoicesAssumption DEF Outstanding
<1>5. ~(Outstanding(c) <= Limit[c])
  BY <1>2, <1>4
<1> QED BY <1>2, <1>3, <1>5 DEF Pending, InFlight

LEMMA LimitStep ==
  ASSUME Typed, Fresh, OverLimitIsBlocked, NEW k \in Slots, InvoicesStep(k)
  PROVE  OverLimitIsBlocked'
<1> USE DEF Typed
<1>0. /\ Placed(call[k]) /\ Company \notin Invs /\ None \notin Invs
      /\ invoice \in [Invs -> {"absent", "DRAFT", "VALIDATED"}]
      /\ blocked \in [Customers -> BOOLEAN]
  BY AreDocs, Kinds DEF Served, InvoicesTyped
<1>1. SUFFICES ASSUME NEW c \in Customers
               PROVE  Outstanding(c)' > Limit[c] =>
                        blocked'[c] \/ c \in excused' \/ \E i \in Validated(c)' : Pending(i)'
  BY DEF OverLimitIsBlocked, Pending, Weighing
<1>a. ASSUME UNCHANGED invoice PROVE Validated(c)' = Validated(c)
  BY <1>a DEF Validated
<1>b. \A i \in Validated(c) : i \in Invs /\ i # None /\ Bill[i].customer = c
  BY <1>0 DEF Validated
\* Whoever is not weighing moves on.
<1>c. ASSUME NEW place, NEW doc, NEW sum, NEW todo, Puts(k, place, doc, sum, todo),
             call[k].at \notin Weighing, UNCHANGED invoice,
             blocked[c] \/ c \in excused => blocked'[c] \/ c \in excused'
      PROVE  Outstanding(c)' > Limit[c] =>
               blocked'[c] \/ c \in excused' \/ \E i \in Validated(c)' : Pending(i)'
  <2>1. \A j \in Slots : call[j].at \in Weighing => call'[j] = call[j]
    BY <1>c DEF Puts
  <2> QED BY <1>a, <1>c, <2>1, LimitKept DEF Puts
<1>2. ASSUME NEW j \in Invs, CreateInvoice(k, j) \/ ValidateInvoice(k, j) \/ Generate(k, j) \/ MarkPaid(k, j)
      PROVE  Outstanding(c)' > Limit[c] =>
               blocked'[c] \/ c \in excused' \/ \E i \in Validated(c)' : Pending(i)'
  <2>1. PICK place, sum : Puts(k, place, j, sum, <<>>) /\ call[k].at = "free"
    BY <1>2, EnterPuts DEF CreateInvoice, ValidateInvoice, Generate, MarkPaid
  <2> QED BY <1>2, <1>c, <2>1 DEF CreateInvoice, ValidateInvoice, Generate, MarkPaid, invoiceVars, Weighing
<1>3. CASE InsertInvoice(k)
  <2>1. Puts(k, "free", None, 0, <<>>) /\ call[k].at = "insert_invoice"
    BY <1>3, LeavePuts DEF InsertInvoice, At
  <2>2. \A i \in Invs : invoice'[i] = IF i = call[k].doc THEN "DRAFT" ELSE invoice[i]
    BY <1>0, <1>3 DEF InsertInvoice, Doc
  <2>3. \A i \in Invs : i = call[k].doc => invoice[i] = "absent"
    BY <2>1 DEF Fresh, Posts, InFlight
  <2>4. Validated(c)' = Validated(c)
    BY <2>2, <2>3 DEF Validated
  <2>5. \A j \in Slots : call[j].at \in Weighing => call'[j] = call[j]
    BY <2>1 DEF Puts, Weighing
  <2> QED BY <1>3, <2>1, <2>4, <2>5, LimitKept DEF InsertInvoice, Puts
<1>4. CASE PostInvoice(k) \/ InvoiceRefused(k) \/ InsertSchedule(k) \/ SetPaid(k)
           \/ Sweep(k) \/ SweepBlock(k) \/ SweepNotice(k)
  <2>1. PICK place, doc, sum, todo : Puts(k, place, doc, sum, todo)
    BY <1>4, GotoPuts, GotoLeftPuts, LeavePuts
       DEF PostInvoice, InvoiceRefused, InsertSchedule, SetPaid, Sweep, SweepBlock, SweepNotice
  <2>2. UNCHANGED <<invoice, excused>> /\ call[k].at \notin Weighing
    BY <1>4 DEF PostInvoice, InvoiceRefused, InsertSchedule, SetPaid, Sweep, SweepBlock, SweepNotice,
                invoiceVars, At, Weighing
  <2>3. blocked[c] => blocked'[c]
    BY <1>0, <1>4 DEF PostInvoice, InvoiceRefused, InsertSchedule, SetPaid, Sweep, SweepBlock, SweepNotice,
                      invoiceVars
  <2> QED BY <1>c, <2>1, <2>2, <2>3
<1>5. CASE MarkInvoice(k)
  <2> DEFINE j == call[k].doc
  <2>1. j \in Invs /\ call[k].at = "mark_invoice"
    BY <1>0, <1>5 DEF MarkInvoice, At, Placed, ForInvoices
  <2>2. \A i \in Invs : invoice'[i] = IF i = j THEN "VALIDATED" ELSE invoice[i]
    BY <1>0, <1>5 DEF MarkInvoice, Doc
  <2>3. CASE Bill[j].type = "CUSTOMER" /\ Bill[j].customer = c
    <3>1. Puts(k, "evaluate", j, call[k].sum, call[k].todo)
      BY <1>5, <2>3, GotoPuts DEF MarkInvoice, Doc
    <3>2. j \in Validated(c)'
      BY <2>1, <2>2, <2>3 DEF Validated
    <3>3. PICK i \in Invs : i = j
      BY <2>1
    <3>4. Pending(i)'
      BY <3>1, <3>3 DEF Puts, Pending, InFlight, Weighing
    <3>5. i \in Validated(c)'
      BY <2>1, <2>2, <2>3, <3>3 DEF Validated
    <3> QED BY <3>4, <3>5
  <2>4. CASE ~(Bill[j].type = "CUSTOMER" /\ Bill[j].customer = c)
    <3>1. PICK place, doc, sum, todo : Puts(k, place, doc, sum, todo)
      BY <1>5, GotoPuts, LeavePuts DEF MarkInvoice
    <3>2. Validated(c)' = Validated(c)
      BY <2>2, <2>4 DEF Validated
    <3>3. UNCHANGED blocked /\ (c \in excused => c \in excused')
      BY <1>5, <2>4 DEF MarkInvoice, Party, Doc
    <3>4. \A m \in Slots : call[m].at \in Weighing => call'[m] = call[m]
      BY <2>1, <3>1 DEF Puts, Weighing
    <3> QED BY <3>1, <3>2, <3>3, <3>4, LimitKept DEF Puts
  <2> QED BY <2>3, <2>4
<1>6. CASE Evaluate(k) \/ WeighLimit(k) \/ BlockOverLimit(k)
  <2> DEFINE j == call[k].doc
  <2>1. j \in Invs /\ call[k].at \in Weighing
    BY <1>0, <1>6 DEF Evaluate, WeighLimit, BlockOverLimit, At, Placed, ForInvoices, Weighing
  <2>2. PICK place, doc, sum, todo : /\ Puts(k, place, doc, sum, todo)
                                     /\ \/ doc = j /\ place \in Weighing
                                        \/ BlockOverLimit(k)
                                        \/ Evaluate(k) /\ blocked[Party(k)]
                                        \/ WeighLimit(k) /\ ~(Outstanding(Party(k)) > Limit[Party(k)])
    <3>1. CASE Evaluate(k) /\ blocked[Party(k)]
      <4>1. Puts(k, "free", None, 0, <<>>)
        BY <3>1, LeavePuts DEF Evaluate
      <4> QED BY <3>1, <4>1
    <3>2. CASE Evaluate(k) /\ ~blocked[Party(k)]
      <4>1. Puts(k, "outstanding", j, call[k].sum, call[k].todo)
        BY <3>2, GotoPuts DEF Evaluate
      <4> QED BY <4>1 DEF Weighing
    <3>3. CASE WeighLimit(k) /\ Outstanding(Party(k)) > Limit[Party(k)]
      <4>1. Puts(k, "block", j, call[k].sum, call[k].todo)
        BY <3>3, GotoPuts DEF WeighLimit
      <4> QED BY <4>1 DEF Weighing
    <3>4. CASE WeighLimit(k) /\ ~(Outstanding(Party(k)) > Limit[Party(k)])
      <4>1. Puts(k, "free", None, 0, <<>>)
        BY <3>4, LeavePuts DEF WeighLimit
      <4> QED BY <3>4, <4>1
    <3>5. CASE BlockOverLimit(k)
      <4>1. Puts(k, "free", None, 0, <<>>)
        BY <3>5, LeavePuts DEF BlockOverLimit
      <4> QED BY <3>5, <4>1
    <3> QED BY <1>6, <3>1, <3>2, <3>3, <3>4, <3>5
  <2>3. UNCHANGED <<invoice, excused>> /\ (blocked[c] => blocked'[c])
    BY <1>0, <1>6 DEF Evaluate, WeighLimit, BlockOverLimit, invoiceVars
  <2>4. j \in Validated(c) =>
          \/ call'[k].doc = j /\ call'[k].at \in Weighing
          \/ blocked'[c] \/ Outstanding(c) <= Limit[c]
    <3> SUFFICES ASSUME j \in Validated(c)
                 PROVE  \/ call'[k].doc = j /\ call'[k].at \in Weighing
                        \/ blocked'[c] \/ Outstanding(c) <= Limit[c]
      OBVIOUS
    <3>1. Party(k) = c
      BY <1>b DEF Party, Doc
    <3>2. CASE doc = j /\ place \in Weighing
      BY <2>2, <3>2 DEF Puts
    <3>3. CASE BlockOverLimit(k)
      BY <1>0, <3>1, <3>3 DEF BlockOverLimit
    <3>4. CASE Evaluate(k) /\ blocked[Party(k)]
      BY <3>1, <3>4 DEF Evaluate, invoiceVars
    <3>5. CASE WeighLimit(k) /\ ~(Outstanding(Party(k)) > Limit[Party(k)])
      <4>1. Limit[c] \in Int /\ Outstanding(c) \in Int
        <5>1. \A i \in Validated(c) : Ttc(i) \in Int
          BY InvoiceLined DEF Validated
        <5>2. IsFiniteSet(Validated(c))
          BY FiniteDocs, AreDocs DEF Validated
        <5> QED BY <5>1, <5>2, SumOf, InvoicesAssumption DEF Outstanding
      <4> QED BY <3>1, <3>5, <4>1
    <3> QED BY <2>2, <3>2, <3>3, <3>4, <3>5
  <2>5. \A i \in Validated(c) : \A m \in Slots : call[m].doc = i /\ call[m].at \in Weighing =>
           \/ call'[m].doc = i /\ call'[m].at \in Weighing
           \/ blocked'[c] \/ Outstanding(c) <= Limit[c]
    BY <2>2, <2>4 DEF Puts
  <2> QED BY <1>a, <2>2, <2>3, <2>5, LimitKept DEF Puts
<1>7. ASSUME \/ OverdueCheck(k) \/ MarkOverdue(k)
             \/ \E b \in Customers : BlockByHand(k, b) \/ Unblock(k, b)
      PROVE  Outstanding(c)' > Limit[c] =>
               blocked'[c] \/ c \in excused' \/ \E i \in Validated(c)' : Pending(i)'
  <2>1. PICK place, doc, sum, todo : /\ Puts(k, place, doc, sum, todo) /\ call[k].at \notin Weighing
    <3>1. CASE OverdueCheck(k)
      BY <3>1, EnterPuts DEF OverdueCheck, Weighing
    <3>2. CASE ~OverdueCheck(k)
      BY <1>7, <3>2, AtOncePuts DEF MarkOverdue, BlockByHand, Unblock, Weighing
    <3> QED BY <3>1, <3>2
  <2>2. UNCHANGED invoice /\ (blocked[c] \/ c \in excused => blocked'[c] \/ c \in excused')
    BY <1>0, <1>7 DEF OverdueCheck, MarkOverdue, BlockByHand, Unblock, invoiceVars
  <2> QED BY <1>c, <2>1, <2>2
<1> QED BY <1>2, <1>3, <1>4, <1>5, <1>6, <1>7 DEF InvoicesStep

LEMMA OthersKeepLimit ==
  ASSUME Fresh, OverLimitIsBlocked, \A i \in Invs : Away(i), UNCHANGED invoiceVars,
         cut \subseteq cut'
  PROVE  Fresh' /\ OverLimitIsBlocked'
<1>1. UNCHANGED <<invoice, blocked, excused>>
  BY DEF invoiceVars
<1>2. \A i \in Invs : \A k \in Slots : call[k].doc = i \/ call'[k].doc = i => call'[k] = call[k]
  BY DEF Away
<1>3. Fresh'
  BY <1>1, <1>2 DEF Fresh, Posts, InFlight, At
<1>4. ASSUME NEW c \in Customers
      PROVE  Outstanding(c)' > Limit[c] =>
               blocked'[c] \/ c \in excused' \/ \E i \in Validated(c)' : Pending(i)'
  <2>1. Validated(c)' = Validated(c) /\ Validated(c) \subseteq Invs
    BY <1>1 DEF Validated
  <2> QED BY <1>1, <1>2, <2>1, LimitKept
<1>5. OverLimitIsBlocked'
  BY <1>4 DEF OverLimitIsBlocked, Pending, Weighing
<1> QED BY <1>3, <1>5

LEMMA RestartKeepsLimit ==
  ASSUME Typed, Fresh, OverLimitIsBlocked, Restart
  PROVE  Fresh' /\ OverLimitIsBlocked'
<1>1. /\ \A k \in Slots : call'[k] = Free
      /\ cut \subseteq cut' /\ \A k \in Slots : call[k].doc # None => call[k].doc \in cut'
      /\ UNCHANGED <<invoice, blocked, excused>>
  BY RestartKeeps DEF Restart, Typed, Components, invoiceVars
<1>2. \A i \in Invs : i # None /\ \A k \in Slots : call'[k].doc # i
  BY <1>1, AreDocs DEF Free
<1>3. Fresh'
  BY <1>2 DEF Fresh, Posts, InFlight
<1>4. ASSUME NEW c \in Customers
      PROVE  Outstanding(c)' > Limit[c] =>
               blocked'[c] \/ c \in excused' \/ \E i \in Validated(c)' : Pending(i)'
  <2>1. Validated(c)' = Validated(c) /\ Validated(c) \subseteq Invs
    BY <1>1 DEF Validated
  <2> QED BY <1>1, <1>2, <2>1, LimitKept
<1>5. OverLimitIsBlocked'
  BY <1>4 DEF OverLimitIsBlocked, Pending, Weighing
<1> QED BY <1>3, <1>5

LEMMA OverLimitStep ==
  ASSUME Typed, Fresh, OverLimitIsBlocked, [Next]_vars
  PROVE  Fresh' /\ OverLimitIsBlocked'
<1>1. ASSUME NEW k \in Slots, Step(k)
      PROVE  Fresh' /\ OverLimitIsBlocked'
  <2>1. \A D : Took(k, D) => cut \subseteq cut' /\ \A d \in Docs \ D : Away(d)
    BY TookKeeps DEF Took, Turn, Moved
  <2>2. \A d \in Invs : d \in Docs \ (TreasuryDocs \cup AssetDocs \cup PeopleDocs \cup Runs
                                        \cup StatementDocs \cup Manuals)
    BY AreDocs, Kinds
  <2>3. \/ InvoicesStep(k)
        \/ /\ UNCHANGED invoiceVars
           /\ \E D \in {TreasuryDocs, AssetDocs, PeopleDocs, Runs, StatementDocs, Manuals} : Took(k, D)
    BY <1>1, StepTurns
  <2>4. InvoicesStep(k) \/ (UNCHANGED invoiceVars /\ cut \subseteq cut' /\ \A i \in Invs : Away(i))
    BY <2>1, <2>2, <2>3
  <2> QED BY <2>4, FreshStep, LimitStep, OthersKeepLimit
<1>2. CASE Restart
  BY <1>2, RestartKeepsLimit
<1>3. CASE UNCHANGED vars
  <2>1. \A d : Away(d)
    BY <1>3 DEF vars, callVars, Away
  <2> QED BY <1>3, <2>1, OthersKeepLimit DEF vars, callVars
<1> QED BY <1>1, <1>2, <1>3 DEF Next

LEMMA OverLimitInit ==
  ASSUME Init
  PROVE  Fresh /\ OverLimitIsBlocked
<1>1. \A i \in Invs : \A k \in Slots : call[k].doc # i
  BY AreDocs DEF Init, CallsInit, Free
<1>2. Fresh
  BY <1>1 DEF Fresh, Posts, InFlight
<1>3. ASSUME NEW c \in Customers
      PROVE  ~(Outstanding(c) > Limit[c])
  <2>1. Validated(c) = {}
    BY DEF Init, InvoicesInit, Validated
  <2>2. Outstanding(c) = 0
    <3> DEFINE f == [i \in Validated(c) |-> Ttc(i)]
    <3>1. DOMAIN f = {}
      BY <2>1
    <3>2. SumFunction(f) = 0
      BY <3>1, SumEmpty DEF SumFunction
    <3> QED BY <3>2 DEF Outstanding
  <2>3. Limit[c] \in Nat
    BY InvoicesAssumption
  <2> QED BY <2>2, <2>3
<1> QED BY <1>2, <1>3 DEF OverLimitIsBlocked

(***************************************************************************)
(* A customer who owes more than the limit is blocked, is about to be      *)
(* weighed by the request that validated one of the invoices, was excused  *)
(* by hand, or that request was stopped: no interleaving of validations,   *)
(* blocks and unblocks lets a customer slip through.                       *)
(***************************************************************************)
THEOREM DebtorsAreBlocked == Spec => []OverLimitIsBlocked
<1>1. Init => Typed /\ Fresh /\ OverLimitIsBlocked
  BY TypedInit, OverLimitInit
<1>2. Typed /\ Fresh /\ OverLimitIsBlocked /\ [Next]_vars => (Typed /\ Fresh /\ OverLimitIsBlocked)'
  BY TypedStep, OverLimitStep
<1> QED BY <1>1, <1>2, PTL DEF Spec

-----------------------------------------------------------------------------
(***************************************************************************)
(* The lines of the journal, by document, entry and number.                *)
(***************************************************************************)
LEMMA EntryIn ==
  /\ \A e : e \in EntryIds <=> \E d \in Docs : \E n \in DOMAIN journal[d] : e = <<d, n>>
  /\ \A d, n : Entry(<<d, n>>) = journal[d][n]
BY DEF EntryIds, Entry

LEMMA LineIn ==
  /\ \A l : l \in LineIds <=>
       \E e \in EntryIds : \E n \in DOMAIN Entry(e).lines : l = <<e, n>>
  /\ \A e, n : Line(<<e, n>>) = Entry(e).lines[n]
BY DEF LineIds, Line

\* The entry of a run credits the staff's account once, with the net pay.
LEMMA StaffLine ==
  ASSUME NEW paid, paid \subseteq Slips, IsFiniteSet(paid)
  PROVE  \E n \in DOMAIN RunLines(paid) :
           /\ RunLines(paid)[n] = Credit(422, PaidTotal(paid, "net"))
           /\ \A m \in DOMAIN RunLines(paid) : RunLines(paid)[m].account = 422 => m = n
<1> DEFINE a == Debit(661, PaidTotal(paid, "gross"))
           b == Debit(664, PaidTotal(paid, "employer"))
           c == Credit(422, PaidTotal(paid, "net"))
           d == Credit(431, PaidTotal(paid, "cnps") + PaidTotal(paid, "employer"))
           e == Credit(447, PaidTotal(paid, "its"))
           S == {a, b, c, d, e}
           head == <<a>> \o IfAny(b)
           tail == <<c, d, e>>
<1>1. RunLines(paid) = head \o tail
  BY DEF RunLines, PaidTotal
<1>2. /\ a.account = 661 /\ b.account = 664 /\ c.account = 422
      /\ d.account = 431 /\ e.account = 447
  BY DEF Debit, Credit
<1>3. a \in S /\ b \in S /\ c \in S /\ d \in S /\ e \in S /\ (IfAny(b) = <<>> \/ IfAny(b) = <<b>>)
  BY DEF IfAny
<1> HIDE DEF a, b, c, d, e, S
<1>4. /\ tail \in Seq(S) /\ Len(tail) = 3 /\ tail[1] = c
      /\ tail[2] = d /\ tail[3] = e
  BY <1>3
<1>5. /\ head \in Seq(S) /\ Len(head) \in {1, 2}
      /\ \A i \in 1..Len(head) : head[i] \in {a, b}
  <2>1. CASE IfAny(b) = <<>>
    <3>1. head = <<a>>
      <4>1. <<a>> \in Seq(S)
        BY <1>3
      <4> QED BY <2>1, <4>1, ConcatEmptySeq
    <3> HIDE DEF head
    <3> QED BY <1>3, <3>1
  <2>2. CASE IfAny(b) = <<b>>
    <3>1. <<a>> \in Seq(S) /\ <<b>> \in Seq(S) /\ Len(<<a>>) = 1 /\ Len(<<b>>) = 1
          /\ <<a>>[1] = a /\ <<b>>[1] = b
      BY <1>3
    <3>2. head = <<a>> \o <<b>>
      BY <2>2
    <3> HIDE DEF head
    <3>3. head \in Seq(S) /\ Len(head) = 2 /\ head[1] = a /\ head[2] = b
      BY <3>1, <3>2, ConcatProperties
    <3>4. \A i \in 1..Len(head) : i = 1 \/ i = 2
      BY <3>3
    <3> QED BY <3>3, <3>4
  <2> QED BY <1>3, <2>1, <2>2
<1> HIDE DEF head, tail
<1>6. /\ RunLines(paid) \in Seq(S) /\ Len(RunLines(paid)) = Len(head) + 3
      /\ \A i \in 1..Len(head) + 3 :
           RunLines(paid)[i] = IF i <= Len(head) THEN head[i] ELSE tail[i - Len(head)]
  <2>1. \A i \in 1..Len(head) + Len(tail) :
          (head \o tail)[i] = IF i <= Len(head) THEN head[i] ELSE tail[i - Len(head)]
    BY <1>4, <1>5, ConcatProperties
  <2>2. head \o tail \in Seq(S) /\ Len(head \o tail) = Len(head) + Len(tail)
    BY <1>4, <1>5, ConcatProperties
  <2> QED BY <1>1, <1>4, <2>1, <2>2
<1>7. DOMAIN RunLines(paid) = 1..Len(head) + 3
  BY <1>6, LenProperties
<1> DEFINE n == Len(head) + 1
<1>8. n \in DOMAIN RunLines(paid) /\ RunLines(paid)[n] = c
  BY <1>4, <1>5, <1>6, <1>7
<1>9. ASSUME NEW m \in DOMAIN RunLines(paid), RunLines(paid)[m].account = 422
      PROVE  m = n
  <2>1. CASE m <= Len(head)
    BY <1>2, <1>5, <1>6, <1>7, <1>9, <2>1
  <2>2. CASE m - Len(head) \in {2, 3}
    BY <1>2, <1>4, <1>5, <1>6, <1>7, <1>9, <2>2
  <2> QED BY <1>5, <1>7, <2>1, <2>2
<1> QED BY <1>8, <1>9 DEF c

LEMMA BookedOnce ==
  ASSUME Typed, NEW p \in Runs,
         journal[p] = <<>> \/ journal[p] = <<RunEntry(slips[p])>>
  PROVE  Booked(p) \in {0, Owed(p)}
<1> DEFINE I == {i \in LineIds : i[1][1] = p /\ Line(i).account = 422}
           f == [l \in I |-> Line(l).credit - Line(l).debit]
<1>1. Booked(p) = SumFunctionOnSet(f, I)
  BY DEF Booked, SumFunction
<1>2. p \in Docs
  BY AreDocs
<1>3. CASE journal[p] = <<>>
  <2>1. DOMAIN journal[p] = {}
    BY <1>3
  <2>2. I = {}
    BY <2>1, EntryIn, LineIn
  <2> QED BY <1>1, <2>2, SumEmpty
<1>4. CASE journal[p] = <<RunEntry(slips[p])>>
  <2> DEFINE N == PaidTotal(slips[p], "net")
             L == RunLines(slips[p])
  <2>1. slips[p] \subseteq Slips /\ IsFiniteSet(slips[p])
    BY DEF Typed, PayrollTyped
  <2>2. N \in Int /\ Owed(p) = N
    BY <2>1, RunLined DEF Owed, PaidTotal
  <2>3. PICK n \in DOMAIN L : /\ L[n] = Credit(422, N)
                              /\ \A m \in DOMAIN L : L[m].account = 422 => m = n
    BY <2>1, StaffLine
  <2> HIDE DEF N
  <2>4. DOMAIN journal[p] = {1} /\ journal[p][1].lines = L
    <3>1. \A x : DOMAIN <<x>> = {1} /\ <<x>>[1] = x
      OBVIOUS
    <3>2. journal[p][1] = RunEntry(slips[p]) /\ DOMAIN journal[p] = {1}
      BY <1>4, <3>1
    <3> QED BY <3>2 DEF RunEntry
  <2> HIDE DEF L
  <2> DEFINE x == <<<<p, 1>>, n>>
  <2>5. x \in LineIds /\ Line(x) = Credit(422, N) /\ x[1][1] = p
    <3>1. <<p, 1>> \in EntryIds /\ Entry(<<p, 1>>).lines = L
      BY <1>2, <2>4, EntryIn
    <3> QED BY <2>3, <3>1, LineIn
  <2>6. ASSUME NEW i \in I
        PROVE  i = x
    <3>1. PICK e \in EntryIds : \E m \in DOMAIN Entry(e).lines : i = <<e, m>>
      BY LineIn
    <3>2. PICK m \in DOMAIN Entry(e).lines : i = <<e, m>>
      BY <3>1
    <3>3. e = <<p, 1>>
      BY <2>4, <3>2, EntryIn
    <3>4. Entry(e).lines = L /\ Line(i) = L[m]
      BY <2>4, <3>2, <3>3, EntryIn, LineIn
    <3> QED BY <2>3, <3>2, <3>3, <3>4
  <2>7. I = {x} /\ f[x] = N
    <3>1. Line(x).account = 422 /\ Line(x).credit - Line(x).debit = N
      BY <2>2, <2>5 DEF Credit
    <3>2. x \in I
      BY <2>5, <3>1
    <3> QED BY <2>6, <3>1, <3>2
  <2> HIDE DEF f, I, x
  <2> QED BY <1>1, <2>2, <2>7, SumOne
<1> QED BY <1>3, <1>4

LEMMA OnePerEmployee ==
  ASSUME NEW paid, \A s, t \in paid : s.employee = t.employee => s = t, IsFiniteSet(paid)
  PROVE  Cardinality(paid) = Cardinality(PaidOf(paid))
<1> DEFINE g == [s \in paid |-> s.employee]
<1>1. g \in Bijection(paid, PaidOf(paid))
  BY DEF Bijection, Injection, Surjection, IsInjective, PaidOf
<1>2. ExistsBijection(paid, PaidOf(paid))
  BY <1>1 DEF ExistsBijection
<1>3. Cardinality(PaidOf(paid)) = Cardinality(paid)
  BY <1>2, FS_Bijection
<1> QED BY <1>3

LEMMA RunsAreWhole ==
  ASSUME Typed, PostingSound
  PROVE  RunIsWhole
<1> SUFFICES ASSUME NEW p \in Runs, run[p] = "VALIDATED", Undisturbed(p)
             PROVE  /\ {s.employee : s \in slips[p]} = staffed[p]
                    /\ Cardinality(slips[p]) = Cardinality(staffed[p])
                    /\ Booked(p) \in {0, Owed(p)}
  BY DEF RunIsWhole
<1>1. RunWhole(p)
  BY DEF PostingSound, RunSound
<1>2. ~Posts(p, "next_slip") /\ ~Posts(p, "insert_slip")
  BY <1>1 DEF RunWhole, Posts, RunStage, At
<1>3. PaidOf(slips[p]) = staffed[p]
  BY <1>1, <1>2 DEF RunWhole
<1>4. IsFiniteSet(slips[p])
  BY DEF Typed, PayrollTyped
<1>5. Cardinality(slips[p]) = Cardinality(PaidOf(slips[p]))
  BY <1>1, <1>4, OnePerEmployee DEF RunWhole
<1>6. Booked(p) \in {0, Owed(p)}
  BY <1>1, BookedOnce DEF RunWhole
<1> QED BY <1>3, <1>5, <1>6 DEF PaidOf

(***************************************************************************)
(* A payroll run nothing disturbed pays every employee it is for, each     *)
(* once, and what it owes the staff is on account 422 in full or not at    *)
(* all.                                                                    *)
(***************************************************************************)
THEOREM RunsPayEveryone == Spec => []RunIsWhole
<1>1. Init => Typed /\ PostingSound
  BY TypedInit, PostingInit
<1>2. Typed /\ PostingSound /\ [Next]_vars => (Typed /\ PostingSound)'
  BY TypedStep, PostingStep
<1>3. Typed /\ PostingSound => RunIsWhole
  BY RunsAreWhole
<1> QED BY <1>1, <1>2, <1>3, PTL DEF Spec

-----------------------------------------------------------------------------
(***************************************************************************)
(* The books.  Every figure of the reports is a sum over the lines of the  *)
(* journal, grouped in its own way.                                        *)
(***************************************************************************)
Swing(line) == line.debit - line.credit

LEMMA EntriesAre ==
  ASSUME JournalOK, NEW e \in EntryIds
  PROVE  /\ Entry(e).code \in Codes /\ Lined(Entry(e).lines)
         /\ Accepts(Entry(e).lines)
<1>1. PICK d \in Docs : \E n \in DOMAIN journal[d] : e = <<d, n>>
  BY EntryIn
<1>2. PICK n \in DOMAIN journal[d] : e = <<d, n>>
  BY <1>1
<1>3. journal[d][n] \in Entries
  <2>1. journal[d] \in Seq(Entries)
    BY DEF JournalOK
  <2> QED BY <2>1, <1>2, LenProperties, ElementOfSeq
<1>4. Entry(e) \in Entries
  BY <1>2, <1>3, EntryIn
<1>5. Entry(e).code \in Codes /\ Accepts(Entry(e).lines)
  BY <1>4 DEF Entries
<1>6. PICK S \in LineSets : Entry(e).lines \in [S -> Move]
  BY <1>4 DEF Entries
<1> QED BY <1>5, <1>6 DEF Lined, LineSets

LEMMA LinesAre ==
  ASSUME JournalOK, NEW l \in LineIds
  PROVE  /\ l = <<l[1], l[2]>> /\ l[1] \in EntryIds /\ l[2] \in DOMAIN Entry(l[1]).lines
         /\ Line(l) = Entry(l[1]).lines[l[2]]
         /\ Line(l).account \in Chart /\ Line(l).debit \in Int /\ Line(l).credit \in Int
<1>1. PICK e \in EntryIds : \E n \in DOMAIN Entry(e).lines : l = <<e, n>>
  BY LineIn
<1>2. PICK n \in DOMAIN Entry(e).lines : l = <<e, n>>
  BY <1>1
<1>3. l[1] = e /\ l[2] = n /\ Line(l) = Entry(e).lines[n]
  BY <1>2, LineIn
<1>4. Entry(e).lines[n] \in Move /\ Entry(e).lines[n].account \in Chart
  BY EntriesAre DEF Lined, Accepts
<1> QED BY <1>2, <1>3, <1>4 DEF Move

LEMMA FiniteBooks ==
  ASSUME JournalOK
  PROVE  IsFiniteSet(EntryIds) /\ IsFiniteSet(LineIds)
<1>1. IsFiniteSet(EntryIds)
  <2> DEFINE F == [d \in Docs |-> {d} \X DOMAIN journal[d]]
  <2>1. ASSUME NEW d \in Docs
        PROVE  IsFiniteSet(F[d])
    <3>1. journal[d] \in Seq(Entries)
      BY DEF JournalOK
    <3>2. IsFiniteSet(DOMAIN journal[d])
      BY <3>1, LenProperties, FS_Interval
    <3>3. IsFiniteSet({d} \X DOMAIN journal[d])
      BY <3>2, FS_Singleton, FS_Product
    <3> QED BY <3>3
  <2>2. \A e \in EntryIds : \E d \in Docs : e \in F[d]
    BY DEF EntryIds
  <2>3. IsFiniteSet(Docs) /\ \A d \in Docs : IsFiniteSet(F[d])
    BY <2>1, LedgerAssumption
  <2> HIDE DEF F
  <2> QED BY <2>2, <2>3, FiniteUnion
<1>2. IsFiniteSet(LineIds)
  <2> DEFINE F == [e \in EntryIds |-> {e} \X DOMAIN Entry(e).lines]
  <2>1. ASSUME NEW e \in EntryIds
        PROVE  IsFiniteSet(F[e])
    <3>1. IsFiniteSet(DOMAIN Entry(e).lines)
      BY EntriesAre DEF Lined
    <3>2. IsFiniteSet({e} \X DOMAIN Entry(e).lines)
      BY <3>1, FS_Singleton, FS_Product
    <3> QED BY <3>2
  <2>2. \A l \in LineIds : \E e \in EntryIds : l \in F[e]
    BY DEF LineIds
  <2>3. \A e \in EntryIds : IsFiniteSet(F[e])
    BY <2>1
  <2> HIDE DEF F
  <2> QED BY <1>1, <2>2, <2>3, FiniteUnion
<1> QED BY <1>1, <1>2

LEMMA FiniteCodes == IsFiniteSet(Codes)
<1>1. Codes = {"VE"} \cup {"AC"} \cup {"BQ"} \cup {"CA"} \cup {"OD"} \cup {"PA"}
  BY DEF Codes
<1> QED BY <1>1, FS_Singleton, FS_Union

\* The gap of an entry, and what its two sides are.
LEMMA GapIs ==
  ASSUME JournalOK, NEW e \in EntryIds
  PROVE  LET lines == Entry(e).lines
             swing == [n \in DOMAIN lines |-> Swing(lines[n])]
         IN /\ Gap(lines) = SumFunctionOnSet(swing, DOMAIN lines)
            /\ Gap(lines) = Total(lines, "debit") - Total(lines, "credit")
            /\ Total(lines, "debit") \in Int /\ Total(lines, "credit") \in Int
            /\ Gap(lines) \in {0 - 1, 0, 1}
<1> DEFINE L == Entry(e).lines
           S == DOMAIN L
           d == [n \in S |-> L[n]["debit"]]
           c == [n \in S |-> L[n]["credit"]]
           swing == [n \in S |-> Swing(L[n])]
<1>1. IsFiniteSet(S) /\ \A n \in S : L[n].debit \in Int /\ L[n].credit \in Int
  BY EntriesAre DEF Lined, Move
<1>2. Total(L, "debit") = SumFunctionOnSet(d, S) /\ Total(L, "credit") = SumFunctionOnSet(c, S)
  BY DEF Total, SumFunction
<1>3. \A n \in S : d[n] \in Int /\ c[n] \in Int /\ swing[n] = d[n] - c[n]
  BY <1>1 DEF Swing
<1>4. Gap(L) \in {0 - 1, 0, 1}
  BY EntriesAre DEF Accepts
<1> HIDE DEF S, d, c, swing
<1>5. SumFunctionOnSet(swing, S) = SumFunctionOnSet(d, S) - SumFunctionOnSet(c, S)
  BY <1>1, <1>3, SumMinus
<1>6. SumFunctionOnSet(d, S) \in Int /\ SumFunctionOnSet(c, S) \in Int
  BY <1>1, <1>3, SumInt
<1>7. Gap(L) = Total(L, "debit") - Total(L, "credit")
  BY DEF Gap
<1>8. Gap(L) = SumFunctionOnSet(swing, S)
  BY <1>2, <1>5, <1>7
<1>9. Total(L, "debit") \in Int /\ Total(L, "credit") \in Int
  BY <1>2, <1>6
<1> QED BY <1>4, <1>7, <1>8, <1>9 DEF S, swing

AllSwings == [l \in LineIds |-> Swing(Line(l))]
AllGaps   == [e \in EntryIds |-> Gap(Entry(e).lines)]
Books     == SumFunctionOnSet(AllSwings, LineIds)

\* Grouped by entry.
LEMMA ByEntry ==
  ASSUME JournalOK
  PROVE  SumFunctionOnSet(AllGaps, EntryIds) = Books
<1> DEFINE key == [l \in LineIds |-> l[1]]
           group == [e \in EntryIds |-> {l \in LineIds : key[l] = e}]
<1>1. ASSUME NEW e \in EntryIds
      PROVE  AllGaps[e] = SumFunctionOnSet(AllSwings, {l \in LineIds : key[l] = e})
  <2> DEFINE L == Entry(e).lines
             T == DOMAIN L
             h == [n \in T |-> Swing(L[n])]
             m == [n \in T |-> <<e, n>>]
  <2>1. IsFiniteSet(T) /\ \A n \in T : L[n].debit \in Int /\ L[n].credit \in Int
    BY EntriesAre DEF Lined, Move
  <2>2. \A n \in T : m[n] \in LineIds /\ Line(m[n]) = L[n]
    BY LineIn
  <2>3. ASSUME NEW n \in T
        PROVE  h[n] = AllSwings[m[n]] /\ h[n] \in Int
    <3>1. h[n] = Swing(L[n]) /\ AllSwings[m[n]] = Swing(L[n])
      BY <2>2 DEF AllSwings
    <3>2. Swing(L[n]) \in Int
      BY <2>1 DEF Swing
    <3> QED BY <3>1, <3>2
  <2>4. \A s, t \in T : m[s] = m[t] => s = t
    OBVIOUS
  <2>5. {l \in LineIds : key[l] = e} = {m[n] : n \in T}
    <3>1. ASSUME NEW l \in LineIds, l[1] = e
          PROVE  l[2] \in T /\ l = m[l[2]]
      BY <3>1, LinesAre
    <3>2. \A n \in T : m[n] \in LineIds /\ key[m[n]] = e
      BY <2>2
    <3>3. \A l \in LineIds : key[l] = e => l[2] \in T /\ l = m[l[2]]
      BY <3>1
    <3> HIDE DEF T, m, key
    <3> QED BY <3>2, <3>3
  <2>6. Gap(L) = SumFunctionOnSet(h, T)
    BY GapIs
  <2> HIDE DEF h, m, T, key
  <2>7. SumFunctionOnSet(AllSwings, {m[n] : n \in T}) = SumFunctionOnSet(h, T)
    BY <2>1, <2>3, <2>4, SumRenamed
  <2> QED BY <2>5, <2>6, <2>7 DEF AllGaps
<1>2. \A l \in LineIds : AllSwings[l] \in Int /\ key[l] \in EntryIds
  BY LinesAre DEF AllSwings, Swing
<1>3. \A e \in EntryIds : \A l : l \in group[e] <=> l \in LineIds /\ key[l] = e
  OBVIOUS
<1>4. \A e \in EntryIds : AllGaps[e] = SumFunctionOnSet(AllSwings, group[e])
  BY <1>1
<1>5. IsFiniteSet(EntryIds) /\ IsFiniteSet(LineIds)
  BY FiniteBooks
<1> HIDE DEF key, group
<1>6. SumFunctionOnSet(AllSwings, LineIds) = SumFunctionOnSet(AllGaps, EntryIds)
  <2>1. Grouping(AllSwings, LineIds, EntryIds, key, group, AllGaps)
    BY <1>2, <1>3, <1>4, <1>5 DEF Grouping
  <2> QED BY <2>1, SumGrouped
<1> QED BY <1>6 DEF Books

\* Grouped by journal.
LEMMA ByJournal ==
  ASSUME JournalOK
  PROVE  SumFunction([c \in Codes |-> JournalTotal(c, "debit") - JournalTotal(c, "credit")]) =
           SumFunctionOnSet(AllGaps, EntryIds)
<1> DEFINE key == [e \in EntryIds |-> Entry(e).code]
           part == [c \in Codes |-> JournalTotal(c, "debit") - JournalTotal(c, "credit")]
           group == [c \in Codes |-> {e \in EntryIds : key[e] = c}]
<1>1. ASSUME NEW c \in Codes
      PROVE  part[c] = SumFunctionOnSet(AllGaps, {e \in EntryIds : key[e] = c})
  <2> DEFINE E == {e \in EntryIds : Entry(e).code = c}
             d == [e \in E |-> Total(Entry(e).lines, "debit")]
             r == [e \in E |-> Total(Entry(e).lines, "credit")]
  <2>1. JournalTotal(c, "debit") = SumFunctionOnSet(d, E)
    BY DEF JournalTotal, SumFunction
  <2>2. JournalTotal(c, "credit") = SumFunctionOnSet(r, E)
    BY DEF JournalTotal, SumFunction
  <2>3. IsFiniteSet(E)
    BY FiniteBooks, FS_Subset
  <2>4. \A e \in E : d[e] \in Int /\ r[e] \in Int /\ AllGaps[e] = d[e] - r[e]
    BY GapIs DEF AllGaps
  <2>5. E = {e \in EntryIds : key[e] = c}
    OBVIOUS
  <2>6. part[c] = JournalTotal(c, "debit") - JournalTotal(c, "credit")
    OBVIOUS
  <2> HIDE DEF d, r, E, key, part
  <2> QED BY <2>1, <2>2, <2>3, <2>4, <2>5, <2>6, SumMinus
<1>2. \A e \in EntryIds : AllGaps[e] \in Int /\ key[e] \in Codes
  <2> SUFFICES ASSUME NEW e \in EntryIds
               PROVE  AllGaps[e] \in Int /\ key[e] \in Codes
    OBVIOUS
  <2>1. Gap(Entry(e).lines) \in Int
    <3>1. Gap(Entry(e).lines) \in {0 - 1, 0, 1}
      BY GapIs
    <3> QED BY <3>1
  <2>2. AllGaps[e] = Gap(Entry(e).lines)
    BY DEF AllGaps
  <2>3. key[e] \in Codes
    BY EntriesAre
  <2> QED BY <2>1, <2>2, <2>3
<1>3. SumFunction(part) = SumFunctionOnSet(part, Codes)
  BY DEF SumFunction
<1>4. \A c \in Codes : \A e : e \in group[c] <=> e \in EntryIds /\ key[e] = c
  OBVIOUS
<1>5. \A c \in Codes : part[c] = SumFunctionOnSet(AllGaps, group[c])
  BY <1>1
<1>6. IsFiniteSet(EntryIds) /\ IsFiniteSet(Codes)
  BY FiniteBooks, FiniteCodes
<1> HIDE DEF key, part, group
<1>7. SumFunctionOnSet(AllGaps, EntryIds) = SumFunctionOnSet(part, Codes)
  <2>1. Grouping(AllGaps, EntryIds, Codes, key, group, part)
    BY <1>2, <1>4, <1>5, <1>6 DEF Grouping
  <2> QED BY <2>1, SumGrouped
<1> QED BY <1>3, <1>7 DEF part

\* Grouped by account.
Moving == {Line(l).account : l \in LineIds}
Closing == [a \in Moving |-> ClosingBalance(a)]

LEMMA AccountIs ==
  ASSUME JournalOK, NEW a \in Moving
  PROVE  /\ Closing[a] = SumFunctionOnSet(AllSwings, {l \in LineIds : Line(l).account = a})
         /\ Closing[a] \in Int
         /\ TrialBalance[a].debit - TrialBalance[a].credit = Closing[a]
<1> DEFINE S == {l \in LineIds : Line(l).account = a}
           f == [l \in S |-> Line(l).debit - Line(l).credit]
           d == [l \in S |-> Line(l).debit]
           c == [l \in S |-> Line(l).credit]
<1>1. Closing[a] = SumFunctionOnSet(f, S)
  BY DEF Closing, ClosingBalance, SumFunction
<1>2. TrialBalance[a].debit = SumFunctionOnSet(d, S) /\ TrialBalance[a].credit = SumFunctionOnSet(c, S)
  BY DEF TrialBalance, Moving, SumFunction
<1>3. IsFiniteSet(S)
  BY FiniteBooks, FS_Subset
<1>4. \A l \in S : d[l] \in Int /\ c[l] \in Int /\ f[l] = d[l] - c[l] /\ f[l] \in Int /\ f[l] = AllSwings[l]
  BY LinesAre DEF AllSwings, Swing
<1>5. S = {l \in LineIds : Line(l).account = a}
  OBVIOUS
<1> HIDE DEF S, f, d, c
<1>6. SumFunctionOnSet(f, S) = SumFunctionOnSet(AllSwings, S)
  BY <1>3, <1>4, SumSame
<1>7. SumFunctionOnSet(f, S) = SumFunctionOnSet(d, S) - SumFunctionOnSet(c, S)
  BY <1>3, <1>4, SumMinus
<1>8. SumFunctionOnSet(f, S) \in Int
  BY <1>3, <1>4, SumInt
<1> QED BY <1>1, <1>2, <1>5, <1>6, <1>7, <1>8

LEMMA MovingIs ==
  ASSUME JournalOK
  PROVE  Moving \subseteq Chart /\ IsFiniteSet(Moving) /\ DOMAIN TrialBalance = Moving
<1> DEFINE F == [l \in LineIds |-> Line(l).account]
<1>1. \A a \in Moving : \E l \in LineIds : a = F[l]
  BY DEF Moving
<1>2. Moving \subseteq Chart
  BY LinesAre DEF Moving
<1>3. DOMAIN TrialBalance = Moving
  BY DEF TrialBalance, Moving
<1> HIDE DEF F
<1>4. IsFiniteSet(Moving)
  BY <1>1, FiniteBooks, FiniteFamily
<1> QED BY <1>2, <1>3, <1>4

LEMMA ByAccount ==
  ASSUME JournalOK
  PROVE  SumFunctionOnSet(Closing, Moving) = Books
<1> DEFINE key == [l \in LineIds |-> Line(l).account]
           group == [a \in Moving |-> {l \in LineIds : Line(l).account = a}]
<1>1. \A a \in Moving : \A l : l \in group[a] <=> l \in LineIds /\ key[l] = a
  OBVIOUS
<1>2. \A a \in Moving : Closing[a] = SumFunctionOnSet(AllSwings, group[a])
  BY AccountIs
<1>3. \A l \in LineIds : AllSwings[l] \in Int /\ key[l] \in Moving
  BY LinesAre DEF AllSwings, Swing, Moving
<1>4. IsFiniteSet(LineIds) /\ IsFiniteSet(Moving)
  BY FiniteBooks, MovingIs
<1> HIDE DEF key, group
<1>5. SumFunctionOnSet(AllSwings, LineIds) = SumFunctionOnSet(Closing, Moving)
  <2>1. Grouping(AllSwings, LineIds, Moving, key, group, Closing)
    BY <1>1, <1>2, <1>3, <1>4 DEF Grouping
  <2> QED BY <2>1, SumGrouped
<1> QED BY <1>5 DEF Books

(***************************************************************************)
(* The classes of the chart, as the reports read them off the codes.       *)
(***************************************************************************)
Heads(a) == {a, a \div 10, a \div 100, a \div 1000}

LEMMA ExpenseHeads ==
  /\ Heads(601) = {601, 60, 6, 0} /\ Heads(602) = {602, 60, 6, 0} /\ Heads(6031) = {6031, 603, 60, 6}
  /\ Heads(61) = {61, 6, 0} /\ Heads(62) = {62, 6, 0} /\ Heads(63) = {63, 6, 0}
  /\ Heads(64) = {64, 6, 0} /\ Heads(65) = {65, 6, 0}
  /\ Heads(661) = {661, 66, 6, 0} /\ Heads(664) = {664, 66, 6, 0}
  /\ Heads(671) = {671, 67, 6, 0} /\ Heads(681) = {681, 68, 6, 0}
  /\ Heads(81) = {81, 8, 0} /\ Heads(83) = {83, 8, 0} /\ Heads(87) = {87, 8, 0} /\ Heads(89) = {89, 8, 0}
BY DEF Heads

LEMMA RevenueHeads ==
  /\ Heads(701) = {701, 70, 7, 0} /\ Heads(706) = {706, 70, 7, 0} /\ Heads(707) = {707, 70, 7, 0}
  /\ Heads(71) = {71, 7, 0} /\ Heads(75) = {75, 7, 0} /\ Heads(77) = {77, 7, 0}
  /\ Heads(78) = {78, 7, 0} /\ Heads(79) = {79, 7, 0} /\ Heads(82) = {82, 8, 0} /\ Heads(84) = {84, 8, 0}
BY DEF Heads

LEMMA BalanceHeads ==
  /\ Heads(101) = {101, 10, 1, 0} /\ Heads(106) = {106, 10, 1, 0} /\ Heads(110) = {110, 11, 1, 0}
  /\ Heads(120) = {120, 12, 1, 0} /\ Heads(129) = {129, 12, 1, 0} /\ Heads(162) = {162, 16, 1, 0}
  /\ Heads(231) = {231, 23, 2, 0} /\ Heads(244) = {244, 24, 2, 0} /\ Heads(245) = {245, 24, 2, 0}
  /\ Heads(2831) = {2831, 283, 28, 2} /\ Heads(2844) = {2844, 284, 28, 2} /\ Heads(2845) = {2845, 284, 28, 2}
  /\ Heads(311) = {311, 31, 3, 0} /\ Heads(320) = {320, 32, 3, 0}
  /\ Heads(401) = {401, 40, 4, 0} /\ Heads(408) = {408, 40, 4, 0} /\ Heads(411) = {411, 41, 4, 0}
  /\ Heads(419) = {419, 41, 4, 0} /\ Heads(421) = {421, 42, 4, 0} /\ Heads(422) = {422, 42, 4, 0}
  /\ Heads(431) = {431, 43, 4, 0} /\ Heads(4431) = {4431, 443, 44, 4} /\ Heads(447) = {447, 44, 4, 0}
  /\ Heads(4452) = {4452, 445, 44, 4} /\ Heads(471) = {471, 47, 4, 0} /\ Heads(472) = {472, 47, 4, 0}
  /\ Heads(521) = {521, 52, 5, 0} /\ Heads(571) = {571, 57, 5, 0}
BY DEF Heads

LEMMA Starting ==
  ASSUME NEW a \in Chart, NEW p
  PROVE  StartsWith(a, p) <=> p \in Heads(a)
<1>1. a \in Int /\ a \div 1 = a
  BY ChartNat
<1> QED BY <1>1 DEF StartsWith, Heads

\* What the lines leave on some accounts of the chart.
Held(Y) == SumFunctionOnSet(Closing, Moving \cap Y)

LEMMA HeldIs ==
  ASSUME JournalOK
  PROVE  /\ \A Y : Held(Y) \in Int
         /\ \A Y, Z : Y \cap Z = {} => Held(Y \cup Z) = Held(Y) + Held(Z)
         /\ Held({}) = 0
<1>1. IsFiniteSet(Moving) /\ \A a \in Moving : Closing[a] \in Int
  BY MovingIs, AccountIs
<1>2. ASSUME NEW Y
      PROVE  Held(Y) \in Int
  <2>1. IsFiniteSet(Moving \cap Y)
    BY <1>1, FS_Subset
  <2>2. \A a \in Moving \cap Y : Closing[a] \in Int
    BY <1>1
  <2> QED BY <2>1, <2>2, SumInt DEF Held
<1>3. ASSUME NEW Y, NEW Z, Y \cap Z = {}
      PROVE  Held(Y \cup Z) = Held(Y) + Held(Z)
  <2> DEFINE T == Moving \cap Y
             U == Moving \cap Z
  <2>1. Summable(Closing, T) /\ Summable(Closing, U) /\ T \cap U = {}
    BY <1>1, <1>3, FS_Subset DEF Summable
  <2>2. Held(Y) = SumFunctionOnSet(Closing, T) /\ Held(Z) = SumFunctionOnSet(Closing, U)
    BY DEF Held
  <2>3. Moving \cap (Y \cup Z) = T \cup U
    OBVIOUS
  <2> HIDE DEF T, U
  <2>4. SumFunctionOnSet(Closing, T \cup U) = SumFunctionOnSet(Closing, T) + SumFunctionOnSet(Closing, U)
    BY <2>1, SumJoined
  <2> QED BY <2>2, <2>3, <2>4 DEF Held
<1>4. Held({}) = 0
  <2>1. Moving \cap {} = {}
    OBVIOUS
  <2> QED BY <2>1, SumEmpty DEF Held
<1> QED BY <1>2, <1>3, <1>4

LEMMA Weighed ==
  ASSUME JournalOK, NEW Y
  PROVE  Weigh(TrialBalance, Moving \cap Y) = Held(Y)
<1> DEFINE S == Moving \cap Y
           w == [a \in S |-> TrialBalance[a].debit - TrialBalance[a].credit]
<1>1. Weigh(TrialBalance, S) = SumFunctionOnSet(w, S)
  BY DEF Weigh, SumFunction
<1>2. IsFiniteSet(S) /\ \A a \in S : w[a] = Closing[a]
  BY MovingIs, AccountIs, FS_Subset
<1> HIDE DEF w
<1>3. SumFunctionOnSet(w, S) = SumFunctionOnSet(Closing, S)
  BY <1>2, SumSame
<1> QED BY <1>1, <1>3 DEF Held

LEMMA Charged ==
  ASSUME JournalOK, NEW P, NEW Y, \A a \in Chart : (\E p \in P : p \in Heads(a)) <=> a \in Y
  PROVE  /\ Under(TrialBalance, P) = Moving \cap Y
         /\ Charges(TrialBalance, P) = Held(Y)
<1>1. Under(TrialBalance, P) = Moving \cap Y
  BY MovingIs, Starting DEF Under
<1> QED BY <1>1, Weighed DEF Charges

LEMMA ExpensesHeld ==
  ASSUME JournalOK
  PROVE  /\ Charges(TrialBalance, {601}) = Held({601})
         /\ Charges(TrialBalance, {602}) = Held({602})
         /\ Charges(TrialBalance, {6031}) = Held({6031})
         /\ Charges(TrialBalance, {61, 62, 63}) = Held({61, 62, 63})
         /\ Charges(TrialBalance, {64}) = Held({64})
         /\ Charges(TrialBalance, {65}) = Held({65})
         /\ Charges(TrialBalance, {661, 664}) = Held({661, 664})
         /\ Charges(TrialBalance, {67}) = Held({671})
         /\ Charges(TrialBalance, {68, 69}) = Held({681})
         /\ Charges(TrialBalance, {81, 83}) = Held({81, 83})
         /\ Charges(TrialBalance, {87}) = Held({87})
         /\ Charges(TrialBalance, {89}) = Held({89})
<1>1. \A a \in Chart : (\E p \in {601} : p \in Heads(a)) <=> a \in {601}
  BY ExpenseHeads, RevenueHeads, BalanceHeads
    DEF Chart, Equity, Liability, Asset, Expense, Revenue, Receivable
<1>2. \A a \in Chart : (\E p \in {602} : p \in Heads(a)) <=> a \in {602}
  BY ExpenseHeads, RevenueHeads, BalanceHeads
    DEF Chart, Equity, Liability, Asset, Expense, Revenue, Receivable
<1>3. \A a \in Chart : (\E p \in {6031} : p \in Heads(a)) <=> a \in {6031}
  BY ExpenseHeads, RevenueHeads, BalanceHeads
    DEF Chart, Equity, Liability, Asset, Expense, Revenue, Receivable
<1>4. \A a \in Chart : (\E p \in {61, 62, 63} : p \in Heads(a)) <=> a \in {61, 62, 63}
  BY ExpenseHeads, RevenueHeads, BalanceHeads
    DEF Chart, Equity, Liability, Asset, Expense, Revenue, Receivable
<1>5. \A a \in Chart : (\E p \in {64} : p \in Heads(a)) <=> a \in {64}
  BY ExpenseHeads, RevenueHeads, BalanceHeads
    DEF Chart, Equity, Liability, Asset, Expense, Revenue, Receivable
<1>6. \A a \in Chart : (\E p \in {65} : p \in Heads(a)) <=> a \in {65}
  BY ExpenseHeads, RevenueHeads, BalanceHeads
    DEF Chart, Equity, Liability, Asset, Expense, Revenue, Receivable
<1>7. \A a \in Chart : (\E p \in {661, 664} : p \in Heads(a)) <=> a \in {661, 664}
  BY ExpenseHeads, RevenueHeads, BalanceHeads
    DEF Chart, Equity, Liability, Asset, Expense, Revenue, Receivable
<1>8. \A a \in Chart : (\E p \in {67} : p \in Heads(a)) <=> a \in {671}
  BY ExpenseHeads, RevenueHeads, BalanceHeads
    DEF Chart, Equity, Liability, Asset, Expense, Revenue, Receivable
<1>9. \A a \in Chart : (\E p \in {68, 69} : p \in Heads(a)) <=> a \in {681}
  BY ExpenseHeads, RevenueHeads, BalanceHeads
    DEF Chart, Equity, Liability, Asset, Expense, Revenue, Receivable
<1>10. \A a \in Chart : (\E p \in {81, 83} : p \in Heads(a)) <=> a \in {81, 83}
  BY ExpenseHeads, RevenueHeads, BalanceHeads
    DEF Chart, Equity, Liability, Asset, Expense, Revenue, Receivable
<1>11. \A a \in Chart : (\E p \in {87} : p \in Heads(a)) <=> a \in {87}
  BY ExpenseHeads, RevenueHeads, BalanceHeads
    DEF Chart, Equity, Liability, Asset, Expense, Revenue, Receivable
<1>12. \A a \in Chart : (\E p \in {89} : p \in Heads(a)) <=> a \in {89}
  BY ExpenseHeads, RevenueHeads, BalanceHeads
    DEF Chart, Equity, Liability, Asset, Expense, Revenue, Receivable
<1>13. Charges(TrialBalance, {601}) = Held({601})
  BY <1>1, Charged
<1>14. Charges(TrialBalance, {602}) = Held({602})
  BY <1>2, Charged
<1>15. Charges(TrialBalance, {6031}) = Held({6031})
  BY <1>3, Charged
<1>16. Charges(TrialBalance, {61, 62, 63}) = Held({61, 62, 63})
  BY <1>4, Charged
<1>17. Charges(TrialBalance, {64}) = Held({64})
  BY <1>5, Charged
<1>18. Charges(TrialBalance, {65}) = Held({65})
  BY <1>6, Charged
<1>19. Charges(TrialBalance, {661, 664}) = Held({661, 664})
  BY <1>7, Charged
<1>20. Charges(TrialBalance, {67}) = Held({671})
  BY <1>8, Charged
<1>21. Charges(TrialBalance, {68, 69}) = Held({681})
  BY <1>9, Charged
<1>22. Charges(TrialBalance, {81, 83}) = Held({81, 83})
  BY <1>10, Charged
<1>23. Charges(TrialBalance, {87}) = Held({87})
  BY <1>11, Charged
<1>24. Charges(TrialBalance, {89}) = Held({89})
  BY <1>12, Charged
<1> QED BY <1>13, <1>14, <1>15, <1>16, <1>17, <1>18, <1>19, <1>20, <1>21, <1>22, <1>23, <1>24

LEMMA ProductsHeld ==
  ASSUME JournalOK
  PROVE  /\ Charges(TrialBalance, {701}) = Held({701})
         /\ Charges(TrialBalance, {706, 707}) = Held({706, 707})
         /\ Charges(TrialBalance, {71}) = Held({71})
         /\ Charges(TrialBalance, {75, 78, 79}) = Held({75, 78, 79})
         /\ Charges(TrialBalance, {77}) = Held({77})
         /\ Charges(TrialBalance, {82, 84}) = Held({82, 84})
<1>1. \A a \in Chart : (\E p \in {701} : p \in Heads(a)) <=> a \in {701}
  BY ExpenseHeads, RevenueHeads, BalanceHeads
    DEF Chart, Equity, Liability, Asset, Expense, Revenue, Receivable
<1>2. \A a \in Chart : (\E p \in {706, 707} : p \in Heads(a)) <=> a \in {706, 707}
  BY ExpenseHeads, RevenueHeads, BalanceHeads
    DEF Chart, Equity, Liability, Asset, Expense, Revenue, Receivable
<1>3. \A a \in Chart : (\E p \in {71} : p \in Heads(a)) <=> a \in {71}
  BY ExpenseHeads, RevenueHeads, BalanceHeads
    DEF Chart, Equity, Liability, Asset, Expense, Revenue, Receivable
<1>4. \A a \in Chart : (\E p \in {75, 78, 79} : p \in Heads(a)) <=> a \in {75, 78, 79}
  BY ExpenseHeads, RevenueHeads, BalanceHeads
    DEF Chart, Equity, Liability, Asset, Expense, Revenue, Receivable
<1>5. \A a \in Chart : (\E p \in {77} : p \in Heads(a)) <=> a \in {77}
  BY ExpenseHeads, RevenueHeads, BalanceHeads
    DEF Chart, Equity, Liability, Asset, Expense, Revenue, Receivable
<1>6. \A a \in Chart : (\E p \in {82, 84} : p \in Heads(a)) <=> a \in {82, 84}
  BY ExpenseHeads, RevenueHeads, BalanceHeads
    DEF Chart, Equity, Liability, Asset, Expense, Revenue, Receivable
<1>7. Charges(TrialBalance, {701}) = Held({701})
  BY <1>1, Charged
<1>8. Charges(TrialBalance, {706, 707}) = Held({706, 707})
  BY <1>2, Charged
<1>9. Charges(TrialBalance, {71}) = Held({71})
  BY <1>3, Charged
<1>10. Charges(TrialBalance, {75, 78, 79}) = Held({75, 78, 79})
  BY <1>4, Charged
<1>11. Charges(TrialBalance, {77}) = Held({77})
  BY <1>5, Charged
<1>12. Charges(TrialBalance, {82, 84}) = Held({82, 84})
  BY <1>6, Charged
<1> QED BY <1>7, <1>8, <1>9, <1>10, <1>11, <1>12

Owned(c) == CASE c = 1 -> {}
              [] c = 2 -> {231, 244, 245, 2831, 2844, 2845}
              [] c = 3 -> {311, 320}
              [] c = 4 -> {411, 421, 4452, 471}
              [] c = 5 -> {521, 571}
Owing(c) == CASE c = 1 -> {101, 106, 110, 120, 129, 162}
              [] c = 4 -> {401, 408, 419, 422, 431, 4431, 447, 472}
              [] OTHER -> {}

LEMMA ClassesHeld ==
  ASSUME JournalOK
  PROVE  /\ TotalActif(TrialBalance) = Held(Owned(2)) + Held(Owned(3)) + Held(Owned(4)) + Held(Owned(5))
         /\ TotalPassif(TrialBalance) =
              ResultatNet(TrialBalance) - Held(Owing(1)) - Held(Owing(4)) - Held(Owing(5))
<1>1. \A a \in Chart : \A c \in 1..5 : (\E p \in {c} : p \in Heads(a)) <=> a \in Owned(c) \cup Owing(c)
  <2>1. \A a \in Chart : 1 \in Heads(a) <=> a \in Owned(1) \cup Owing(1)
    BY ExpenseHeads, RevenueHeads, BalanceHeads
      DEF Owned, Owing, Chart, Equity, Liability, Asset, Expense, Revenue, Receivable
  <2>2. \A a \in Chart : 2 \in Heads(a) <=> a \in Owned(2) \cup Owing(2)
    BY ExpenseHeads, RevenueHeads, BalanceHeads
      DEF Owned, Owing, Chart, Equity, Liability, Asset, Expense, Revenue, Receivable
  <2>3. \A a \in Chart : 3 \in Heads(a) <=> a \in Owned(3) \cup Owing(3)
    BY ExpenseHeads, RevenueHeads, BalanceHeads
      DEF Owned, Owing, Chart, Equity, Liability, Asset, Expense, Revenue, Receivable
  <2>4. \A a \in Chart : 4 \in Heads(a) <=> a \in Owned(4) \cup Owing(4)
    BY ExpenseHeads, RevenueHeads, BalanceHeads
      DEF Owned, Owing, Chart, Equity, Liability, Asset, Expense, Revenue, Receivable
  <2>5. \A a \in Chart : 5 \in Heads(a) <=> a \in Owned(5) \cup Owing(5)
    BY ExpenseHeads, RevenueHeads, BalanceHeads
      DEF Owned, Owing, Chart, Equity, Liability, Asset, Expense, Revenue, Receivable
  <2>6. \A c \in 1..5 : c \in {1, 2, 3, 4, 5}
    OBVIOUS
  <2> QED BY <2>1, <2>2, <2>3, <2>4, <2>5, <2>6
<1>2. ASSUME NEW c \in 1..5
      PROVE  OfClass(TrialBalance, c) = Moving \cap (Owned(c) \cup Owing(c))
  <2> DEFINE Y == Owned(c) \cup Owing(c)
  <2>1. \A a \in Chart : (\E p \in {c} : p \in Heads(a)) <=> a \in Y
    BY <1>1
  <2> HIDE DEF Y
  <2>2. Under(TrialBalance, {c}) = Moving \cap Y
    BY <2>1, Charged
  <2> QED BY <2>2 DEF OfClass, Y
<1>3. /\ Owned(2) \cup Owing(2) = Owned(2) /\ Owned(3) \cup Owing(3) = Owned(3)
      /\ Owned(1) \cup Owing(1) = Owing(1)
      /\ (Owned(4) \cup Owing(4)) \cap Asset = Owned(4)
      /\ (Owned(4) \cup Owing(4)) \cap Liability = Owing(4)
      /\ (Owned(5) \cup Owing(5)) \cap Asset = Owned(5)
      /\ (Owned(5) \cup Owing(5)) \cap Liability = Owing(5)
  BY DEF Owned, Owing, Asset, Liability, Receivable
<1>4. /\ OfClass(TrialBalance, 2) = Moving \cap Owned(2)
      /\ OfClass(TrialBalance, 3) = Moving \cap Owned(3)
      /\ OfClass(TrialBalance, 1) = Moving \cap Owing(1)
      /\ OfClass(TrialBalance, 4) \cap Asset = Moving \cap Owned(4)
      /\ OfClass(TrialBalance, 4) \cap Liability = Moving \cap Owing(4)
      /\ OfClass(TrialBalance, 5) \cap Asset = Moving \cap Owned(5)
      /\ OfClass(TrialBalance, 5) \cap Liability = Moving \cap Owing(5)
  <2>1. 1 \in 1..5 /\ 2 \in 1..5 /\ 3 \in 1..5 /\ 4 \in 1..5 /\ 5 \in 1..5
    OBVIOUS
  <2>2. \A M, Y, Z : (M \cap Y) \cap Z = M \cap (Y \cap Z)
    OBVIOUS
  <2> QED BY <1>2, <1>3, <2>1, <2>2
<1> QED BY <1>4, Weighed DEF TotalActif, TotalPassif

LEMMA FourHeld ==
  ASSUME JournalOK, NEW S, NEW T, NEW U, NEW W,
         S \cap T = {}, (S \cup T) \cap U = {}, (S \cup T \cup U) \cap W = {}
  PROVE  Held(S \cup T \cup U \cup W) = Held(S) + Held(T) + Held(U) + Held(W)
<1>1. Held(S \cup T) = Held(S) + Held(T)
  BY HeldIs
<1>2. Held(S \cup T \cup U) = Held(S \cup T) + Held(U)
  BY HeldIs
<1>3. Held(S \cup T \cup U \cup W) = Held(S \cup T \cup U) + Held(W)
  BY HeldIs
<1> QED BY <1>1, <1>2, <1>3, HeldIs

\* All the accounts of the chart, class by class.
LEMMA ExpenseHeld ==
  ASSUME JournalOK
  PROVE  Held(Expense) = Held({601}) + Held({602}) + Held({6031}) + Held({61, 62, 63})
                           + Held({64}) + Held({65}) + Held({661, 664}) + Held({671})
                           + Held({681}) + Held({81, 83}) + Held({87}) + Held({89})
<1> DEFINE A == {601} \cup {602} \cup {6031} \cup {61, 62, 63}
           B == {64} \cup {65} \cup {661, 664} \cup {671}
           C == {681} \cup {81, 83} \cup {87} \cup {89}
<1>1. Held(A) = Held({601}) + Held({602}) + Held({6031}) + Held({61, 62, 63})
  BY FourHeld
<1>2. Held(B) = Held({64}) + Held({65}) + Held({661, 664}) + Held({671})
  BY FourHeld
<1>3. Held(C) = Held({681}) + Held({81, 83}) + Held({87}) + Held({89})
  BY FourHeld
<1>4. A \cap B = {} /\ (A \cup B) \cap C = {} /\ (A \cup B \cup C) \cap {} = {}
  OBVIOUS
<1>5. Expense = A \cup B \cup C \cup {}
  BY DEF Expense
<1> HIDE DEF A, B, C
<1>6. Held(Expense) = Held(A) + Held(B) + Held(C) + Held({})
  BY <1>4, <1>5, FourHeld
<1> QED BY <1>1, <1>2, <1>3, <1>6, HeldIs

LEMMA RevenueHeld ==
  ASSUME JournalOK
  PROVE  Held(Revenue) = Held({701}) + Held({706, 707}) + Held({71}) + Held({75, 78, 79})
                           + Held({77}) + Held({82, 84})
<1> DEFINE A == {701} \cup {706, 707} \cup {71} \cup {75, 78, 79}
<1>1. Held(A) = Held({701}) + Held({706, 707}) + Held({71}) + Held({75, 78, 79})
  BY FourHeld
<1>2. A \cap {77} = {} /\ (A \cup {77}) \cap {82, 84} = {} /\ (A \cup {77} \cup {82, 84}) \cap {} = {}
  OBVIOUS
<1>3. Revenue = A \cup {77} \cup {82, 84} \cup {}
  BY DEF Revenue
<1> HIDE DEF A
<1>4. Held(Revenue) = Held(A) + Held({77}) + Held({82, 84}) + Held({})
  BY <1>2, <1>3, FourHeld
<1> QED BY <1>1, <1>4, HeldIs

LEMMA BalanceHeld ==
  ASSUME JournalOK
  PROVE  Held(Equity \cup Liability \cup Asset) =
           Held(Owned(2)) + Held(Owned(3)) + Held(Owned(4)) + Held(Owned(5))
             + Held(Owing(1)) + Held(Owing(4)) + Held(Owing(5))
<1> DEFINE A == Owned(2) \cup Owned(3) \cup Owned(4) \cup Owned(5)
<1>1. Held(A) = Held(Owned(2)) + Held(Owned(3)) + Held(Owned(4)) + Held(Owned(5))
  BY FourHeld DEF Owned
<1>2. A \cap Owing(1) = {} /\ (A \cup Owing(1)) \cap Owing(4) = {}
      /\ (A \cup Owing(1) \cup Owing(4)) \cap Owing(5) = {}
  BY DEF Owned, Owing
<1>3. Equity \cup Liability \cup Asset = A \cup Owing(1) \cup Owing(4) \cup Owing(5)
  BY DEF Owned, Owing, Equity, Liability, Asset, Receivable
<1> HIDE DEF A
<1>4. Held(Equity \cup Liability \cup Asset) = Held(A) + Held(Owing(1)) + Held(Owing(4)) + Held(Owing(5))
  BY <1>2, <1>3, FourHeld
<1> QED BY <1>1, <1>4, HeldIs

LEMMA ChartHeld ==
  ASSUME JournalOK
  PROVE  Books = Held(Equity \cup Liability \cup Asset) + Held(Expense) + Held(Revenue)
<1> DEFINE B == Equity \cup Liability \cup Asset
<1>1. B \cap Expense = {} /\ (B \cup Expense) \cap Revenue = {} /\ (B \cup Expense \cup Revenue) \cap {} = {}
  BY DEF Equity, Liability, Asset, Receivable, Expense, Revenue
<1>2. Chart = B \cup Expense \cup Revenue \cup {}
  BY DEF Chart
<1> HIDE DEF B
<1>3. Held(Chart) = Held(B) + Held(Expense) + Held(Revenue) + Held({})
  BY <1>1, <1>2, FourHeld
<1>4. Held(Chart) = Books
  <2>1. Moving \cap Chart = Moving
    BY MovingIs
  <2> QED BY <2>1, ByAccount DEF Held
<1> QED BY <1>3, <1>4, HeldIs DEF B

LEMMA SheetBalances ==
  ASSUME JournalOK
  PROVE  TotalActif(TrialBalance) - TotalPassif(TrialBalance) = Books
<1> DEFINE n == ResultatNet(TrialBalance)
<1>1. n = 0 - Held(Expense) - Held(Revenue)
  <2>1. \A Y : Held(Y) \in Int
    BY HeldIs
  <2> QED BY <2>1, ExpensesHeld, ProductsHeld, ExpenseHeld, RevenueHeld
        DEF ResultatNet, ResultatHAO, ResultatExploitation, ExcedentBrut, ValeurAjoutee,
            MargeCommerciale, Products
<1> HIDE DEF n
<1>2. TotalPassif(TrialBalance) = n - Held(Owing(1)) - Held(Owing(4)) - Held(Owing(5))
  BY ClassesHeld DEF n
<1> QED BY <1>1, <1>2, ClassesHeld, BalanceHeld, ChartHeld, HeldIs

LEMMA GapsBounded ==
  ASSUME JournalOK
  PROVE  Books \in 0 - Cardinality(EntryIds)..Cardinality(EntryIds)
<1>1. \A e \in EntryIds : AllGaps[e] \in {0 - 1, 0, 1}
  BY GapIs DEF AllGaps
<1>2. SumFunctionOnSet(AllGaps, EntryIds) \in 0 - Cardinality(EntryIds)..Cardinality(EntryIds)
  BY <1>1, FiniteBooks, SumOfUnits
<1> QED BY <1>2, ByEntry

LEMMA BooksAreBalanced ==
  ASSUME JournalOK
  PROVE  BooksBalance
<1> DEFINE gap == SumFunction([e \in EntryIds |-> Gap(Entry(e).lines)])
           kept == SumFunction([c \in Codes |-> JournalTotal(c, "debit") - JournalTotal(c, "credit")])
           left == SumFunction([a \in DOMAIN TrialBalance |-> ClosingBalance(a)])
<1>1. gap = Books
  BY ByEntry DEF AllGaps, SumFunction
<1>2. kept = gap
  BY <1>1, ByJournal, ByEntry
<1>3. left = gap
  BY <1>1, ByAccount, MovingIs DEF Closing, SumFunction
<1>4. TotalActif(TrialBalance) - TotalPassif(TrialBalance) = gap
  BY <1>1, SheetBalances
<1>5. gap \in 0 - Cardinality(EntryIds)..Cardinality(EntryIds)
  BY <1>1, GapsBounded
<1> QED BY <1>2, <1>3, <1>4, <1>5 DEF BooksBalance

(***************************************************************************)
(* The reports agree with the entries whatever was posted, and by whom:    *)
(* the balance sheet, the journals and the accounts are all out of balance *)
(* by the cents the entries accepted were, at most one for each.           *)
(***************************************************************************)
THEOREM ReportsAgree == Spec => []BooksBalance
<1>1. Typed => BooksBalance
  BY BooksAreBalanced DEF Typed
<1> QED BY <1>1, RequestsAreTyped, PTL

-----------------------------------------------------------------------------
(***************************************************************************)
(* What a sale brings to account 571: its CASH tenders less the change,    *)
(* which is taken off them in the order of the payments.                   *)
(***************************************************************************)
CashBefore(v, m) == {i \in Cash(v) : i < m}
Tenders(v)       == [n \in Cash(v) |-> Tender(v, n)]
Kept(v)          == [n \in Cash(v) |-> NetTender(v, n)]

LEMMA NetTenderIs ==
  ASSUME NEW v \in Tickets, NEW n \in Cash(v)
  PROVE  LET before == SumFunctionOnSet(Tenders(v), CashBefore(v, n))
             left   == Change(v) - before
             kept   == IF left <= 0 THEN 0 ELSE IF Tender(v, n) <= left THEN Tender(v, n) ELSE left
         IN /\ before \in Nat
            /\ NetTender(v, n) = Tender(v, n) - kept
            /\ NetTender(v, n) \in Nat
<1> DEFINE T == CashBefore(v, n)
           f == [m \in T |-> Tender(v, m)]
           before == SumFunctionOnSet(Tenders(v), T)
           left == Change(v) - before
           t == Tender(v, n)
           most == Max({0, left})
<1>1. T \subseteq Cash(v) /\ IsFiniteSet(T)
  BY Payments, FS_Subset DEF CashBefore
<1>2. \A m \in T : f[m] = Tenders(v)[m] /\ Tenders(v)[m] \in Nat
  BY <1>1, Payments DEF Tenders
<1>3. NetTender(v, n) = t - Min({t, Max({0, Change(v) - SumFunctionOnSet(f, T)})})
  BY DEF NetTender, CashBefore, SumFunction
<1>4. t \in Nat /\ Change(v) \in Nat
  BY Payments, Takings
<1> HIDE DEF T, f, t
<1>5. SumFunctionOnSet(f, T) = before /\ before \in Nat
  BY <1>1, <1>2, SumSame, SumNat
<1>6. NetTender(v, n) = t - Min({t, most})
  BY <1>3, <1>5
<1> HIDE DEF before
<1>7. left \in Int
  BY <1>4, <1>5
<1> HIDE DEF left
<1>8. most = IF left <= 0 THEN 0 ELSE left
  BY <1>7, MaxMin
<1> HIDE DEF most
<1>9. most \in Nat /\ Min({t, most}) = IF t <= most THEN t ELSE most
  <2>1. most \in Nat
    BY <1>7, <1>8
  <2>2. t \in Int /\ most \in Int
    BY <1>4, <2>1
  <2>3. Min({t, most}) = IF t <= most THEN t ELSE most
    BY <2>2, MaxMin
  <2> QED BY <2>1, <2>3
<1> QED BY <1>4, <1>5, <1>6, <1>7, <1>8, <1>9 DEF before, left, T, t

\* Of the first tenders, as much is kept as the change leaves.
LEMMA KeptSoFar ==
  ASSUME NEW v \in Tickets, NEW m \in 1..(Len(Ticket[v].payments) + 1)
  PROVE  LET G == SumFunctionOnSet(Tenders(v), CashBefore(v, m))
             H == SumFunctionOnSet(Kept(v), CashBefore(v, m))
         IN G \in Nat /\ H = G - (IF Change(v) <= G THEN Change(v) ELSE G)
<1> DEFINE N == Len(Ticket[v].payments)
           C == Change(v)
           G(n) == SumFunctionOnSet(Tenders(v), CashBefore(v, n))
           H(n) == SumFunctionOnSet(Kept(v), CashBefore(v, n))
           Holds(n) == G(n) \in Nat /\ H(n) = G(n) - (IF C <= G(n) THEN C ELSE G(n))
           Wrong == {n \in 1..(N + 1) : ~Holds(n)}
<1>1. N \in Nat /\ C \in Nat /\ Cash(v) \subseteq 1..N
  BY Payments, Takings
<1>2. \A n : IsFiniteSet(CashBefore(v, n)) /\ CashBefore(v, n) \subseteq Cash(v)
  BY Payments, FS_Subset DEF CashBefore
<1>3. \A n \in Cash(v) : Tenders(v)[n] \in Nat /\ Kept(v)[n] \in Nat
  <2> SUFFICES ASSUME NEW n \in Cash(v)
               PROVE  Tenders(v)[n] \in Nat /\ Kept(v)[n] \in Nat
    OBVIOUS
  <2>1. Tender(v, n) \in Nat
    BY Payments
  <2>2. NetTender(v, n) \in Nat
    BY NetTenderIs
  <2>3. Tenders(v)[n] = Tender(v, n) /\ Kept(v)[n] = NetTender(v, n)
    BY DEF Tenders, Kept
  <2> QED BY <2>1, <2>2, <2>3
<1> SUFFICES ASSUME Wrong # {} PROVE FALSE
  OBVIOUS
<1>4. PICK n \in Wrong : \A i \in Wrong : n <= i
  <2>1. Wrong \in SUBSET Nat
    BY <1>1
  <2> HIDE DEF Wrong
  <2> QED BY <2>1, LeastElement
<1>5. n \in 1..(N + 1) /\ ~Holds(n)
  BY <1>4
<1>6. n # 1
  <2>1. CashBefore(v, 1) = {}
    BY <1>1 DEF CashBefore
  <2>2. G(1) = 0 /\ H(1) = 0
    BY <2>1, SumEmpty
  <2>3. Holds(1)
    BY <1>1, <2>2
  <2> QED BY <1>5, <2>3
<1> DEFINE p == n - 1
<1>7. p \in 1..N /\ n = p + 1
  BY <1>1, <1>5, <1>6
<1>8. Holds(p)
  <2>1. p \in 1..(N + 1) /\ ~(n <= p)
    BY <1>1, <1>7
  <2> HIDE DEF p, Holds
  <2> QED BY <1>4, <2>1
<1> HIDE DEF p
<1>9. CASE p \notin Cash(v)
  <2>1. CashBefore(v, n) = CashBefore(v, p)
    BY <1>1, <1>7, <1>9 DEF CashBefore
  <2> QED BY <1>5, <1>8, <2>1
<1>10. CASE p \in Cash(v)
  <2> DEFINE B == CashBefore(v, p)
             t == Tender(v, p)
  <2>1. CashBefore(v, n) = B \cup {p} /\ p \notin B
    BY <1>1, <1>7, <1>10 DEF CashBefore
  <2>2. IsFiniteSet(B) /\ \A i \in B \cup {p} : Tenders(v)[i] \in Int /\ Kept(v)[i] \in Int
    BY <1>2, <1>3, <1>10
  <2>3. Tenders(v)[p] = t /\ Kept(v)[p] = NetTender(v, p)
    BY <1>10 DEF Tenders, Kept
  <2> HIDE DEF B, t
  <2>4. G(n) = t + SumFunctionOnSet(Tenders(v), B) /\ H(n) = NetTender(v, p) + SumFunctionOnSet(Kept(v), B)
    BY <2>1, <2>2, <2>3, SumAdd
  <2>5. G(n) = t + G(p) /\ H(n) = NetTender(v, p) + H(p)
    BY <2>4 DEF B
  <2>6. t \in Nat
    BY <1>3, <1>10, <2>3
  <2> DEFINE left == C - G(p)
  <2>7. NetTender(v, p) = t - (IF left <= 0 THEN 0 ELSE IF t <= left THEN t ELSE left)
    BY <1>10, NetTenderIs DEF t
  <2> DEFINE g == G(p)
             h == H(p)
             w == NetTender(v, p)
  <2>8. g \in Nat /\ h = g - (IF C <= g THEN C ELSE g)
    BY <1>8
  <2>9. G(n) = t + g /\ H(n) = w + h /\ w = t - (IF C - g <= 0 THEN 0 ELSE IF t <= C - g THEN t ELSE C - g)
    BY <2>5, <2>7
  <2> HIDE DEF g, h, w, G, H
  <2>10. Holds(n)
    <3> HIDE DEF C
    <3>1. C \in Nat
      BY <1>1
    <3>2. G(n) \in Nat
      BY <2>6, <2>8, <2>9
    <3>3. CASE C <= g
      BY <2>6, <2>8, <2>9, <3>1, <3>2, <3>3
    <3>4. CASE C > g /\ t <= C - g
      BY <2>6, <2>8, <2>9, <3>1, <3>2, <3>4
    <3>5. CASE C > g /\ t > C - g
      BY <2>6, <2>8, <2>9, <3>1, <3>2, <3>5
    <3>6. C - g \in Int
      BY <2>8, <3>1
    <3> QED BY <2>6, <2>8, <3>1, <3>3, <3>4, <3>5, <3>6
  <2> QED BY <1>5, <2>10
<1> QED BY <1>9, <1>10

LEMMA SaleKeeps ==
  ASSUME NEW v \in Tickets, Covers(v)
  PROVE  SumFunctionOnSet(Kept(v), Cash(v)) = Tendered(v) - Change(v)
<1> DEFINE n == Len(Ticket[v].payments) + 1
<1>1. n \in 1..(Len(Ticket[v].payments) + 1) /\ CashBefore(v, n) = Cash(v)
  BY Payments DEF CashBefore
<1>2. Tendered(v) = SumFunctionOnSet(Tenders(v), Cash(v))
  BY DEF Tendered, Tenders, SumFunction
<1>3. Change(v) <= Tendered(v)
  <2>1. CASE Numbers(v) = Cash(v)
    <3>1. Tendered(v) = Paid(v)
      BY <2>1 DEF Tendered, Paid, Numbers
    <3> QED BY <3>1, Takings, Payments
  <2>2. CASE Numbers(v) # Cash(v)
    <3>1. Paid(v) >= Due(v) /\ Paid(v) <= Due(v)
      BY <2>2 DEF Covers, Numbers
    <3> QED BY <3>1, Takings, Payments
  <2> QED BY <2>1, <2>2
<1> HIDE DEF n
<1>4. SumFunctionOnSet(Kept(v), Cash(v)) =
        Tendered(v) - (IF Change(v) <= Tendered(v) THEN Change(v) ELSE Tendered(v))
  BY <1>1, <1>2, KeptSoFar
<1> QED BY <1>3, <1>4

(***************************************************************************)
(* What a document with one entry, or none, leaves on an account.          *)
(***************************************************************************)
Lying(d, a) == {i \in LineIds : i[1][1] = d /\ Line(i).account = a}

LEMMA NoneLying ==
  ASSUME NEW d, journal[d] = <<>>
  PROVE  (\A a : Lying(d, a) = {}) /\ OnTill(d) = 0
<1>1. DOMAIN journal[d] = {}
  OBVIOUS
<1>2. \A a : Lying(d, a) = {}
  BY <1>1, EntryIn, LineIn DEF Lying
<1> DEFINE f == [l \in Lying(d, 571) |-> Line(l).debit - Line(l).credit]
<1>3. OnTill(d) = SumFunctionOnSet(f, Lying(d, 571))
  BY DEF OnTill, Lying, SumFunction
<1> HIDE DEF f
<1>4. Lying(d, 571) = {}
  BY <1>2
<1>5. SumFunctionOnSet(f, {}) = 0
  BY SumEmpty
<1> QED BY <1>2, <1>3, <1>4, <1>5

LEMMA OneLying ==
  ASSUME NEW d \in Docs, NEW code, NEW lines, journal[d] = <<[code |-> code, lines |-> lines]>>,
         IsFiniteSet(DOMAIN lines), \A n \in DOMAIN lines : lines[n].debit \in Int /\ lines[n].credit \in Int
  PROVE  OnTill(d) = SumFunctionOnSet([n \in DOMAIN lines |-> Swing(lines[n])],
                                      {n \in DOMAIN lines : lines[n].account = 571})
<1> DEFINE T == {n \in DOMAIN lines : lines[n].account = 571}
           h == [n \in DOMAIN lines |-> Swing(lines[n])]
           m == [n \in T |-> <<<<d, 1>>, n>>]
           f == [l \in Lying(d, 571) |-> Line(l).debit - Line(l).credit]
<1>1. OnTill(d) = SumFunctionOnSet(f, Lying(d, 571))
  BY DEF OnTill, Lying, SumFunction
<1>2. DOMAIN journal[d] = {1} /\ journal[d][1].lines = lines
  <2>1. \A x : DOMAIN <<x>> = {1} /\ <<x>>[1] = x
    OBVIOUS
  <2>2. journal[d][1] = [code |-> code, lines |-> lines] /\ DOMAIN journal[d] = {1}
    BY <2>1
  <2> QED BY <2>2
<1>3. <<d, 1>> \in EntryIds /\ Entry(<<d, 1>>).lines = lines
  BY <1>2, EntryIn
<1>4. ASSUME NEW n \in T
      PROVE  m[n] \in Lying(d, 571) /\ h[n] = f[m[n]] /\ h[n] \in Int
  <2>1. m[n] \in LineIds /\ Line(m[n]) = lines[n] /\ m[n][1][1] = d
    BY <1>3, LineIn
  <2> QED BY <2>1 DEF Lying, Swing
<1>5. ASSUME NEW l \in Lying(d, 571)
      PROVE  l[2] \in T /\ l = m[l[2]]
  <2>1. l \in LineIds /\ l[1][1] = d /\ Line(l).account = 571
    BY DEF Lying
  <2>2. PICK e \in EntryIds : \E n \in DOMAIN Entry(e).lines : l = <<e, n>>
    BY <2>1, LineIn
  <2>3. PICK n \in DOMAIN Entry(e).lines : l = <<e, n>>
    BY <2>2
  <2>4. e = <<d, 1>>
    BY <1>2, <2>1, <2>3, EntryIn
  <2>5. Line(l) = lines[n] /\ n \in DOMAIN lines
    BY <1>3, <2>3, <2>4, LineIn
  <2> QED BY <2>1, <2>3, <2>4, <2>5
<1>6. Lying(d, 571) = {m[n] : n \in T}
  <2>1. \A n \in T : m[n] \in Lying(d, 571)
    BY <1>4
  <2>2. \A l \in Lying(d, 571) : l[2] \in T /\ l = m[l[2]]
    BY <1>5
  <2> HIDE DEF T, m
  <2> QED BY <2>1, <2>2
<1>7. IsFiniteSet(T) /\ \A s, t \in T : m[s] = m[t] => s = t
  BY FS_Subset
<1> HIDE DEF h, f, m, T
<1>8. SumFunctionOnSet(f, {m[n] : n \in T}) = SumFunctionOnSet(h, T)
  BY <1>4, <1>7, SumRenamed
<1> QED BY <1>1, <1>6, <1>8 DEF h, T

SaleEntry(v) == [code |-> "VE", lines |-> SaleLines(v)]
VarianceEntries(s) ==
  IF Variance(s) = 0 THEN <<>> ELSE <<[code |-> "CA", lines |-> VarianceLines(s)]>>

LEMMA SaleOnTill ==
  ASSUME NEW v \in Tickets, Covers(v), journal[v] = <<SaleEntry(v)>>
  PROVE  OnTill(v) = Tendered(v) - Change(v)
<1> DEFINE L == SaleLines(v)
           D == DOMAIN L
           T == {n \in D : L[n].account = 571}
           h == [n \in D |-> Swing(L[n])]
           C == Cash(v)
           N == Len(Ticket[v].payments)
<1>1. IsFiniteSet(D) /\ \A n \in D : L[n].debit \in Int /\ L[n].credit \in Int
  BY SaleLined DEF Lined, Move
<1>2. OnTill(v) = SumFunctionOnSet(h, T)
  <2>1. v \in Docs /\ journal[v] = <<[code |-> "VE", lines |-> L]>>
    BY AreDocs DEF SaleEntry, TreasuryDocs
  <2> HIDE DEF L
  <2> QED BY <1>1, <2>1, OneLying
<1>3. N \in Nat /\ C \subseteq 1..N /\ IsFiniteSet(C)
  BY Payments, FS_Subset
<1>4. ASSUME NEW n \in 1..N
      PROVE  SaleLine(v, n) = Debit(AccountOf(Ticket[v].payments[n].method), NetTender(v, n))
  BY <1>3 DEF SaleLine
<1>5. ASSUME NEW n \in (N + 1)..(N + 2)
      PROVE  SaleLine(v, n) \in {Credit(701, Ticket[v].ht), Credit(4431, Ticket[v].tva)}
  BY <1>3 DEF SaleLine
<1>6. ASSUME NEW n \in 1..N
      PROVE  n \in C <=> AccountOf(Ticket[v].payments[n].method) = 571
  BY <1>6, Payments DEF AccountOf, Cash, Numbers
<1>7. ASSUME NEW n \in C
      PROVE  n \in T \/ (n \notin D /\ NetTender(v, n) = 0)
  <2>1. NetTender(v, n) \in Nat
    BY NetTenderIs
  <2>2. SaleLine(v, n) = [account |-> 571, debit |-> NetTender(v, n), credit |-> 0]
    BY <1>3, <1>4, <1>6 DEF Debit
  <2>3. NetTender(v, n) + 0 > 0 <=> IfAny(SaleLine(v, n)) # <<>>
    BY <2>2 DEF IfAny
  <2>4. n \in D <=> IfAny(SaleLine(v, n)) # <<>>
    BY <1>3 DEF SaleLines
  <2>5. n \in D => L[n] = SaleLine(v, n)
    BY DEF SaleLines
  <2> QED BY <2>1, <2>2, <2>3, <2>4, <2>5
<1>8. ASSUME NEW n \in T
      PROVE  n \in C /\ h[n] = NetTender(v, n)
  <2>1. n \in 1..(N + 2) /\ L[n] = SaleLine(v, n)
    BY DEF SaleLines
  <2>2. n \in 1..N
    <3>1. 1..(N + 2) = (1..N) \cup ((N + 1)..(N + 2))
      BY <1>3
    <3>2. SaleLine(v, n).account = 571
      BY <2>1
    <3>3. n \notin (N + 1)..(N + 2)
      BY <1>5, <3>2 DEF Credit
    <3> QED BY <2>1, <3>1, <3>3
  <2>3. L[n] = Debit(AccountOf(Ticket[v].payments[n].method), NetTender(v, n))
    BY <1>4, <2>1, <2>2
  <2>4. n \in C
    BY <1>6, <2>2, <2>3 DEF Debit
  <2>5. NetTender(v, n) \in Nat
    BY <2>4, NetTenderIs
  <2> QED BY <2>3, <2>4, <2>5 DEF Debit, Swing
<1>9. T = C \ {n \in C : n \notin D} /\ {n \in C : n \notin D} \subseteq C
  BY <1>7, <1>8
<1>10. \A n \in C : Kept(v)[n] = NetTender(v, n) /\ Kept(v)[n] \in Int
  BY NetTenderIs DEF Kept
<1> DEFINE Z == {n \in C : n \notin D}
<1>11. \A n \in Z : Kept(v)[n] = 0
  BY <1>7, <1>10
<1>12. \A n \in T : h[n] = Kept(v)[n]
  BY <1>8, <1>10
<1>13. Z \subseteq C /\ T = C \ Z
  BY <1>9
<1>14. IsFiniteSet(Z) /\ IsFiniteSet(T)
  BY <1>3, <1>13, FS_Subset
<1> HIDE DEF Z, T, h, C
<1>15. SumFunctionOnSet(Kept(v), C) = SumFunctionOnSet(Kept(v), Z) + SumFunctionOnSet(Kept(v), T)
  <2>1. Z \cap T = {} /\ C = Z \cup T
    BY <1>13
  <2>2. Summable(Kept(v), Z) /\ Summable(Kept(v), T)
    BY <1>10, <1>13, <1>14 DEF Summable
  <2> QED BY <2>1, <2>2, SumJoined
<1>16. SumFunctionOnSet(Kept(v), Z) = 0
  BY <1>11, <1>14, SumZero
<1>17. SumFunctionOnSet(h, T) = SumFunctionOnSet(Kept(v), T)
  BY <1>12, <1>14, SumSame
<1>18. SumFunctionOnSet(Kept(v), T) \in Int
  <2>1. \A n \in T : Kept(v)[n] \in Int
    BY <1>10, <1>13
  <2> QED BY <1>14, <2>1, SumInt
<1>19. SumFunctionOnSet(Kept(v), C) = Tendered(v) - Change(v)
  BY SaleKeeps DEF C
<1> QED BY <1>2, <1>15, <1>16, <1>17, <1>18, <1>19

LEMMA VarianceOnTill ==
  ASSUME TreasuryTyped, NEW s \in DOMAIN Sessions, journal[s] = VarianceEntries(s)
  PROVE  OnTill(s) = Variance(s)
<1> DEFINE V == Variance(s)
           L == VarianceLines(s)
           D == DOMAIN L
           T == {n \in D : L[n].account = 571}
           h == [n \in D |-> Swing(L[n])]
<1>1. V \in Int /\ Lined(L)
  BY VarianceLined
<1>2. CASE V = 0
  <2>1. journal[s] = <<>>
    BY <1>2 DEF VarianceEntries
  <2> QED BY <1>2, <2>1, NoneLying
<1>3. CASE V # 0
  <2>1. OnTill(s) = SumFunctionOnSet(h, T)
    <3>1. s \in Docs
      BY AreDocs DEF TreasuryDocs
    <3>2. journal[s] = <<[code |-> "CA", lines |-> L]>>
      BY <1>3 DEF VarianceEntries
    <3>3. IsFiniteSet(DOMAIN L) /\ \A n \in DOMAIN L : L[n].debit \in Int /\ L[n].credit \in Int
      BY <1>1 DEF Lined, Move
    <3> HIDE DEF L
    <3> QED BY <3>1, <3>2, <3>3, OneLying
  <2>2. \E n \in D : T = {n} /\ h[n] = V
    <3>1. \A x, y : /\ DOMAIN <<x, y>> = {1, 2} /\ <<x, y>>[1] = x /\ <<x, y>>[2] = y
      OBVIOUS
    <3>2. CASE V < 0
      <4>1. L = <<Debit(65, 0 - V), Credit(571, 0 - V)>>
        BY <3>2 DEF VarianceLines
      <4>2. D = {1, 2} /\ L[1] = Debit(65, 0 - V) /\ L[2] = Credit(571, 0 - V)
        BY <3>1, <4>1
      <4>3. L[1].account = 65 /\ L[2].account = 571 /\ L[2].debit = 0 /\ L[2].credit = 0 - V
        BY <4>2 DEF Debit, Credit
      <4> HIDE DEF L, V
      <4>4. T = {2}
        BY <4>2, <4>3
      <4>5. 2 \in D /\ h[2] = V
        BY <1>1, <4>2, <4>3 DEF Swing
      <4> QED BY <4>4, <4>5
    <3>3. CASE ~(V < 0)
      <4>1. L = <<Debit(571, V), Credit(75, V)>>
        BY <3>3 DEF VarianceLines
      <4>2. D = {1, 2} /\ L[1] = Debit(571, V) /\ L[2] = Credit(75, V)
        BY <3>1, <4>1
      <4>3. L[1].account = 571 /\ L[2].account = 75 /\ L[1].debit = V /\ L[1].credit = 0
        BY <4>2 DEF Debit, Credit
      <4> HIDE DEF L, V
      <4>4. T = {1}
        BY <4>2, <4>3
      <4>5. 1 \in D /\ h[1] = V
        BY <1>1, <4>2, <4>3 DEF Swing
      <4> QED BY <4>4, <4>5
    <3> QED BY <3>2, <3>3
  <2>3. PICK n \in D : T = {n} /\ h[n] = V
    BY <2>2
  <2> HIDE DEF T, h, V
  <2> QED BY <1>1, <2>1, <2>3, SumOne DEF V
<1> QED BY <1>2, <1>3

-----------------------------------------------------------------------------
(***************************************************************************)
(* The till.  A committed sale nothing disturbed has its entry, or the     *)
(* request that makes it.  A session nothing disturbed is open while its   *)
(* takings are summed; unless a sale joined it since, what was summed is   *)
(* what its sales tendered; and once it is closed and its request is gone, *)
(* the difference is booked.                                               *)
(***************************************************************************)
Expected(s) == Opening + SumFunction([v \in InSession(s) |-> Tendered(v)])

SaleSound(v) ==
  /\ v \notin sold => journal[v] = <<>> /\ InFlight(v) = {}
  /\ v \in sold => Covers(v)
  /\ v \in sold /\ Undisturbed(v) =>
       IF Posts(v, "post_sale") THEN journal[v] = <<>> ELSE journal[v] = <<SaleEntry(v)>>

TillWhole(s) ==
  /\ Posts(s, "sum_takings") \/ Posts(s, "close_session") => session[s].status = "OPEN"
  /\ Posts(s, "post_variance") => session[s].status = "CLOSED"
  /\ journal[s] = IF session[s].status = "CLOSED" /\ ~Posts(s, "post_variance")
                  THEN VarianceEntries(s) ELSE <<>>
  /\ s \notin late =>
       /\ \A k \in InFlight(s) : At(k, "close_session") => Figure(k) = Expected(s)
       /\ session[s].status = "CLOSED" => session[s].expected = Expected(s)

TillSound(s) == Undisturbed(s) => TillWhole(s)

LEMMA SaleKept ==
  ASSUME NEW v \in Tickets, SaleSound(v), crossed \subseteq crossed', cut \subseteq cut',
         v \in sold' <=> v \in sold, journal'[v] = journal[v],
         \/ v \in cut' /\ InFlight(v)' = {}
         \/ \A j \in Slots : call[j].doc = v \/ call'[j].doc = v => call'[j] = call[j]
  PROVE  SaleSound(v)'
<1>1. CASE v \in cut' /\ InFlight(v)' = {}
  BY <1>1 DEF SaleSound, Undisturbed, Covers, SaleEntry
<1>2. CASE \A j \in Slots : call[j].doc = v \/ call'[j].doc = v => call'[j] = call[j]
  <2>1. InFlight(v)' = InFlight(v) /\ \A j \in InFlight(v) : call'[j] = call[j]
    BY <1>2 DEF InFlight
  <2>2. Posts(v, "post_sale")' <=> Posts(v, "post_sale")
    BY <2>1 DEF Posts
  <2>3. Undisturbed(v)' => Undisturbed(v)
    BY DEF Undisturbed
  <2> QED BY <2>1, <2>2, <2>3 DEF SaleSound
<1> QED BY <1>1, <1>2

LEMMA TillKept ==
  ASSUME NEW s \in DOMAIN Sessions, TillSound(s), crossed \subseteq crossed', cut \subseteq cut',
         s \in crossed' \cup cut' \/
           /\ \A j \in Slots : call[j].doc = s \/ call'[j].doc = s => call'[j] = call[j]
           /\ session'[s] = session[s] /\ journal'[s] = journal[s]
           /\ InSession(s)' = InSession(s) /\ (s \in late => s \in late')
  PROVE  TillSound(s)'
<1> SUFFICES ASSUME Undisturbed(s)'
             PROVE  TillWhole(s)'
  BY DEF TillSound
<1>1. Undisturbed(s) /\ TillWhole(s)
  BY DEF TillSound, Undisturbed
<1>2. /\ \A j \in Slots : call[j].doc = s \/ call'[j].doc = s => call'[j] = call[j]
      /\ session'[s] = session[s] /\ journal'[s] = journal[s]
      /\ InSession(s)' = InSession(s) /\ (s \in late => s \in late')
  BY DEF Undisturbed
<1>3. InFlight(s)' = InFlight(s) /\ \A j \in InFlight(s) : call'[j] = call[j]
  BY <1>2 DEF InFlight
<1>4. /\ \A a : Posts(s, a)' <=> Posts(s, a)
      /\ \A k \in InFlight(s) : (At(k, "close_session")' <=> At(k, "close_session"))
                                /\ Figure(k)' = Figure(k)
  BY <1>3 DEF Posts, At, Figure
<1>5. Expected(s)' = Expected(s) /\ VarianceEntries(s)' = VarianceEntries(s)
  BY <1>2 DEF Expected, VarianceEntries, Variance, VarianceLines
<1> QED BY <1>1, <1>2, <1>3, <1>4, <1>5 DEF TillWhole

LEMMA SalesKeepSound ==
  ASSUME Typed, NEW k \in Slots, TreasuryStep(k), NEW v \in Tickets, SaleSound(v)
  PROVE  SaleSound(v)'
<1> USE DEF Typed
<1>0. /\ Placed(call[k]) /\ v \in Docs /\ v # None
      /\ v \notin Registers /\ v \notin DOMAIN Sessions /\ v \notin Transfers
  BY AreDocs, Kinds DEF Served, TreasuryDocs
<1>a. ASSUME NEW place, NEW doc, NEW sum, NEW todo, Puts(k, place, doc, sum, todo), doc # v,
             call[k].doc # v, journal'[v] = journal[v], v \in sold' <=> v \in sold
      PROVE  SaleSound(v)'
  BY <1>a, SaleKept DEF Puts
<1>1. ASSUME NEW u \in Transfers, CreateTransfer(k, u)
      PROVE  SaleSound(v)'
  <2>1. Puts(k, "free", None, call[k].sum, call[k].todo) /\ call[k].doc = None
    BY <1>1, AtOncePuts DEF CreateTransfer
  <2> QED BY <1>0, <1>1, <1>a, <2>1 DEF CreateTransfer
<1>2. ASSUME \/ \E u \in Transfers : CompleteTransfer(k, u) \/ CancelTransfer(k, u)
             \/ \E r \in Registers : OpenSession(k, r)
             \/ \E s \in DOMAIN Sessions : CloseSession(k, s)
      PROVE  SaleSound(v)'
  <2>1. PICK u \in Transfers \cup Registers \cup DOMAIN Sessions : \E place : Enter(k, place, u, 0, <<>>)
    BY <1>2 DEF CompleteTransfer, CancelTransfer, OpenSession, CloseSession
  <2>2. UNCHANGED <<journal, sold>>
    BY <1>2 DEF CompleteTransfer, CancelTransfer, OpenSession, CloseSession, treasuryVars
  <2>3. PICK place : Puts(k, place, u, 0, <<>>) /\ call[k].doc = None
    BY <2>1, EnterPuts
  <2> QED BY <1>0, <1>a, <2>2, <2>3
<1>3. CASE PostTransfer(k)
  <2>1. /\ call[k].doc \in Transfers
        /\ Puts(k, "mark_transfer", call[k].doc, call[k].sum, call[k].todo)
    BY <1>0, <1>3, GotoPuts DEF PostTransfer, At, Placed, ForTreasury
  <2>2. journal'[v] = journal[v] /\ UNCHANGED sold
    BY <1>0, <1>3, <2>1, AreDocs, Added DEF PostTransfer, Doc, treasuryVars, TreasuryDocs
  <2> QED BY <1>0, <1>a, <2>1, <2>2
<1>4. CASE TransferUnposted(k) \/ MarkTransfer(k) \/ MarkCancelled(k) \/ InsertSession(k)
             \/ VarianceUnposted(k)
  <2>1. /\ Puts(k, "free", None, 0, <<>>) /\ UNCHANGED <<journal, sold>>
        /\ call[k].doc \in Transfers \cup Registers \cup DOMAIN Sessions
    BY <1>0, <1>4, LeavePuts
      DEF TransferUnposted, MarkTransfer, MarkCancelled, InsertSession, VarianceUnposted,
          At, Placed, ForTreasury, treasuryVars
  <2> QED BY <1>0, <1>a, <2>1
<1>5. ASSUME NEW w \in Tickets, Checkout(k, w)
      PROVE  SaleSound(v)'
  <2>1. Puts(k, "post_sale", w, 0, <<>>) /\ call[k].doc = None
    BY <1>5, EnterPuts DEF Checkout
  <2>2. UNCHANGED journal /\ sold' = sold \cup {w} /\ w \notin sold /\ Covers(w)
    BY <1>5 DEF Checkout
  <2>3. CASE w # v
    BY <1>0, <1>a, <2>1, <2>2, <2>3
  <2>4. CASE w = v
    <3>1. Posts(v, "post_sale")' /\ Covers(v)'
      BY <2>1, <2>2, <2>4 DEF Puts, Posts, InFlight, Covers
    <3> QED BY <2>2, <2>4, <3>1 DEF SaleSound
  <2> QED BY <2>3, <2>4
<1>6. CASE PostSale(k)
  <2> DEFINE w == call[k].doc
  <2>1. /\ w \in Tickets /\ Puts(k, "free", None, 0, <<>>) /\ UNCHANGED sold
        /\ call[k].at = "post_sale"
    BY <1>0, <1>6, LeavePuts DEF PostSale, At, Placed, ForTreasury, treasuryVars
  <2>2. /\ \A d \in Docs \ {w} : journal'[d] = journal[d]
        /\ journal'[w] = Append(journal[w], SaleEntry(w))
    BY <1>6, <2>1, AreDocs, Added DEF PostSale, Doc, SaleEntry, TreasuryDocs
  <2>3. CASE w # v
    BY <1>0, <1>a, <2>1, <2>2, <2>3
  <2>4. CASE w = v
    <3>1. v \in sold /\ Covers(v)
      BY <2>4 DEF SaleSound, InFlight
    <3>2. Undisturbed(v)' => /\ Undisturbed(v) /\ InFlight(v) = {k}
      BY <1>0, <2>1, <2>4, OnlyOne DEF Undisturbed, Puts
    <3>3. InFlight(v) = {k} => Posts(v, "post_sale") /\ ~Posts(v, "post_sale")'
      BY <1>0, <2>1 DEF Puts, Posts, InFlight
    <3>4. \A e : Append(<<>>, e) = <<e>>
      OBVIOUS
    <3>5. Undisturbed(v)' => journal'[v] = <<SaleEntry(v)>>
      BY <2>2, <2>4, <3>1, <3>2, <3>3, <3>4 DEF SaleSound
    <3> QED BY <2>1, <3>1, <3>2, <3>3, <3>5 DEF SaleSound, Covers, SaleEntry
  <2> QED BY <2>3, <2>4
<1>7. CASE SaleUnposted(k)
  <2> DEFINE w == call[k].doc
  <2>1. /\ Puts(k, "free", None, 0, <<>>) /\ UNCHANGED <<journal, sold>> /\ w \in cut'
    BY <1>7, LeavePuts DEF SaleUnposted, treasuryVars
  <2>2. CASE w # v
    BY <1>0, <1>a, <2>1, <2>2
  <2>3. CASE w = v
    <3>1. v \in sold /\ Covers(v) /\ ~Undisturbed(v)'
      BY <2>1, <2>3 DEF SaleSound, InFlight, Undisturbed
    <3> QED BY <2>1, <3>1 DEF SaleSound, Covers
  <2> QED BY <2>2, <2>3
<1>8. CASE SumTakings(k) \/ WriteClosed(k)
  <2>1. /\ call[k].doc \in DOMAIN Sessions /\ UNCHANGED <<journal, sold>>
        /\ \E place, sum : Puts(k, place, call[k].doc, sum, call[k].todo)
    BY <1>0, <1>8, GotoPuts, GotoWithPuts DEF SumTakings, WriteClosed, At, Placed, ForTreasury, treasuryVars
  <2> QED BY <1>0, <1>a, <2>1
<1>9. CASE PostVariance(k)
  <2>1. Puts(k, "free", None, 0, <<>>) /\ call[k].doc \in DOMAIN Sessions /\ UNCHANGED sold
    BY <1>0, <1>9, LeavePuts DEF PostVariance, At, Placed, ForTreasury, treasuryVars
  <2>2. journal'[v] = journal[v]
    BY <1>0, <1>9, <2>1, AreDocs, Added DEF PostVariance, Doc, TreasuryDocs
  <2> QED BY <1>0, <1>a, <2>1, <2>2
<1> QED BY <1>1, <1>2, <1>3, <1>4, <1>5, <1>6, <1>7, <1>8, <1>9 DEF TreasuryStep

LEMMA SessionsKeepSound ==
  ASSUME Typed, NEW k \in Slots, TreasuryStep(k), NEW s \in DOMAIN Sessions, TillSound(s)
  PROVE  TillSound(s)'
<1> USE DEF Typed
<1>0. /\ Placed(call[k]) /\ s \in Docs /\ s # None
      /\ s \notin Registers /\ s \notin Tickets /\ s \notin Transfers
  BY AreDocs, Kinds DEF Served, TreasuryDocs
<1>a. ASSUME NEW place, NEW doc, NEW sum, NEW todo, Puts(k, place, doc, sum, todo), doc # s,
             call[k].doc # s, journal'[s] = journal[s], session'[s] = session[s],
             InSession(s)' = InSession(s), s \in late => s \in late'
      PROVE  TillSound(s)'
  BY <1>a, TillKept DEF Puts
<1>b. ASSUME UNCHANGED sold
      PROVE  /\ InSession(s)' = InSession(s) /\ Expected(s)' = Expected(s)
  BY <1>b DEF InSession, Expected
<1>1. ASSUME NEW u \in Transfers, CreateTransfer(k, u)
      PROVE  TillSound(s)'
  <2>1. Puts(k, "free", None, call[k].sum, call[k].todo) /\ call[k].doc = None
    BY <1>1, AtOncePuts DEF CreateTransfer
  <2> QED BY <1>0, <1>1, <1>a, <1>b, <2>1 DEF CreateTransfer
<1>2. ASSUME \/ \E u \in Transfers : CompleteTransfer(k, u) \/ CancelTransfer(k, u)
             \/ \E r \in Registers : OpenSession(k, r)
      PROVE  TillSound(s)'
  <2>1. PICK u \in Transfers \cup Registers : \E place : Enter(k, place, u, 0, <<>>)
    BY <1>2 DEF CompleteTransfer, CancelTransfer, OpenSession
  <2>2. UNCHANGED <<journal, sold, session, late>>
    BY <1>2 DEF CompleteTransfer, CancelTransfer, OpenSession, treasuryVars
  <2>3. PICK place : Puts(k, place, u, 0, <<>>) /\ call[k].doc = None
    BY <2>1, EnterPuts
  <2> QED BY <1>0, <1>a, <1>b, <2>2, <2>3
<1>3. CASE PostTransfer(k)
  <2>1. /\ call[k].doc \in Transfers
        /\ Puts(k, "mark_transfer", call[k].doc, call[k].sum, call[k].todo)
    BY <1>0, <1>3, GotoPuts DEF PostTransfer, At, Placed, ForTreasury
  <2>2. journal'[s] = journal[s] /\ UNCHANGED <<sold, session, late>>
    BY <1>0, <1>3, <2>1, AreDocs, Added DEF PostTransfer, Doc, treasuryVars, TreasuryDocs
  <2> QED BY <1>0, <1>a, <1>b, <2>1, <2>2
<1>4. CASE TransferUnposted(k) \/ MarkTransfer(k) \/ MarkCancelled(k) \/ SaleUnposted(k)
  <2>1. /\ Puts(k, "free", None, 0, <<>>) /\ UNCHANGED <<journal, sold, session, late>>
        /\ call[k].doc \in Transfers \cup Tickets
    BY <1>0, <1>4, LeavePuts
      DEF TransferUnposted, MarkTransfer, MarkCancelled, SaleUnposted, At, Placed, ForTreasury, treasuryVars
  <2> QED BY <1>0, <1>a, <1>b, <2>1
<1>5. CASE PostSale(k)
  <2>1. /\ call[k].doc \in Tickets /\ Puts(k, "free", None, 0, <<>>)
        /\ UNCHANGED <<sold, session, late>>
    BY <1>0, <1>5, LeavePuts DEF PostSale, At, Placed, ForTreasury, treasuryVars
  <2>2. journal'[s] = journal[s]
    BY <1>0, <1>5, <2>1, AreDocs, Added DEF PostSale, Doc, TreasuryDocs
  <2> QED BY <1>0, <1>a, <1>b, <2>1, <2>2
<1>6. ASSUME NEW v \in Tickets, Checkout(k, v)
      PROVE  TillSound(s)'
  <2>1. Puts(k, "post_sale", v, 0, <<>>) /\ call[k].doc = None
    BY <1>6, EnterPuts DEF Checkout
  <2>2. /\ UNCHANGED <<journal, session>> /\ sold' = sold \cup {v}
        /\ late' = late \cup {t \in DOMAIN Sessions : t = Ticket[v].session /\ Summed(t)}
    BY <1>6 DEF Checkout
  <2>3. CASE Ticket[v].session # s
    <3>1. InSession(s)' = InSession(s)
      BY <2>2, <2>3 DEF InSession
    <3> QED BY <1>0, <1>a, <2>1, <2>2, <3>1
  <2>4. CASE Ticket[v].session = s
    <3> SUFFICES ASSUME Undisturbed(s)'
                 PROVE  TillWhole(s)'
      BY DEF TillSound
    <3>1. Undisturbed(s) /\ TillWhole(s)
      BY <2>1 DEF TillSound, Undisturbed, Puts
    <3>2. InFlight(s)' = InFlight(s) /\ \A j \in InFlight(s) : call'[j] = call[j]
      BY <1>0, <2>1 DEF Puts, InFlight
    <3>3. \A a : Posts(s, a)' <=> Posts(s, a)
      BY <3>2 DEF Posts
    <3>4. VarianceEntries(s)' = VarianceEntries(s)
      BY <2>2 DEF VarianceEntries, Variance, VarianceLines
    <3>5. s \notin late' => ~Summed(s)
      BY <2>2, <2>4
    <3>6. s \notin late' => /\ \A j \in InFlight(s)' : ~At(j, "close_session")'
                            /\ session'[s].status # "CLOSED"
      BY <2>2, <3>2, <3>5 DEF Summed, At
    <3> QED BY <2>2, <3>1, <3>3, <3>4, <3>6 DEF TillWhole
  <2> QED BY <2>3, <2>4
<1>7. CASE InsertSession(k)
  <2>1. /\ call[k].doc \in Registers /\ Puts(k, "free", None, 0, <<>>) /\ UNCHANGED <<journal, sold, late>>
    BY <1>0, <1>7, LeavePuts DEF InsertSession, At, Placed, ForTreasury
  <2>2. PICK u \in DOMAIN Sessions : /\ session[u].status = "absent"
                                     /\ session' = [session EXCEPT ![u].status = "OPEN"]
    BY <1>7 DEF InsertSession
  <2>3. CASE u # s
    BY <1>0, <1>a, <1>b, <2>1, <2>2, <2>3 DEF TreasuryTyped
  <2>4. CASE u = s
    <3> SUFFICES ASSUME Undisturbed(s)'
                 PROVE  TillWhole(s)'
      BY DEF TillSound
    <3>1. Undisturbed(s) /\ TillWhole(s)
      BY <2>1 DEF TillSound, Undisturbed, Puts
    <3>2. InFlight(s)' = InFlight(s) /\ \A j \in InFlight(s) : call'[j] = call[j]
      BY <1>0, <2>1 DEF Puts, InFlight
    <3>3. \A a : Posts(s, a)' <=> Posts(s, a)
      BY <3>2 DEF Posts
    <3>4. session'[s].status = "OPEN"
      BY <2>2, <2>4 DEF TreasuryTyped
    <3>5. /\ ~Posts(s, "sum_takings") /\ ~Posts(s, "close_session") /\ ~Posts(s, "post_variance")
          /\ journal[s] = <<>>
      BY <2>2, <2>4, <3>1 DEF TillWhole
    <3>6. \A j \in InFlight(s)' : ~At(j, "close_session")'
      BY <3>3, <3>5 DEF Posts, At
    <3> QED BY <2>1, <3>3, <3>4, <3>5, <3>6 DEF TillWhole
  <2> QED BY <2>3, <2>4
<1>8. ASSUME NEW u \in DOMAIN Sessions, CloseSession(k, u)
      PROVE  TillSound(s)'
  <2>1. /\ Puts(k, "sum_takings", u, 0, <<>>) /\ call[k].doc = None
        /\ InFlight(u) = {} \/ u \in crossed'
    BY <1>8, EnterPuts DEF CloseSession
  <2>2. UNCHANGED <<journal, treasuryVars>> /\ session[u].status = "OPEN"
    BY <1>8 DEF CloseSession
  <2>3. CASE u # s
    BY <1>0, <1>a, <1>b, <2>1, <2>2, <2>3 DEF treasuryVars
  <2>4. CASE u = s
    <3> SUFFICES ASSUME Undisturbed(s)'
                 PROVE  TillWhole(s)'
      BY DEF TillSound
    <3>1. Undisturbed(s) /\ TillWhole(s) /\ InFlight(s) = {}
      BY <2>1, <2>4 DEF TillSound, Undisturbed, Puts
    <3>2. InFlight(s)' = {k} /\ At(k, "sum_takings")' /\ \A a : Posts(s, a)' <=> a = "sum_takings"
      BY <2>1, <2>4, <3>1 DEF Puts, InFlight, At, Posts
    <3>3. journal[s] = <<>>
      BY <2>2, <2>4, <3>1 DEF TillWhole
    <3>4. ~At(k, "close_session")'
      BY <3>2 DEF At
    <3> QED BY <2>2, <2>4, <3>2, <3>3, <3>4 DEF TillWhole, treasuryVars
  <2> QED BY <2>3, <2>4
<1>c. ASSUME call[k].doc = s, NEW place, NEW doc, NEW sum, NEW todo, Puts(k, place, doc, sum, todo),
             Undisturbed(s)'
      PROVE  /\ Undisturbed(s) /\ TillWhole(s) /\ InFlight(s) = {k}
             /\ \A a : Posts(s, a) <=> call[k].at = a
             /\ doc = s => /\ InFlight(s)' = {k} /\ \A a : Posts(s, a)' <=> a = place
                           /\ call'[k].at = place /\ call'[k].sum = sum
             /\ doc # s => InFlight(s)' = {} /\ \A a : ~Posts(s, a)'
  <2>1. Undisturbed(s)
    BY <1>c DEF Undisturbed, Puts
  <2>2. InFlight(s) = {k} /\ \A a : Posts(s, a) <=> call[k].at = a
    BY <1>0, <1>c, <2>1, OnlyOne
  <2>3. doc = s => InFlight(s)' = {k}
    BY <1>c, <2>2 DEF Puts, InFlight
  <2>4. doc # s => InFlight(s)' = {}
    BY <1>c, <2>2 DEF Puts, InFlight
  <2> QED BY <1>c, <2>1, <2>2, <2>3, <2>4 DEF Puts, Posts, TillSound
<1>9. CASE SumTakings(k)
  <2> DEFINE u == call[k].doc
  <2>1. /\ u \in DOMAIN Sessions /\ Puts(k, "close_session", u, Expected(u), call[k].todo)
        /\ UNCHANGED <<journal, treasuryVars>> /\ call[k].at = "sum_takings"
    BY <1>0, <1>9, GotoWithPuts DEF SumTakings, At, Placed, ForTreasury, Doc, Expected
  <2>2. CASE u # s
    BY <1>0, <1>a, <1>b, <2>1, <2>2 DEF treasuryVars
  <2>3. CASE u = s
    <3> SUFFICES ASSUME Undisturbed(s)'
                 PROVE  TillWhole(s)'
      BY DEF TillSound
    <3>1. /\ TillWhole(s) /\ Posts(s, "sum_takings") /\ ~Posts(s, "post_variance")
          /\ InFlight(s)' = {k} /\ call'[k].sum = Expected(s)
          /\ \A a : Posts(s, a)' <=> a = "close_session"
      BY <1>c, <2>1, <2>3
    <3>2. session[s].status = "OPEN" /\ journal[s] = <<>>
      BY <3>1 DEF TillWhole
    <3>3. Figure(k)' = Expected(s)' /\ UNCHANGED <<journal, session>>
      BY <1>b, <2>1, <3>1 DEF Figure, treasuryVars
    <3> QED BY <3>1, <3>2, <3>3 DEF TillWhole
  <2> QED BY <2>2, <2>3
<1>10. CASE WriteClosed(k)
  <2> DEFINE u == call[k].doc
  <2>1. /\ u \in DOMAIN Sessions /\ Puts(k, "post_variance", u, call[k].sum, call[k].todo)
        /\ UNCHANGED <<journal, sold, late>> /\ call[k].at = "close_session"
    BY <1>0, <1>10, GotoPuts DEF WriteClosed, At, Placed, ForTreasury
  <2>2. PICK short : session' = [session EXCEPT ![u] =
          [status |-> "CLOSED", closing |-> Drawer(u) - short, expected |-> call[k].sum]]
    BY <1>10 DEF WriteClosed, Doc, Figure
  <2>3. CASE u # s
    BY <1>0, <1>a, <1>b, <2>1, <2>2, <2>3 DEF TreasuryTyped
  <2>4. CASE u = s
    <3> SUFFICES ASSUME Undisturbed(s)'
                 PROVE  TillWhole(s)'
      BY DEF TillSound
    <3>1. /\ TillWhole(s) /\ Posts(s, "close_session") /\ ~Posts(s, "post_variance")
          /\ InFlight(s) = {k} /\ InFlight(s)' = {k} /\ call'[k].at = "post_variance"
          /\ \A a : Posts(s, a)' <=> a = "post_variance"
      BY <1>c, <2>1, <2>4
    <3>2. journal[s] = <<>> /\ (s \notin late => call[k].sum = Expected(s))
      BY <2>1, <3>1 DEF TillWhole, At, Figure
    <3>3. session'[s].status = "CLOSED" /\ session'[s].expected = call[k].sum
      BY <2>1, <2>2, <2>4 DEF TreasuryTyped
    <3>4. ~At(k, "close_session")' /\ Expected(s)' = Expected(s)
      BY <1>b, <2>1, <3>1 DEF At
    <3> QED BY <2>1, <3>1, <3>2, <3>3, <3>4 DEF TillWhole
  <2> QED BY <2>3, <2>4
<1>11. CASE PostVariance(k)
  <2> DEFINE u == call[k].doc
  <2>1. /\ u \in DOMAIN Sessions /\ Puts(k, "free", None, 0, <<>>) /\ UNCHANGED treasuryVars
        /\ call[k].at = "post_variance"
    BY <1>0, <1>11, LeavePuts DEF PostVariance, At, Placed, ForTreasury
  <2>2. \A d \in Docs \ {u} : journal'[d] = journal[d]
    BY <1>11, <2>1, AreDocs, Added DEF PostVariance, Doc, TreasuryDocs
  <2>3. CASE u # s
    BY <1>0, <1>a, <1>b, <2>1, <2>2, <2>3 DEF treasuryVars
  <2>4. CASE u = s
    <3> SUFFICES ASSUME Undisturbed(s)'
                 PROVE  TillWhole(s)'
      BY DEF TillSound
    <3>1. /\ TillWhole(s) /\ Posts(s, "post_variance") /\ InFlight(s)' = {} /\ \A a : ~Posts(s, a)'
      BY <1>0, <1>c, <2>1, <2>4
    <3>2. journal[s] = <<>> /\ session[s].status = "CLOSED"
      BY <3>1 DEF TillWhole
    <3>3. journal'[s] = VarianceEntries(s)
      <4>1. CASE Variance(s) = 0
        BY <1>11, <2>4, <3>2, <4>1 DEF PostVariance, Doc, VarianceEntries
      <4>2. CASE Variance(s) # 0
        <5>1. journal'[s] = Append(journal[s], [code |-> "CA", lines |-> VarianceLines(s)])
          BY <1>0, <1>11, <2>4, <4>2, Added DEF PostVariance, Doc
        <5>2. \A e : Append(<<>>, e) = <<e>>
          OBVIOUS
        <5> QED BY <3>2, <4>2, <5>1, <5>2 DEF VarianceEntries
      <4> QED BY <4>1, <4>2
    <3>4. /\ VarianceEntries(s)' = VarianceEntries(s) /\ Expected(s)' = Expected(s)
          /\ session' = session /\ late' = late
      BY <1>b, <2>1 DEF VarianceEntries, Variance, VarianceLines, treasuryVars
    <3> QED BY <3>1, <3>2, <3>3, <3>4 DEF TillWhole
  <2> QED BY <2>3, <2>4
<1>12. CASE VarianceUnposted(k)
  <2>1. /\ Puts(k, "free", None, 0, <<>>) /\ UNCHANGED <<journal, treasuryVars>> /\ call[k].doc \in cut'
    BY <1>12, LeavePuts DEF VarianceUnposted
  <2>2. CASE call[k].doc # s
    BY <1>0, <1>a, <1>b, <2>1, <2>2 DEF treasuryVars
  <2>3. CASE call[k].doc = s
    BY <2>1, <2>3 DEF TillSound, Undisturbed
  <2> QED BY <2>2, <2>3
<1> QED BY <1>1, <1>2, <1>3, <1>4, <1>5, <1>6, <1>7, <1>8, <1>9, <1>10, <1>11, <1>12
        DEF TreasuryStep

(***************************************************************************)
(* Every step keeps what is known of the sales and of the sessions.        *)
(***************************************************************************)
TillsSound == (\A v \in Tickets : SaleSound(v)) /\ (\A s \in DOMAIN Sessions : TillSound(s))

LEMMA TillStep ==
  ASSUME Typed, TillsSound, [Next]_vars
  PROVE  TillsSound'
<1> USE DEF TillsSound
<1>0. \A d \in Tickets \cup DOMAIN Sessions :
        d # None /\ d \in Docs \ (InvoiceDocs \cup AssetDocs \cup PeopleDocs \cup Runs
                                    \cup StatementDocs \cup Manuals)
  BY AreDocs, Kinds DEF TreasuryDocs
<1>a. ASSUME UNCHANGED treasuryVars, \A d \in Tickets \cup DOMAIN Sessions : Away(d)
      PROVE  TillsSound'
  <2>1. ASSUME NEW v \in Tickets PROVE SaleSound(v)'
    BY <1>a, SaleKept DEF Away, treasuryVars
  <2>2. ASSUME NEW s \in DOMAIN Sessions PROVE TillSound(s)'
    <3>1. InSession(s)' = InSession(s) /\ session'[s] = session[s] /\ late' = late
      BY <1>a DEF treasuryVars, InSession
    <3> QED BY <1>a, <3>1, TillKept DEF Away
  <2> QED BY <2>1, <2>2
<1>1. ASSUME NEW k \in Slots, Step(k)
      PROVE  TillsSound'
  <2>1. \A D : Took(k, D) => \A d \in Docs \ D : Away(d)
    BY TookKeeps
  <2>2. \/ TreasuryStep(k)
        \/ /\ UNCHANGED treasuryVars
           /\ \E D \in {InvoiceDocs, AssetDocs, PeopleDocs, Runs, StatementDocs, Manuals} : Took(k, D)
    BY <1>1, StepTurns
  <2>3. \/ TreasuryStep(k)
        \/ UNCHANGED treasuryVars /\ \A d \in Tickets \cup DOMAIN Sessions : Away(d)
    BY <1>0, <2>1, <2>2
  <2> QED BY <1>a, <2>3, SalesKeepSound, SessionsKeepSound
<1>2. CASE Restart
  <2>1. /\ UNCHANGED journal /\ UNCHANGED <<session, sold, late>>
        /\ crossed' = crossed /\ cut \subseteq cut'
        /\ \A k \in Slots : call'[k] = Free
        /\ \A k \in Slots : call[k].doc # None => call[k].doc \in cut'
    BY <1>2, RestartKeeps DEF Restart, Components, treasuryVars, Typed
  <2>2. ASSUME NEW d \in Tickets \cup DOMAIN Sessions
        PROVE  \/ d \in cut' /\ InFlight(d)' = {}
               \/ \A j \in Slots : call[j].doc = d \/ call'[j].doc = d => call'[j] = call[j]
    BY <1>0, <2>1 DEF Free, InFlight
  <2>3. ASSUME NEW v \in Tickets PROVE SaleSound(v)'
    BY <2>1, <2>2, SaleKept
  <2>4. ASSUME NEW s \in DOMAIN Sessions PROVE TillSound(s)'
    <3>1. InSession(s)' = InSession(s)
      BY <2>1 DEF InSession
    <3> QED BY <2>1, <2>2, <3>1, TillKept
  <2> QED BY <2>3, <2>4
<1>3. CASE UNCHANGED vars
  <2>1. UNCHANGED treasuryVars /\ \A d : Away(d)
    BY <1>3 DEF vars, callVars, Away
  <2> QED BY <1>a, <2>1
<1> QED BY <1>1, <1>2, <1>3 DEF Next

LEMMA TillInit ==
  ASSUME Init
  PROVE  TillsSound
<1>1. \A d \in Docs : InFlight(d) = {} /\ (\A p : ~Posts(d, p)) /\ journal[d] = <<>>
  BY CallsAssumption DEF Init, CallsInit, LedgerInit, InFlight, Posts, Free
<1>2. sold = {} /\ \A s \in DOMAIN Sessions : session[s].status = "absent"
  BY DEF Init, TreasuryInit, NoSession
<1> QED BY <1>1, <1>2, AreDocs DEF TillsSound, SaleSound, TillSound, TillWhole, TreasuryDocs

LEMMA TillFromSound ==
  ASSUME Typed, TillsSound, NEW s \in DOMAIN Sessions, Settled(s)
  PROVE  OnTill(s) + SumFunction([v \in InSession(s) |-> OnTill(v)])
           = session[s].closing - Opening - SumFunction([v \in InSession(s) |-> Change(v)])
<1> DEFINE I == InSession(s)
           f == [v \in I |-> OnTill(v)]
           g == [v \in I |-> Tendered(v)]
           h == [v \in I |-> Change(v)]
<1>1. /\ session[s].status = "CLOSED" /\ TillWhole(s) /\ s \notin late
      /\ \A a : ~Posts(s, a)
  BY DEF Settled, TillsSound, TillSound, Posts
<1>2. journal[s] = VarianceEntries(s) /\ session[s].expected = Expected(s)
  BY <1>1 DEF TillWhole
<1>3. OnTill(s) = session[s].closing - session[s].expected
  BY <1>2, VarianceOnTill DEF Typed, Variance
<1>4. ASSUME NEW v \in I
      PROVE  f[v] = g[v] - h[v] /\ g[v] \in Int /\ h[v] \in Int
  <2>1. v \in Tickets /\ v \in sold /\ Undisturbed(v) /\ ~Posts(v, "post_sale")
    BY DrawerInt DEF Settled, InSession, Posts, Typed
  <2>2. Covers(v) /\ journal[v] = <<SaleEntry(v)>>
    BY <2>1 DEF TillsSound, SaleSound
  <2>3. OnTill(v) = Tendered(v) - Change(v)
    BY <2>1, <2>2, SaleOnTill
  <2>4. Tendered(v) \in Int /\ Change(v) \in Int
    BY <2>1, Takings
  <2> QED BY <2>3, <2>4
<1>5. IsFiniteSet(I) /\ Opening \in Int
  <2>1. IsFiniteSet(I) /\ Opening \in Nat
    BY DrawerInt DEF Typed
  <2> QED BY <2>1
<1>6. /\ session[s].expected = Opening + SumFunctionOnSet(g, I)
      /\ SumFunction(f) = SumFunctionOnSet(f, I) /\ SumFunction(h) = SumFunctionOnSet(h, I)
  BY <1>2 DEF Expected, SumFunction
<1>7. session[s].closing \in Int
  BY DEF Typed, TreasuryTyped
<1> HIDE DEF f, g, h, I
<1>8. SumFunctionOnSet(f, I) = SumFunctionOnSet(g, I) - SumFunctionOnSet(h, I)
  BY <1>4, <1>5, SumMinus
<1>9. SumFunctionOnSet(g, I) \in Int /\ SumFunctionOnSet(h, I) \in Int
  BY <1>4, <1>5, SumInt
<1>10. OnTill(s) + SumFunction(f) = session[s].closing - Opening - SumFunction(h)
  BY <1>3, <1>5, <1>6, <1>7, <1>8, <1>9
<1> QED BY <1>10 DEF f, h, I

(***************************************************************************)
(* A session that is closed and posted has moved account 571 by what was   *)
(* counted, less the opening balance and the change handed back, whatever  *)
(* the tenders of its sales and however its requests were interleaved.     *)
(***************************************************************************)
THEOREM TillsAreBooked == Spec => []TillIsBooked
<1>1. Init => Typed /\ TillsSound
  BY TypedInit, TillInit
<1>2. Typed /\ TillsSound /\ [Next]_vars => (Typed /\ TillsSound)'
  BY TypedStep, TillStep
<1>3. Typed /\ TillsSound => TillIsBooked
  BY TillFromSound DEF TillIsBooked
<1> QED BY <1>1, <1>2, <1>3, PTL DEF Spec

-----------------------------------------------------------------------------
(***************************************************************************)
(* Depreciation.  The entries of an asset are those of rows of its         *)
(* schedule, no row twice: q lists the rows in the order of the entries.   *)
(***************************************************************************)
RowEntry(a, n) ==
  [code |-> "OD", lines |-> <<Debit(681, Amount(a, n)), Credit(Purchase[a].account, Amount(a, n))>>]

Logged(a, q) ==
  /\ q \in Seq(1..Purchase[a].years)
  /\ journal[a] = [i \in DOMAIN q |-> RowEntry(a, q[i])]
  /\ \A i, j \in DOMAIN q : q[i] = q[j] => i = j

Amounts(a) == [n \in 1..Purchase[a].years |-> Amount(a, n)]

LEMMA RowLines ==
  ASSUME NEW a, NEW n
  PROVE  /\ DOMAIN RowEntry(a, n).lines = {1, 2}
         /\ RowEntry(a, n).lines[1].credit = 0
         /\ RowEntry(a, n).lines[2].credit = Amount(a, n)
         /\ RowEntry(a, n).lines[2].account = Purchase[a].account
<1>1. \A x, y : DOMAIN <<x, y>> = {1, 2} /\ <<x, y>>[1] = x /\ <<x, y>>[2] = y
  OBVIOUS
<1> QED BY <1>1 DEF RowEntry, Debit, Credit

\* The account of an asset is credited with the rows that have an entry.
LEMMA CreditedRows ==
  ASSUME JournalOK, NEW a \in FixedAssets, NEW q, Logged(a, q)
  PROVE  OnAccount(a, Purchase[a].account) = SumFunctionOnSet(Amounts(a), ToSet(q))
<1> DEFINE acct == Purchase[a].account
           S == Lying(a, acct)
           N == ToSet(q)
           f == [l \in S |-> Line(l).credit]
           h == Amounts(a)
           pos == [n \in N |-> CHOOSE i \in DOMAIN q : q[i] = n]
           m == [n \in N |-> <<<<a, pos[n]>>, 2>>]
           T == {m[n] : n \in N}
<1>1. OnAccount(a, acct) = SumFunctionOnSet(f, S)
  BY DEF OnAccount, Lying, SumFunction
<1>2. a \in Docs /\ DOMAIN journal[a] = DOMAIN q /\ \A i \in DOMAIN q : journal[a][i] = RowEntry(a, q[i])
  BY AreDocs DEF Logged, AssetDocs
<1>3. \A i \in DOMAIN q : /\ <<a, i>> \in EntryIds /\ Entry(<<a, i>>) = RowEntry(a, q[i])
                          /\ q[i] \in N
  BY <1>2, EntryIn DEF ToSet
<1>4. \A n \in N : pos[n] \in DOMAIN q /\ q[pos[n]] = n
  BY DEF ToSet
<1>5. \A i \in DOMAIN q : pos[q[i]] = i
  BY <1>3, <1>4 DEF Logged
<1>6. N \subseteq 1..Purchase[a].years /\ IsFiniteSet(N)
  <2> DEFINE R == 1..Purchase[a].years
  <2>1. \A X : \A p \in Seq(X) : \A i \in DOMAIN p : p[i] \in X
    OBVIOUS
  <2>2. N \subseteq R
    <3>1. q \in Seq(R)
      BY DEF Logged
    <3> HIDE DEF R
    <3> QED BY <2>1, <3>1 DEF ToSet
  <2>3. Purchase[a].years \in Int
    BY Bought
  <2>4. IsFiniteSet(R)
    BY <2>3, FS_Interval
  <2> QED BY <2>2, <2>4, FS_Subset
<1>7. \A n \in N : h[n] = Amount(a, n) /\ h[n] \in Int
  BY <1>6, AmountInt DEF Amounts
<1> HIDE DEF pos, h
<1>8. ASSUME NEW n \in N
      PROVE  m[n] \in S /\ f[m[n]] = h[n]
  <2>1. <<a, pos[n]>> \in EntryIds /\ Entry(<<a, pos[n]>>) = RowEntry(a, n)
    BY <1>3, <1>4
  <2>2. m[n] \in LineIds /\ Line(m[n]) = RowEntry(a, n).lines[2] /\ m[n][1][1] = a
    BY <2>1, LineIn, RowLines
  <2>3. m[n] \in S
    BY <2>2, RowLines DEF Lying
  <2> QED BY <1>7, <2>2, <2>3, RowLines
<1>9. ASSUME NEW l \in S
      PROVE  f[l] \in Int /\ (l \notin T => f[l] = 0)
  <2>1. l \in LineIds /\ l[1][1] = a
    BY DEF Lying
  <2>2. PICK e \in EntryIds : \E n \in DOMAIN Entry(e).lines : l = <<e, n>>
    BY <2>1, LineIn
  <2>3. PICK n \in DOMAIN Entry(e).lines : l = <<e, n>>
    BY <2>2
  <2>4. PICK i \in DOMAIN journal[a] : e = <<a, i>>
    BY <2>1, <2>2, <2>3, EntryIn
  <2>5. Entry(e) = RowEntry(a, q[i]) /\ i \in DOMAIN q /\ q[i] \in N /\ pos[q[i]] = i
    BY <1>2, <1>3, <1>5, <2>4
  <2>6. n \in {1, 2} /\ Line(l) = RowEntry(a, q[i]).lines[n]
    BY <2>3, <2>5, LineIn, RowLines
  <2>7. CASE n = 1
    <3>1. Line(l).credit = 0
      BY <2>6, <2>7, RowLines
    <3> QED BY <3>1
  <2>8. CASE n = 2
    <3>1. l = m[q[i]] /\ l \in T
      BY <2>3, <2>4, <2>5, <2>8
    <3>2. f[l] \in Int
      BY <1>7, <1>8, <2>5, <3>1
    <3> QED BY <3>1, <3>2
  <2> QED BY <2>6, <2>7, <2>8
<1>10. T \subseteq S /\ \A s, t \in N : m[s] = m[t] => s = t
  BY <1>4, <1>8
<1>11. IsFiniteSet(S)
  BY FiniteBooks, FS_Subset DEF Lying
<1> HIDE DEF S, N, f, m
<1>12. SumFunctionOnSet(f, T) = SumFunctionOnSet(h, N)
  BY <1>6, <1>7, <1>8, <1>10, SumRenamed
<1> HIDE DEF T
<1>13. SumFunctionOnSet(f, S) = SumFunctionOnSet(f, T) + SumFunctionOnSet(f, S \ T)
  BY <1>9, <1>10, <1>11, SumSplit
<1>14. SumFunctionOnSet(f, S \ T) = 0
  BY <1>9, <1>11, FS_Subset, SumZero
<1>15. SumFunctionOnSet(h, N) \in Int
  BY <1>6, <1>7, SumInt
<1> QED BY <1>1, <1>12, <1>13, <1>14, <1>15 DEF h, N

\* The rows of a schedule add up to the base.
LEMMA WholeSchedule ==
  ASSUME NEW a \in FixedAssets
  PROVE  SumFunctionOnSet(Amounts(a), 1..Purchase[a].years) = Base(a)
<1> DEFINE y == Purchase[a].years
           c == RoundDiv(Base(a), y)
           f == Amounts(a)
<1>1. y \in Nat \ {0} /\ Base(a) \in Int /\ c \in Int
  BY Bought, RoundDivInt
<1>2. \A n \in 1..y : f[n] = Amount(a, n) /\ f[n] \in Int
  BY AmountInt DEF Amounts
<1>3. CASE Purchase[a].method = "STRAIGHT_LINE"
  <2> DEFINE T == 1..(y - 1)
  <2>1. \A n \in 1..y : f[n] = IF n = y THEN Base(a) - (y - 1) * c ELSE c
    BY <1>2, <1>3 DEF Amount
  <2> HIDE DEF f, c, y
  <2>2. 1..y = T \cup {y} /\ y \notin T /\ IsFiniteSet(T) /\ Cardinality(T) = y - 1
    <3>1. 1..y = T \cup {y} /\ y \notin T /\ y - 1 \in Int
      BY <1>1
    <3>2. IsFiniteSet(T)
      BY <3>1, FS_Interval
    <3>3. Cardinality(T) = y - 1
      BY <1>1, <3>1, FS_Interval
    <3> QED BY <3>1, <3>2, <3>3
  <2>3. \A n \in T : f[n] = c
    BY <1>1, <2>1
  <2>4. f[y] = Base(a) - (y - 1) * c
    BY <1>1, <2>1
  <2> HIDE DEF T
  <2>5. SumFunctionOnSet(f, T \cup {y}) = f[y] + SumFunctionOnSet(f, T)
    BY <1>2, <2>2, SumAdd
  <2>6. SumFunctionOnSet(f, T) = (y - 1) * c
    <3>0. c \in Int
      BY <1>1
    <3>1. SumFunctionOnSet(f, T) = Cardinality(T) * c
      BY <2>2, <2>3, <3>0, SumConstant
    <3> QED BY <2>2, <3>1
  <2>7. (y - 1) * c \in Int
    BY <1>1
  <2>8. SumFunctionOnSet(f, 1..y) = Base(a) - (y - 1) * c + (y - 1) * c
    BY <2>2, <2>4, <2>5, <2>6
  <2> QED BY <1>1, <2>7, <2>8 DEF f, y
<1>4. CASE Purchase[a].method # "STRAIGHT_LINE"
  <2> DEFINE r == Remaining(a)
  <2>1. \A n \in 0..y : r[n] \in Int
    BY RemainingInt
  <2>2. \A n \in 1..y : f[n] = r[n - 1] - r[n]
    BY <1>2, <1>4 DEF Amount
  <2>3. r[0] = Base(a) /\ r[y] = 0
    BY RemainingEnds
  <2> HIDE DEF r, f, y
  <2>4. SumFunctionOnSet(f, 1..y) = r[0] - r[y]
    <3>1. y \in Nat
      BY <1>1
    <3> QED BY <2>1, <2>2, <3>1, SumTelescopes
  <2> QED BY <1>1, <2>3, <2>4 DEF f, y
<1> QED BY <1>3, <1>4

\* Rounding up by half a cent a year adds up to less than a cent a year.
LEMMA RoundedUp ==
  ASSUME NEW b \in Nat, NEW y \in Nat \ {0}
  PROVE  y * RoundDiv(b, y) <= b + y \div 2
<1> DEFINE h == y \div 2
           x == b + h
<1>1. h \in Nat
  OBVIOUS
<1> HIDE DEF h
<1>2. x \in Nat
  BY <1>1
<1> HIDE DEF x
<1>3. y * (x \div y) <= x
  BY <1>2
<1> QED BY <1>3 DEF RoundDiv, h, x

\* Some rows of a schedule add up to the base at most, but for the rounding.
LEMMA PartOfSchedule ==
  ASSUME NEW a \in FixedAssets, Base(a) \in Nat, NEW S, S \subseteq 1..Purchase[a].years
  PROVE  SumFunctionOnSet(Amounts(a), S) <= Base(a) + Rounding(a)
<1> DEFINE y == Purchase[a].years
           c == RoundDiv(Base(a), y)
           f == Amounts(a)
           b == Base(a)
<1>1. y \in Nat \ {0} /\ b \in Nat /\ c \in Nat
  BY Bought, RoundDivNat
<1>2. \A n \in 1..y : f[n] = Amount(a, n) /\ f[n] \in Int
  BY AmountInt DEF Amounts
<1>3. IsFiniteSet(1..y) /\ IsFiniteSet(S) /\ IsFiniteSet((1..y) \ S)
  <2>1. y \in Int
    BY <1>1
  <2> HIDE DEF y
  <2>2. IsFiniteSet(1..y)
    BY <2>1, FS_Interval
  <2> QED BY <2>2, FS_Subset DEF y
<1>4. SumFunctionOnSet(f, 1..y) = b
  BY WholeSchedule
<1>5. SumFunctionOnSet(f, 1..y) = SumFunctionOnSet(f, S) + SumFunctionOnSet(f, (1..y) \ S)
  <2> HIDE DEF f, y
  <2> DEFINE A == 1..y
  <2>1. IsFiniteSet(A) /\ S \subseteq A /\ \A n \in A : f[n] \in Int
    BY <1>2, <1>3 DEF y
  <2> HIDE DEF A
  <2> DEFINE U == A \ S
  <2>2. Summable(f, S) /\ Summable(f, U) /\ S \cap U = {} /\ S \cup U = A
    BY <2>1, FS_Subset DEF Summable
  <2> HIDE DEF U
  <2>3. SumFunctionOnSet(f, S \cup U) = SumFunctionOnSet(f, S) + SumFunctionOnSet(f, U)
    BY <2>2, SumJoined
  <2> QED BY <2>2, <2>3 DEF A, U
<1>6. SumFunctionOnSet(f, S) \in Int /\ SumFunctionOnSet(f, (1..y) \ S) \in Int
  <2> HIDE DEF f
  <2> QED BY <1>2, <1>3, SumInt
<1>7. CASE Purchase[a].method # "STRAIGHT_LINE"
  <2>1. \A n \in 1..y : f[n] = Remaining(a)[n - 1] - Remaining(a)[n]
    BY <1>2, <1>7 DEF Amount
  <2>2. \A n \in 1..y : f[n] \in Nat
    <3> TAKE n \in 1..y
    <3>1. n - 1 \in 0..y /\ n \in 0..y
      BY <1>1
    <3>2. Remaining(a)[n] \in Nat /\ Remaining(a)[n - 1] \in Nat /\ Remaining(a)[n] <= Remaining(a)[n - 1]
      BY <3>1, RemainingNat
    <3> QED BY <2>1, <3>2
  <2>3. SumFunctionOnSet(f, (1..y) \ S) \in Nat
    <3> HIDE DEF f
    <3> QED BY <1>3, <2>2, SumNat
  <2>4. Rounding(a) = 0
    BY <1>7 DEF Rounding
  <2> HIDE DEF f, y, b
  <2>5. SumFunctionOnSet(f, S) <= b
    BY <1>1, <1>4, <1>5, <1>6, <2>3
  <2> QED BY <1>1, <2>4, <2>5 DEF f, b
<1>8. CASE Purchase[a].method = "STRAIGHT_LINE"
  <2>1. \A n \in 1..y : f[n] = IF n = y THEN b - (y - 1) * c ELSE c
    BY <1>2, <1>8 DEF Amount
  <2>2. Rounding(a) = y \div 2
    BY <1>8 DEF Rounding
  <2>3. y * c <= b + y \div 2
    BY <1>1, RoundedUp
  <2> DEFINE T == S \ {y}
             U == (1..y) \ S
  <2> HIDE DEF f, y, b, c
  <2>4. \A n \in T : f[n] = c
    BY <2>1 DEF y
  <2>5. IsFiniteSet(T) /\ IsFiniteSet(U)
    BY <1>3, FS_Subset
  <2>6. CASE y \in S
    <3>1. \A n \in U : f[n] = c
      BY <2>1, <2>6
    <3>2. \A n \in U : f[n] \in Nat
      BY <1>1, <3>1
    <3>3. SumFunctionOnSet(f, U) \in Nat
      BY <2>5, <3>2, SumNat
    <3>4. y \div 2 \in Nat
      BY <1>1
    <3>5. SumFunctionOnSet(f, S) <= b + y \div 2
      <4> HIDE DEF U
      <4>1. SumFunctionOnSet(f, S) + SumFunctionOnSet(f, U) = b
        BY <1>4, <1>5 DEF U
      <4> QED BY <1>1, <1>6, <3>3, <3>4, <4>1
    <3> QED BY <2>2, <3>5 DEF f, b
  <2>7. CASE y \notin S
    <3>1. T = S
      BY <2>7
    <3>2. SumFunctionOnSet(f, S) = Cardinality(S) * c
      <4>1. c \in Int /\ \A n \in S : f[n] = c
        BY <1>1, <2>4, <3>1
      <4> QED BY <1>3, <4>1, SumConstant
    <3>3. Cardinality(S) \in 0..y
      <4>1. y \in Int
        BY <1>1
      <4>2. Cardinality(1..y) = y
        BY <1>1, <4>1, FS_Interval
      <4>3. S \subseteq 1..y
        BY DEF y
      <4>4. Cardinality(S) \in Nat /\ Cardinality(S) <= Cardinality(1..y)
        BY <1>3, <4>3, FS_Subset, FS_CardinalityType
      <4> QED BY <1>1, <4>2, <4>4
    <3> DEFINE s == Cardinality(S)
               h == y \div 2
    <3>4. s * c <= y * c
      <4> HIDE DEF s
      <4>1. s \in Nat /\ y - s \in Nat
        BY <1>1, <3>3 DEF s
      <4>2. (y - s) * c \in Nat
        BY <1>1, <4>1
      <4>3. y * c = s * c + (y - s) * c /\ s * c \in Nat
        BY <1>1, <4>1
      <4> QED BY <4>2, <4>3
    <3>5. s * c \in Int /\ y * c \in Int /\ h \in Nat
      BY <1>1, <3>3
    <3> HIDE DEF s, h
    <3>6. s * c <= b + h
      BY <1>1, <2>3, <3>4, <3>5 DEF h
    <3> QED BY <2>2, <3>2, <3>6 DEF f, b, s, h
  <2> QED BY <2>6, <2>7
<1> QED BY <1>7, <1>8

\* Of a base below zero, the last year at most gives something back.
LEMMA PartOfNegative ==
  ASSUME NEW a \in FixedAssets, Base(a) < 0, NEW S, S \subseteq 1..Purchase[a].years
  PROVE  SumFunctionOnSet(Amounts(a), S) <= Rounding(a)
<1> DEFINE y == Purchase[a].years
           c == RoundDiv(Base(a), y)
           f == Amounts(a)
           b == Base(a)
<1>1. y \in Nat \ {0} /\ b \in Int /\ b < 0 /\ c \in Int /\ c <= 0
  BY Bought, RoundDivNegative
<1>2. \A n \in 1..y : f[n] = Amount(a, n) /\ f[n] \in Int
  BY AmountInt DEF Amounts
<1>3. IsFiniteSet(S) /\ S \subseteq 1..y
  <2>1. y \in Int
    BY <1>1
  <2>2. IsFiniteSet(1..y)
    BY <2>1, FS_Interval
  <2> QED BY <2>2, FS_Subset
<1>4. ASSUME NEW T, T \subseteq S, \A n \in T : f[n] <= 0
      PROVE  SumFunctionOnSet(f, T) \in Int /\ SumFunctionOnSet(f, T) <= 0
  <2> DEFINE z == [n \in T |-> 0]
             g == [n \in T |-> 0 - f[n]]
  <2>1. IsFiniteSet(T) /\ \A n \in T : f[n] \in Int
    BY <1>2, <1>3, <1>4, FS_Subset
  <2>2. \A n \in T : f[n] \in Int /\ z[n] \in Int /\ z[n] = 0 /\ g[n] \in Nat /\ g[n] = z[n] - f[n]
    <3> HIDE DEF f
    <3> QED BY <1>4, <2>1
  <2> HIDE DEF f, z, g
  <2>3. SumFunctionOnSet(g, T) = SumFunctionOnSet(z, T) - SumFunctionOnSet(f, T)
    BY <2>1, <2>2, SumMinus
  <2>4. SumFunctionOnSet(z, T) = 0
    BY <2>1, <2>2, SumZero
  <2>5. SumFunctionOnSet(g, T) \in Nat
    BY <2>1, <2>2, SumNat
  <2>6. SumFunctionOnSet(f, T) \in Int
    BY <2>1, SumInt
  <2> QED BY <2>3, <2>4, <2>5, <2>6
<1>5. CASE Purchase[a].method # "STRAIGHT_LINE"
  <2>1. ASSUME NEW n \in S
        PROVE  f[n] <= 0
    <3>1. f[n] = Remaining(a)[n - 1] - Remaining(a)[n] /\ Remaining(a)[n] = 0
      BY <1>2, <1>3, <1>5, RemainingNegative DEF Amount
    <3>2. n = 1 \/ n - 1 \in 1..y
      BY <1>1, <1>3
    <3>3. Remaining(a)[n - 1] = b \/ Remaining(a)[n - 1] = 0
      BY <3>2, RemainingEnds, RemainingNegative
    <3> HIDE DEF f, b
    <3> QED BY <1>1, <3>1, <3>3
  <2>2. Rounding(a) = 0
    BY <1>5 DEF Rounding
  <2> QED BY <1>4, <2>1, <2>2
<1>6. CASE Purchase[a].method = "STRAIGHT_LINE"
  <2>1. \A n \in 1..y : f[n] = IF n = y THEN b - (y - 1) * c ELSE c
    BY <1>2, <1>6 DEF Amount
  <2>2. Rounding(a) = y \div 2 /\ y \div 2 \in Nat
    BY <1>1, <1>6 DEF Rounding
  <2> DEFINE T == S \ {y}
             last == b - (y - 1) * c
  <2>3. last \in Int /\ last <= y \div 2
    <3> DEFINE h == y \div 2
               x == b + h
    <3>1. h \in Nat /\ y <= h + h + 1
      BY <1>1
    <3>2. c = x \div y
      BY DEF RoundDiv
    <3> HIDE DEF h, c, b, y
    <3>3. x \in Int
      BY <1>1, <3>1
    <3> HIDE DEF x
    <3>4. x < y * c + y
      BY <1>1, <3>2, <3>3
    <3>5. y * c \in Int /\ (y - 1) * c = y * c - c
      BY <1>1
    <3> QED BY <1>1, <3>1, <3>4, <3>5 DEF x, h
  <2> HIDE DEF f, y, b, c, last
  <2>4. \A n \in T : f[n] <= 0
    BY <1>1, <1>3, <2>1
  <2>5. SumFunctionOnSet(f, T) \in Int /\ SumFunctionOnSet(f, T) <= 0
    BY <1>4, <2>4
  <2>6. CASE y \notin S
    <3>1. T = S
      BY <2>6
    <3>2. SumFunctionOnSet(f, S) <= y \div 2
      BY <2>2, <2>5, <3>1
    <3> QED BY <2>2, <3>2 DEF f
  <2>7. CASE y \in S
    <3>1. S = T \cup {y} /\ y \notin T /\ IsFiniteSet(T)
      BY <1>3, <2>7, FS_Subset
    <3>2. f[y] = last
      BY <1>3, <2>1, <2>7 DEF last
    <3>3. \A n \in T : f[n] \in Int
      BY <1>2, <1>3
    <3> HIDE DEF T
    <3>4. SumFunctionOnSet(f, T \cup {y}) = f[y] + SumFunctionOnSet(f, T)
      BY <2>3, <3>1, <3>2, <3>3, SumAdd
    <3>5. SumFunctionOnSet(f, S) <= y \div 2
      BY <2>2, <2>3, <2>5, <3>1, <3>2, <3>4
    <3> QED BY <2>2, <3>5 DEF f
  <2> QED BY <2>6, <2>7
<1> QED BY <1>5, <1>6

-----------------------------------------------------------------------------
(***************************************************************************)
(* What depreciation keeps.  A schedule is written once, by the request    *)
(* that created the asset, before any of its rows is due.  While nothing   *)
(* disturbs postDue, the entries of an asset are its posted rows with the  *)
(* one in hand, and the rows still ahead are different and not posted.     *)
(***************************************************************************)
Handed(a) == {Row(k)[2] : k \in InHand(a)}
Unposted(r) == r[2] \in DOMAIN posted[r[1]] /\ ~posted[r[1]][r[2]]

RowsAhead(k) ==
  At(k, "next_row") \/ At(k, "mark_row") \/ At(k, "retire_asset") =>
    /\ \A i, j \in DOMAIN Todo(k) : Todo(k)[i] = Todo(k)[j] => i = j
    /\ \A i \in DOMAIN Todo(k) : Unposted(Todo(k)[i]) \/ (i = 1 /\ At(k, "retire_asset"))

Scheduling(a) == {k \in InFlight(a) : At(k, "schedule_asset")}

ScheduleSound(a) ==
  /\ asset[a] = "absent" => Scheduling(a) = {}
  /\ asset[a] = "absent" \/ Scheduling(a) # {} => posted[a] = <<>>
  /\ \A j, k \in Scheduling(a) : j = k

RowsLogged(a) == \E q : Logged(a, q) /\ ToSet(q) = PostedRows(a) \cup Handed(a)

DepreciationWhole ==
  /\ \A a \in FixedAssets : RowsLogged(a)
  /\ \A k \in InFlight(Posting) : RowsAhead(k)

DepreciationSound ==
  /\ \A a \in FixedAssets : ScheduleSound(a)
  /\ Undisturbed(Posting) => DepreciationWhole

LEMMA DepreciationInit ==
  ASSUME Init
  PROVE  DepreciationSound
<1>1. \A k \in Slots : call[k] = Free
  BY DEF Init, CallsInit
<1>2. \A d \in Docs : InFlight(d) = {} /\ journal[d] = <<>>
  BY <1>1, CallsAssumption DEF Init, LedgerInit, InFlight, Free
<1>3. \A a \in FixedAssets : a \in Docs /\ asset[a] = "absent" /\ posted[a] = <<>>
  BY AreDocs DEF Init, AssetsInit, AssetDocs
<1>4. \A a \in FixedAssets : ScheduleSound(a)
  BY <1>2, <1>3 DEF ScheduleSound, Scheduling
<1>5. ASSUME NEW a \in FixedAssets
      PROVE  RowsLogged(a)
  <2>1. InHand(a) = {}
    BY <1>1 DEF InHand, At, Free
  <2>2. PostedRows(a) \cup Handed(a) = {}
    BY <1>3, <2>1 DEF PostedRows, Handed
  <2>3. \A R : <<>> \in Seq(R) /\ DOMAIN <<>> = {}
    OBVIOUS
  <2>4. journal[a] = <<>>
    BY <1>2, <1>3
  <2>5. ToSet(<<>>) = {}
    BY <2>3 DEF ToSet
  <2>6. <<>> = [i \in DOMAIN <<>> |-> RowEntry(a, <<>>[i])]
    OBVIOUS
  <2>7. Logged(a, <<>>)
    BY <2>3, <2>4, <2>6 DEF Logged
  <2> QED BY <2>2, <2>5, <2>7 DEF RowsLogged
<1> QED BY <1>2, <1>4, <1>5, AreDocs DEF DepreciationSound, DepreciationWhole, AssetDocs

\* A request at one of the places of postDue is about the depreciation.
LEMMA InHandPosting ==
  ASSUME Served, NEW k \in Slots, At(k, "next_row") \/ At(k, "mark_row") \/ At(k, "retire_asset")
  PROVE  k \in InFlight(Posting)
BY RowInHand DEF InFlight

LEMMA ScheduleKept ==
  ASSUME NEW a \in FixedAssets, ScheduleSound(a),
         \A k \in Slots : call'[k] # call[k] =>
           /\ ~(call[k].doc = a /\ call[k].at = "schedule_asset")
           /\ ~(call'[k].doc = a /\ call'[k].at = "schedule_asset"),
         asset'[a] = "absent" => asset[a] = "absent",
         posted[a] = <<>> => posted'[a] = <<>>
  PROVE  ScheduleSound(a)'
<1>1. Scheduling(a)' = Scheduling(a)
  BY DEF Scheduling, InFlight, At
<1> QED BY <1>1 DEF ScheduleSound

\* Requests about the depreciation, entries, and what is posted stay; rows may
\* be added.
LEMMA RunsKept ==
  ASSUME Served, Served', DepreciationWhole,
         \A a \in FixedAssets : journal'[a] = journal[a] /\ PostedRows(a)' = PostedRows(a),
         \A x : Unposted(x) => Unposted(x)',
         \A k \in Slots : call[k].doc = Posting \/ call'[k].doc = Posting => call'[k] = call[k]
  PROVE  DepreciationWhole'
<1>1. InFlight(Posting)' = InFlight(Posting) /\ \A k \in InFlight(Posting) : call'[k] = call[k]
  BY DEF InFlight
<1>2. \A k \in InFlight(Posting)' : RowsAhead(k)'
  <2> SUFFICES ASSUME NEW k \in InFlight(Posting)
               PROVE  RowsAhead(k)'
    BY <1>1
  <2>1. RowsAhead(k) /\ Todo(k)' = Todo(k) /\ \A place : At(k, place)' <=> At(k, place)
    BY <1>1 DEF DepreciationWhole, At, Todo
  <2> QED BY <2>1 DEF RowsAhead
<1>3. ASSUME NEW a \in FixedAssets
      PROVE  RowsLogged(a)'
  <2>1. PICK q : Logged(a, q) /\ ToSet(q) = PostedRows(a) \cup Handed(a)
    BY DEF DepreciationWhole, RowsLogged
  <2>2. \A k \in Slots : At(k, "mark_row") => k \in InFlight(Posting)
    BY InHandPosting
  <2>3. \A k \in Slots : At(k, "mark_row")' => k \in InFlight(Posting)'
    BY DEF Served, Placed, ForAssets, At, InFlight
  <2>4. InHand(a)' = InHand(a) /\ \A k \in InHand(a) : Row(k)' = Row(k)
    BY <1>1, <2>2, <2>3 DEF InHand, At, Row, Todo
  <2>5. Handed(a)' = Handed(a)
    BY <2>4 DEF Handed
  <2>6. Logged(a, q)'
    BY <2>1 DEF Logged
  <2> QED BY <2>1, <2>5, <2>6 DEF RowsLogged
<1> QED BY <1>2, <1>3 DEF DepreciationWhole

\* Nothing of the assets changes, nor any request about them.
LEMMA DepreciationKept ==
  ASSUME Served, Served', DepreciationSound, crossed \subseteq crossed', cut \subseteq cut',
         UNCHANGED assetVars, \A a \in FixedAssets : journal'[a] = journal[a],
         \A k \in Slots : call[k].doc \in AssetDocs \/ call'[k].doc \in AssetDocs => call'[k] = call[k]
  PROVE  DepreciationSound'
<1>1. Posting \in AssetDocs /\ \A a \in FixedAssets : a \in AssetDocs
  BY DEF AssetDocs
<1>2. ASSUME NEW a \in FixedAssets
      PROVE  ScheduleSound(a)'
  BY <1>1, ScheduleKept DEF DepreciationSound, assetVars
<1>3. ASSUME Undisturbed(Posting)'
      PROVE  DepreciationWhole'
  <2>1. DepreciationWhole
    BY <1>3 DEF DepreciationSound, Undisturbed
  <2>2. /\ \A a \in FixedAssets : PostedRows(a)' = PostedRows(a)
        /\ \A x : Unposted(x) => Unposted(x)'
    BY DEF PostedRows, Unposted, assetVars
  <2> QED BY <1>1, <2>1, <2>2, RunsKept
<1> QED BY <1>2, <1>3 DEF DepreciationSound

\* While one request is about the depreciation, only its row is in hand.
LEMMA LoneRun ==
  ASSUME Served, NEW k \in Slots, InFlight(Posting) \subseteq {k}, NEW b
  PROVE  Handed(b) = IF At(k, "mark_row") /\ Row(k)[1] = b THEN {Row(k)[2]} ELSE {}
<1>1. \A j \in InHand(b) : j = k
  BY InHandPosting DEF InHand
<1>2. InHand(b) = IF At(k, "mark_row") /\ Row(k)[1] = b THEN {k} ELSE {}
  BY <1>1 DEF InHand
<1> QED BY <1>2 DEF Handed

LEMMA LoneRunNext ==
  ASSUME Served', NEW k \in Slots, InFlight(Posting)' \subseteq {k}, NEW b
  PROVE  Handed(b)' = IF At(k, "mark_row")' /\ (Row(k)[1])' = b THEN {(Row(k)[2])'} ELSE {}
<1>1. \A j \in Slots : At(j, "mark_row")' => j \in InFlight(Posting)'
  BY DEF Served, Placed, ForAssets, At, InFlight
<1>2. \A j \in InHand(b)' : j = k
  BY <1>1 DEF InHand
<1>3. InHand(b)' = IF At(k, "mark_row")' /\ (Row(k)[1])' = b THEN {k} ELSE {}
  BY <1>2 DEF InHand
<1> QED BY <1>3 DEF Handed

\* What is known of a request of postDue that nothing disturbed, and goes on.
LEMMA RunGoesOn ==
  ASSUME Typed, Served', DepreciationSound, NEW k \in Slots, call[k].doc = Posting,
         NEW place, NEW todo,
         \/ Goto(k, place) /\ todo = Todo(k)
         \/ GotoLeft(k, place, todo)
         \/ Leave(k) /\ place = "free" /\ todo = <<>>,
         Undisturbed(Posting)'
  PROVE  /\ \A b \in FixedAssets : RowsLogged(b)
         /\ RowsAhead(k)
         /\ At(k, place)' /\ Todo(k)' = todo
         /\ \A j \in InFlight(Posting)' : j = k
         /\ \A b : Handed(b) = IF At(k, "mark_row") /\ Row(k)[1] = b THEN {Row(k)[2]} ELSE {}
         /\ \A b : Handed(b)' = IF place = "mark_row" /\ Head(todo)[1] = b THEN {Head(todo)[2]} ELSE {}
<1>1. Undisturbed(Posting) /\ Posting \in Docs /\ Posting # None
  BY AreDocs DEF Undisturbed, Goto, GotoLeft, Leave, AssetDocs
<1>2. InFlight(Posting) = {k}
  BY <1>1 DEF Typed, Alone, InFlight, Undisturbed
<1>3. DepreciationWhole
  BY <1>1 DEF DepreciationSound
<1>4. At(k, place)' /\ Todo(k)' = todo /\ \A j \in Slots : j # k => call'[j] = call[j]
  <2>0. call = [j \in Slots |-> call[j]] /\ Record(call[k])
    BY DEF Typed, Served, Placed
  <2>1. CASE Goto(k, place) /\ todo = Todo(k)
    BY <2>0, <2>1 DEF Goto, At, Todo, Record
  <2>2. CASE GotoLeft(k, place, todo)
    BY <2>0, <2>2 DEF GotoLeft, At, Todo, Record
  <2>3. CASE Leave(k) /\ place = "free" /\ todo = <<>>
    BY <2>0, <2>3 DEF Leave, At, Todo, Free
  <2> QED BY <2>1, <2>2, <2>3
<1>5. InFlight(Posting)' \subseteq {k}
  BY <1>2, <1>4 DEF InFlight
<1>6. \A b : Handed(b) = IF At(k, "mark_row") /\ Row(k)[1] = b THEN {Row(k)[2]} ELSE {}
  BY <1>2, LoneRun DEF Typed
<1>7. \A b : Handed(b)' = IF At(k, "mark_row")' /\ (Row(k)[1])' = b THEN {(Row(k)[2])'} ELSE {}
  BY <1>5, LoneRunNext
<1>8. At(k, "mark_row")' <=> place = "mark_row"
  BY <1>4 DEF At
<1>9. (Row(k)[1])' = Head(todo)[1] /\ (Row(k)[2])' = Head(todo)[2]
  BY <1>4 DEF Row
<1> QED BY <1>2, <1>3, <1>4, <1>5, <1>6, <1>7, <1>8, <1>9 DEF DepreciationWhole

\* A list whose head is taken out.
LEMMA Shorter ==
  ASSUME NEW S, NEW todo \in Seq(S), todo # <<>>
  PROVE  /\ 1 \in DOMAIN todo /\ todo[1] = Head(todo)
         /\ \A i \in DOMAIN Tail(todo) : i + 1 \in DOMAIN todo /\ i + 1 # 1 /\ Tail(todo)[i] = todo[i + 1]
         /\ \A i, j \in DOMAIN Tail(todo) : i + 1 = j + 1 => i = j
  OBVIOUS

\* One more row of an asset has its entry.
LEMMA LoggedMore ==
  ASSUME NEW a \in FixedAssets, NEW q, Logged(a, q), NEW n \in 1..Purchase[a].years, n \notin ToSet(q),
         journal'[a] = Append(journal[a], RowEntry(a, n))
  PROVE  Logged(a, Append(q, n))' /\ ToSet(Append(q, n)) = ToSet(q) \cup {n}
<1> DEFINE R == 1..Purchase[a].years
           p == Append(q, n)
           m == Len(q) + 1
           E == [i \in DOMAIN q |-> RowEntry(a, q[i])]
<1>1. \A X : \A s \in Seq(X) : \A x \in X :
        /\ Append(s, x) \in Seq(X) /\ Len(s) \in Nat /\ DOMAIN s = 1..Len(s)
        /\ DOMAIN Append(s, x) = 1..(Len(s) + 1)
        /\ \A i \in 1..Len(s) : Append(s, x)[i] = s[i]
        /\ Append(s, x)[Len(s) + 1] = x
  OBVIOUS
<1>2. q \in Seq(R) /\ n \in R /\ journal[a] = E /\ \A i, j \in DOMAIN q : q[i] = q[j] => i = j
  BY DEF Logged
<1> HIDE DEF R
<1>3. /\ p \in Seq(R) /\ Len(q) \in Nat /\ DOMAIN q = 1..Len(q) /\ DOMAIN p = 1..m
      /\ \A i \in 1..Len(q) : p[i] = q[i]
      /\ p[m] = n
  BY <1>1, <1>2
<1>4. /\ \A i \in 1..m : i \in 1..Len(q) \/ i = m
      /\ \A i \in 1..Len(q) : i \in 1..m /\ i # m
      /\ m \in 1..m
  BY <1>3
<1> HIDE DEF p, m
<1>5. \A i, j \in DOMAIN p : p[i] = p[j] => i = j
  BY <1>2, <1>3, <1>4 DEF ToSet
<1>6. ToSet(p) = ToSet(q) \cup {n}
  <2>1. \A x \in ToSet(p) : x \in ToSet(q) \cup {n}
    BY <1>3, <1>4 DEF ToSet
  <2>2. \A x \in ToSet(q) : x \in ToSet(p)
    BY <1>3, <1>4 DEF ToSet
  <2>3. n \in ToSet(p)
    BY <1>3, <1>4 DEF ToSet
  <2> QED BY <2>1, <2>2, <2>3
<1>7. Append(E, RowEntry(a, n)) = [i \in DOMAIN p |-> RowEntry(a, p[i])]
  <2> DEFINE X == {RowEntry(a, i) : i \in R}
  <2>1. DOMAIN E = 1..Len(q) /\ \A i \in 1..Len(q) : q[i] \in R
    BY <1>2, <1>3
  <2>2. E \in [1..Len(q) -> X] /\ RowEntry(a, n) \in X
    BY <1>2, <2>1
  <2> HIDE DEF X
  <2>3. E \in Seq(X) /\ Len(E) = Len(q)
    BY <1>3, <2>1, <2>2
  <2>4. /\ DOMAIN Append(E, RowEntry(a, n)) = 1..m
        /\ \A i \in 1..Len(q) : Append(E, RowEntry(a, n))[i] = E[i]
        /\ Append(E, RowEntry(a, n))[m] = RowEntry(a, n)
    BY <1>1, <2>2, <2>3 DEF m
  <2>5. \A i \in 1..m : Append(E, RowEntry(a, n))[i] = RowEntry(a, p[i])
    BY <1>3, <1>4, <2>1, <2>4
  <2>6. Append(E, RowEntry(a, n)) \in Seq(X)
    BY <1>1, <2>2, <2>3
  <2> HIDE DEF E
  <2>7. Append(E, RowEntry(a, n)) = [i \in 1..m |-> Append(E, RowEntry(a, n))[i]]
    <3>1. \A Y : \A s \in Seq(Y) : s = [i \in DOMAIN s |-> s[i]]
      OBVIOUS
    <3> QED BY <2>4, <2>6, <3>1
  <2> QED BY <1>3, <2>5, <2>7
<1> QED BY <1>2, <1>3, <1>5, <1>6, <1>7 DEF Logged, p, R

\* A schedule is written once, before its rows are due.
LEMMA SchedulesKept ==
  ASSUME Typed, NEW k \in Slots, AssetsStep(k), NEW b \in FixedAssets, ScheduleSound(b)
  PROVE  ScheduleSound(b)'
<1> USE DEF Typed
<1>0. /\ call = [j \in Slots |-> call[j]] /\ Placed(call[k])
      /\ asset = [a \in FixedAssets |-> asset[a]] /\ posted = [a \in FixedAssets |-> posted[a]]
  BY DEF Served, AssetsTyped
<1>1. ASSUME NEW a \in FixedAssets, CreateAsset(k, a)
      PROVE  ScheduleSound(b)'
  <2>1. /\ asset[a] = "absent" /\ asset'[a] = "IN_SERVICE" /\ posted' = posted
        /\ \A c \in FixedAssets : c # a => asset'[c] = asset[c]
        /\ call[k].at = "free" /\ call[k].doc = None
        /\ call'[k].doc = a /\ call'[k].at = "schedule_asset"
        /\ \A j \in Slots : j # k => call'[j] = call[j]
    BY <1>0, <1>1 DEF CreateAsset, Enter, At, Placed
  <2>2. CASE b = a
    <3>1. Scheduling(a) = {} /\ posted[a] = <<>>
      BY <2>1, <2>2 DEF ScheduleSound
    <3>2. \A j \in Scheduling(a)' : j = k
      BY <2>1, <3>1 DEF Scheduling, InFlight, At
    <3> QED BY <2>1, <2>2, <3>1, <3>2 DEF ScheduleSound
  <2>3. CASE b # a
    BY <2>1, <2>3, ScheduleKept
  <2> QED BY <2>2, <2>3
<1>2. ASSUME NEW a \in FixedAssets, Dispose(k, a)
      PROVE  ScheduleSound(b)'
  <2>1. /\ asset' = asset /\ posted' = posted
        /\ call[k].at = "free" /\ call'[k].at = "dispose_asset"
        /\ \A j \in Slots : j # k => call'[j] = call[j]
    BY <1>0, <1>2 DEF Dispose, Enter, At, Placed, assetVars
  <2> QED BY <2>1, ScheduleKept
<1>3. CASE GenerateSchedule(k)
  <2>1. /\ call[k].at = "schedule_asset" /\ call[k].doc \in FixedAssets /\ asset' = asset
        /\ \A c \in FixedAssets : c # call[k].doc => posted'[c] = posted[c]
        /\ call'[k] = Free /\ \A j \in Slots : j # k => call'[j] = call[j]
    BY <1>0, <1>3 DEF GenerateSchedule, Leave, At, Doc, Placed, ForAssets
  <2>2. CASE b = call[k].doc
    <3>1. k \in Scheduling(b)
      BY <2>1, <2>2 DEF Scheduling, InFlight, At
    <3>2. asset[b] # "absent" /\ \A j \in Scheduling(b) : j = k
      BY <3>1 DEF ScheduleSound
    <3>3. Scheduling(b)' = {}
      BY <2>1, <3>2 DEF Scheduling, InFlight, At, Free
    <3> QED BY <2>1, <3>2, <3>3 DEF ScheduleSound
  <2>3. CASE b # call[k].doc
    BY <2>1, <2>3, ScheduleKept DEF Free
  <2> QED BY <2>2, <2>3
<1>4. CASE MarkDisposed(k)
  <2>1. /\ call[k].at = "dispose_asset" /\ call'[k].at = "free" /\ posted' = posted
        /\ \A c \in FixedAssets : asset'[c] = "absent" => asset[c] = "absent"
        /\ \A j \in Slots : j # k => call'[j] = call[j]
    BY <1>0, <1>4 DEF MarkDisposed, Leave, At, Doc, Free
  <2> QED BY <2>1, ScheduleKept
<1>5. ASSUME NEW n \in 1..MaxYears, PostDue(k, n)
      PROVE  ScheduleSound(b)'
  <2>1. PICK rows : Enter(k, "next_row", Posting, 0, rows)
    BY <1>5 DEF PostDue
  <2>2. /\ asset' = asset /\ posted' = posted
        /\ call[k].at = "free" /\ call'[k].at = "next_row"
        /\ \A j \in Slots : j # k => call'[j] = call[j]
    BY <1>0, <1>5, <2>1 DEF PostDue, Enter, At, assetVars
  <2> QED BY <2>2, ScheduleKept
<1>6. CASE PostRow(k) \/ SkipRow(k) \/ MarkRow(k) \/ Retire(k) \/ PostDueDone(k)
  <2>1. call[k].at \in {"next_row", "mark_row", "retire_asset"}
    BY <1>6 DEF PostRow, SkipRow, MarkRow, Retire, PostDueDone, At
  <2>2. \/ \E place \in {"mark_row", "retire_asset"} : Goto(k, place)
        \/ \E todo : GotoLeft(k, "next_row", todo)
        \/ Leave(k)
    BY <1>6 DEF PostRow, SkipRow, MarkRow, Retire, PostDueDone
  <2>3. /\ call'[k].at \in {"next_row", "mark_row", "retire_asset", "free"}
        /\ \A j \in Slots : j # k => call'[j] = call[j]
    <3>0. Record(call[k])
      BY <1>0 DEF Placed
    <3>1. CASE \E place \in {"mark_row", "retire_asset"} : Goto(k, place)
      BY <1>0, <3>0, <3>1 DEF Goto, Record
    <3>2. CASE \E todo : GotoLeft(k, "next_row", todo)
      BY <1>0, <3>0, <3>2 DEF GotoLeft, Record
    <3>3. CASE Leave(k)
      BY <1>0, <3>3 DEF Leave, Free
    <3> QED BY <2>2, <3>1, <3>2, <3>3
  <2>4. asset'[b] = "absent" => asset[b] = "absent"
    BY <1>0, <1>6 DEF PostRow, SkipRow, MarkRow, Retire, PostDueDone, assetVars
  <2>5. posted[b] = <<>> => posted'[b] = <<>>
    <3>1. CASE MarkRow(k)
      <4>1. \A x : [<<>> EXCEPT ![x] = TRUE] = <<>>
        OBVIOUS
      <4> QED BY <1>0, <3>1, <4>1 DEF MarkRow
    <3>2. CASE ~MarkRow(k)
      BY <1>6, <3>2 DEF PostRow, SkipRow, Retire, PostDueDone, assetVars
    <3> QED BY <3>1, <3>2
  <2> QED BY <2>1, <2>3, <2>4, <2>5, ScheduleKept
<1> QED BY <1>1, <1>2, <1>3, <1>4, <1>5, <1>6 DEF AssetsStep

\* The steps of postDue, and those about one asset, keep the entries and the
\* rows in step, or disturb the depreciation.
LEMMA DepreciationGoesOn ==
  ASSUME Typed, Served', DepreciationSound, NEW k \in Slots,
         PostRow(k) \/ SkipRow(k) \/ MarkRow(k) \/ Retire(k) \/ PostDueDone(k),
         Undisturbed(Posting)'
  PROVE  DepreciationWhole'
<1>0. Served /\ JournalOK /\ AssetsTyped
  BY DEF Typed
<1>1. At(k, "next_row") \/ At(k, "mark_row") \/ At(k, "retire_asset")
  BY DEF PostRow, SkipRow, MarkRow, Retire, PostDueDone
<1>2. PICK t \in Seq(AssetRows) :
        /\ Todo(k) = t /\ call[k].doc = Posting
        /\ ~At(k, "next_row") => t # <<>>
        /\ t # <<>> => Head(t) \in AssetRows
  BY <1>0, <1>1, RowInHand DEF Row
<1> DEFINE r == Head(t)
           a == r[1]
           n == r[2]
<1>3. /\ Row(k) = r
      /\ t # <<>> => r \in AssetRows /\ r = <<a, n>> /\ a \in FixedAssets /\ n \in 1..Purchase[a].years
  BY <1>2 DEF AssetRows, Row
<1>4. t # <<>> =>
        /\ 1 \in DOMAIN t /\ t[1] = r
        /\ \A i \in DOMAIN Tail(t) : i + 1 \in DOMAIN t /\ i + 1 # 1 /\ Tail(t)[i] = t[i + 1]
        /\ \A i, j \in DOMAIN Tail(t) : i + 1 = j + 1 => i = j
        /\ \A i \in DOMAIN t : t[i] \in AssetRows
  <2>1. \A i \in DOMAIN t : t[i] \in AssetRows
    BY <1>2
  <2> QED BY <1>2, <2>1, Shorter
<1> HIDE DEF r, a, n
<1> DEFINE Known(place, todo) ==
             /\ \A b \in FixedAssets : RowsLogged(b)
             /\ RowsAhead(k)
             /\ At(k, place)' /\ Todo(k)' = todo
             /\ \A j \in InFlight(Posting)' : j = k
             /\ \A b : Handed(b) = IF At(k, "mark_row") /\ a = b THEN {n} ELSE {}
             /\ \A b : Handed(b)' = IF place = "mark_row" /\ Head(todo)[1] = b THEN {Head(todo)[2]} ELSE {}
<1>5. ASSUME NEW place, NEW todo,
             \/ Goto(k, place) /\ todo = Todo(k)
             \/ GotoLeft(k, place, todo)
             \/ Leave(k) /\ place = "free" /\ todo = <<>>
      PROVE  Known(place, todo)
  <2>1. a = Row(k)[1] /\ n = Row(k)[2]
    BY <1>3 DEF a, n
  <2> HIDE DEF Known
  <2> QED BY <1>2, <1>5, <2>1, RunGoesOn DEF Known
\* The rest of the list stays different and unposted, when its rows stay so.
<1>6. ASSUME t # <<>>, RowsAhead(k), Todo(k)' = Tail(t),
             At(k, "next_row")',
             \A x \in AssetRows : Unposted(x) /\ x # r => Unposted(x)'
      PROVE  RowsAhead(k)'
  <2>1. \A i \in DOMAIN Tail(t) : Tail(t)[i] # r /\ Unposted(Tail(t)[i])
    BY <1>1, <1>2, <1>4, <1>6 DEF RowsAhead
  <2>2. \A i, j \in DOMAIN Tail(t) : Tail(t)[i] = Tail(t)[j] => i = j
    BY <1>1, <1>2, <1>4, <1>6 DEF RowsAhead
  <2> QED BY <1>6, <2>1, <2>2 DEF RowsAhead
<1>7. CASE PostRow(k)
  <2>1. /\ t # <<>> /\ At(k, "next_row") /\ ~At(k, "mark_row") /\ Goto(k, "mark_row")
        /\ posted' = posted /\ Post(a, "OD", RowEntry(a, n).lines)
    BY <1>2, <1>3, <1>7 DEF PostRow, assetVars, RowEntry, At, a, n
  <2>2. Known("mark_row", t)
    <3> HIDE DEF Known
    <3>1. Goto(k, "mark_row") /\ t = Todo(k)
      BY <1>2, <2>1
    <3> QED BY <1>5, <3>1
  <2>3. r = <<a, n>> /\ a \in FixedAssets /\ n \in 1..Purchase[a].years /\ Head(t) = r
    BY <1>3, <2>1 DEF r
  <2>4. Unposted(r)
    BY <1>2, <1>4, <2>1, <2>2 DEF RowsAhead, At
  <2>5. /\ \A b \in FixedAssets : b # a => journal'[b] = journal[b]
        /\ journal'[a] = Append(journal[a], RowEntry(a, n))
    <3>1. a \in Docs
      BY <2>3, AreDocs DEF AssetDocs
    <3>2. journal' = [journal EXCEPT ![a] = Append(@, RowEntry(a, n))]
      BY <2>1 DEF Post, RowEntry
    <3> QED BY <1>0, <3>1, <3>2 DEF JournalOK
  <2>6. RowsAhead(k)'
    BY <1>2, <2>1, <2>2 DEF RowsAhead, Unposted, At
  <2>7. ASSUME NEW b \in FixedAssets
        PROVE  RowsLogged(b)'
    <3>1. PICK q : Logged(b, q) /\ ToSet(q) = PostedRows(b) \cup Handed(b)
      BY <2>2 DEF RowsLogged
    <3>2. Handed(b) = {} /\ Handed(b)' = IF b = a THEN {n} ELSE {}
      BY <2>1, <2>2, <2>3
    <3>3. PostedRows(b)' = PostedRows(b)
      BY <2>1 DEF PostedRows
    <3>4. CASE b # a
      <4>1. Logged(b, q)'
        BY <2>5, <3>1, <3>4 DEF Logged
      <4> QED BY <3>1, <3>2, <3>3, <3>4, <4>1 DEF RowsLogged
    <3>5. CASE b = a
      <4>1. n \notin ToSet(q)
        BY <2>3, <2>4, <3>1, <3>2, <3>5 DEF Unposted, PostedRows
      <4>2. Logged(b, Append(q, n))' /\ ToSet(Append(q, n)) = ToSet(q) \cup {n}
        BY <2>3, <2>5, <3>1, <3>5, <4>1, LoggedMore
      <4> QED BY <3>1, <3>2, <3>3, <3>5, <4>2 DEF RowsLogged
    <3> QED BY <3>4, <3>5
  <2> QED BY <2>2, <2>6, <2>7 DEF DepreciationWhole
\* What is posted stays, and so do the rows with what is in hand.
<1>8. ASSUME NEW place, NEW todo, Known(place, todo), UNCHANGED journal, RowsAhead(k)',
             \A b \in FixedAssets : PostedRows(b)' \cup Handed(b)' = PostedRows(b) \cup Handed(b)
      PROVE  DepreciationWhole'
  <2>1. ASSUME NEW b \in FixedAssets
        PROVE  RowsLogged(b)'
    <3>1. PICK q : Logged(b, q) /\ ToSet(q) = PostedRows(b) \cup Handed(b)
      BY <1>8 DEF RowsLogged
    <3>2. Logged(b, q)'
      BY <1>8, <3>1 DEF Logged
    <3> QED BY <1>8, <3>1, <3>2 DEF RowsLogged
  <2> QED BY <1>8, <2>1 DEF DepreciationWhole
<1>9. CASE SkipRow(k) \/ Retire(k)
  <2>1. /\ t # <<>> /\ ~At(k, "mark_row") /\ GotoLeft(k, "next_row", Tail(t))
        /\ posted' = posted /\ UNCHANGED journal
    BY <1>2, <1>9 DEF SkipRow, Retire, assetVars, At
  <2>2. Known("next_row", Tail(t))
    BY <1>2, <1>5, <2>1
  <2>3. RowsAhead(k)'
    BY <1>6, <2>1, <2>2 DEF Unposted
  <2>4. \A b \in FixedAssets : PostedRows(b)' \cup Handed(b)' = PostedRows(b) \cup Handed(b)
    BY <2>1, <2>2 DEF PostedRows
  <2> QED BY <1>8, <2>1, <2>2, <2>3, <2>4
<1>10. CASE PostDueDone(k)
  <2>1. /\ ~At(k, "mark_row") /\ Leave(k) /\ posted' = posted /\ UNCHANGED journal
    BY <1>10 DEF PostDueDone, assetVars, At
  <2>2. Known("free", <<>>)
    BY <1>2, <1>5, <2>1
  <2>3. RowsAhead(k)'
    BY <2>2 DEF RowsAhead, At
  <2>4. \A b \in FixedAssets : PostedRows(b)' \cup Handed(b)' = PostedRows(b) \cup Handed(b)
    BY <2>1, <2>2 DEF PostedRows
  <2> QED BY <1>8, <2>1, <2>2, <2>3, <2>4
<1>11. CASE MarkRow(k)
  <2>1. At(k, "mark_row") /\ ~At(k, "next_row") /\ t # <<>> /\ UNCHANGED journal
    BY <1>2, <1>11 DEF MarkRow, At
  <2>2. r = <<a, n>> /\ a \in FixedAssets /\ n \in 1..Purchase[a].years
    BY <1>3, <2>1
  <2>3. \/ Goto(k, "retire_asset")
        \/ GotoLeft(k, "next_row", Tail(t))
    BY <1>2, <1>11 DEF MarkRow
  <2>4. Known("retire_asset", t) \/ Known("next_row", Tail(t))
    BY <1>2, <1>5, <2>3
  <2>5. /\ RowsAhead(k) /\ \A b \in FixedAssets : Handed(b)' = {}
        /\ \A b \in FixedAssets : Handed(b) = IF b = a THEN {n} ELSE {}
    BY <2>1, <2>4
  <2>6. Unposted(r)
    BY <1>2, <1>4, <2>1, <2>5 DEF RowsAhead, At
  <2>7. /\ \A b \in FixedAssets : b # a => posted'[b] = posted[b]
        /\ DOMAIN posted'[a] = DOMAIN posted[a] /\ posted'[a][n]
        /\ \A m : m # n => (m \in DOMAIN posted[a] => posted'[a][m] = posted[a][m])
    <3>1. posted' = [posted EXCEPT ![a][n] = TRUE]
      BY <1>3, <1>11 DEF MarkRow, a, n
    <3>2. n \in DOMAIN posted[a] /\ posted[a] \in [1..Purchase[a].years -> BOOLEAN]
      BY <1>0, <2>2, <2>6 DEF Unposted, AssetsTyped
    <3>3. posted = [b \in FixedAssets |-> posted[b]]
      BY <1>0 DEF AssetsTyped
    <3> QED BY <2>2, <3>1, <3>2, <3>3
  <2>8. PostedRows(a)' = PostedRows(a) \cup {n}
    BY <2>2, <2>6, <2>7 DEF PostedRows, Unposted
  <2>9. \A b \in FixedAssets : b # a => PostedRows(b)' = PostedRows(b)
    BY <2>7 DEF PostedRows
  <2>10. \A b \in FixedAssets : PostedRows(b)' \cup Handed(b)' = PostedRows(b) \cup Handed(b)
    BY <2>5, <2>8, <2>9
  <2>11. \A x \in AssetRows : Unposted(x) /\ x # r => Unposted(x)'
    <3> SUFFICES ASSUME NEW x \in AssetRows, Unposted(x), x # r
                 PROVE  Unposted(x)'
      OBVIOUS
    <3>1. x = <<x[1], x[2]>> /\ x[1] \in FixedAssets
      BY DEF AssetRows
    <3>2. x[1] # a \/ x[2] # n
      BY <2>2, <3>1
    <3> QED BY <2>7, <3>1, <3>2 DEF Unposted
  <2>12. RowsAhead(k)'
    <3>1. CASE Known("next_row", Tail(t))
      BY <1>6, <2>1, <2>5, <2>11, <3>1
    <3>2. CASE Known("retire_asset", t)
      <4>1. \A i \in DOMAIN t : i # 1 => Unposted(t[i]) /\ t[i] # r
        BY <1>2, <1>4, <2>1, <2>5 DEF RowsAhead, At
      <4>2. \A i \in DOMAIN t : i # 1 => Unposted(t[i])'
        BY <1>4, <2>1, <2>11, <4>1
      <4> QED BY <1>2, <2>1, <2>5, <3>2, <4>2 DEF RowsAhead
    <3> QED BY <2>4, <3>1, <3>2
  <2> QED BY <1>8, <2>1, <2>4, <2>10, <2>12
<1> QED BY <1>7, <1>9, <1>10, <1>11

\* postDue starts: it reads rows that are not posted, each once.
LEMMA DepreciationStarts ==
  ASSUME Typed, Served', DepreciationSound, NEW k \in Slots, NEW n, PostDue(k, n),
         Undisturbed(Posting)'
  PROVE  DepreciationWhole'
<1>1. PICK rows \in SetToSeqs(DueRows(n)) : Enter(k, "next_row", Posting, 0, rows)
  BY DEF PostDue
<1>2. UNCHANGED <<journal, asset, posted>>
  BY DEF PostDue, assetVars
<1>3. InFlight(Posting) = {} /\ Undisturbed(Posting)
  BY <1>1 DEF Enter, Undisturbed
<1>4. DepreciationWhole
  BY <1>3 DEF DepreciationSound
<1>5. At(k, "next_row")' /\ Todo(k)' = rows /\ \A j \in Slots : j # k => call'[j] = call[j]
  BY <1>1 DEF Typed, Served, Enter, At, Todo
<1>6. InFlight(Posting)' \subseteq {k}
  BY <1>3, <1>5 DEF InFlight
<1>7. \A i, j \in DOMAIN rows : rows[i] = rows[j] => i = j
  BY DEF SetToSeqs
<1>8. \A i \in DOMAIN rows : Unposted(rows[i])'
  <2> TAKE i \in DOMAIN rows
  <2>1. rows[i] \in DueRows(n)
    BY DEF SetToSeqs
  <2> QED BY <1>2, <2>1 DEF DueRows, Unposted
<1>9. \A j \in InFlight(Posting)' : RowsAhead(j)'
  BY <1>5, <1>6, <1>7, <1>8 DEF RowsAhead
<1>10. ASSUME NEW a \in FixedAssets
       PROVE  RowsLogged(a)'
  <2>1. PICK q : Logged(a, q) /\ ToSet(q) = PostedRows(a) \cup Handed(a)
    BY <1>4 DEF DepreciationWhole, RowsLogged
  <2>2. Handed(a) = {}
    <3>1. InHand(a) = {}
      BY <1>3, InHandPosting DEF InHand, Typed
    <3> QED BY <3>1 DEF Handed
  <2>3. Handed(a)' = {}
    <3>1. ~At(k, "mark_row")'
      BY <1>5 DEF At
    <3> QED BY <1>6, <3>1, LoneRunNext
  <2>4. Logged(a, q)' /\ PostedRows(a)' = PostedRows(a)
    BY <1>2, <2>1 DEF Logged, PostedRows
  <2> QED BY <2>1, <2>2, <2>3, <2>4 DEF RowsLogged
<1> QED BY <1>9, <1>10 DEF DepreciationWhole

LEMMA AssetsKeepSound ==
  ASSUME Typed, Served', DepreciationSound, NEW k \in Slots, AssetsStep(k)
  PROVE  DepreciationSound'
<1>0. /\ Served /\ call = [j \in Slots |-> call[j]] /\ Placed(call[k])
      /\ posted = [a \in FixedAssets |-> posted[a]] /\ Posting \notin FixedAssets /\ Posting # None
  BY Kinds, AreDocs DEF Typed, Served, AssetsTyped, AssetDocs
<1>1. \A a \in FixedAssets : ScheduleSound(a)'
  BY SchedulesKept DEF DepreciationSound
<1>2. ASSUME Undisturbed(Posting)'
      PROVE  DepreciationWhole'
  <2>1. CASE \E a \in FixedAssets : CreateAsset(k, a) \/ Dispose(k, a)
    <3>1. PICK a \in FixedAssets : CreateAsset(k, a) \/ Dispose(k, a)
      BY <2>1
    <3>2. /\ UNCHANGED <<journal, posted>> /\ cut' = cut /\ crossed \subseteq crossed'
          /\ call[k].doc = None /\ call'[k].doc = a /\ \A j \in Slots : j # k => call'[j] = call[j]
      BY <1>0, <3>1 DEF CreateAsset, Dispose, Enter, At, Placed, assetVars
    <3>3. DepreciationWhole
      BY <1>2, <3>2 DEF DepreciationSound, Undisturbed
    <3>4. /\ \A b \in FixedAssets : PostedRows(b)' = PostedRows(b) /\ journal'[b] = journal[b]
          /\ \A x : Unposted(x) => Unposted(x)'
      BY <3>2 DEF PostedRows, Unposted
    <3>5. \A j \in Slots : call[j].doc = Posting \/ call'[j].doc = Posting => call'[j] = call[j]
      BY <1>0, <3>2
    <3> QED BY <1>0, <3>3, <3>4, <3>5, RunsKept
  <2>2. CASE GenerateSchedule(k) \/ MarkDisposed(k)
    <3>1. PICK a \in FixedAssets : call[k].doc = a
      BY <1>0, <2>2 DEF GenerateSchedule, MarkDisposed, At, Placed, ForAssets
    <3>2. /\ UNCHANGED <<journal, crossed, cut>> /\ call'[k] = Free
          /\ \A j \in Slots : j # k => call'[j] = call[j]
      BY <1>0, <2>2 DEF GenerateSchedule, MarkDisposed, Leave
    <3>3. DepreciationWhole
      BY <1>2, <3>2 DEF DepreciationSound, Undisturbed
    <3>4. UNCHANGED posted \/ (/\ posted' = [posted EXCEPT ![a] = [n \in 1..Purchase[a].years |-> FALSE]]
                               /\ posted[a] = <<>>)
      <4>1. CASE MarkDisposed(k)
        BY <4>1 DEF MarkDisposed
      <4>2. CASE GenerateSchedule(k)
        <5>1. k \in Scheduling(a)
          BY <3>1, <4>2 DEF GenerateSchedule, Scheduling, InFlight
        <5>2. posted[a] = <<>>
          BY <5>1 DEF DepreciationSound, ScheduleSound
        <5> QED BY <3>1, <4>2, <5>2 DEF GenerateSchedule, Doc
      <4> QED BY <2>2, <4>1, <4>2
    <3>5. /\ \A b \in FixedAssets : PostedRows(b)' = PostedRows(b)
          /\ \A x : Unposted(x) => Unposted(x)'
      <4>1. CASE UNCHANGED posted
        BY <4>1 DEF PostedRows, Unposted
      <4>2. CASE /\ posted' = [posted EXCEPT ![a] = [n \in 1..Purchase[a].years |-> FALSE]]
                 /\ posted[a] = <<>>
        <5>1. /\ \A b \in FixedAssets : b # a => posted'[b] = posted[b]
              /\ posted'[a] = [n \in 1..Purchase[a].years |-> FALSE]
              /\ DOMAIN posted[a] = {}
          BY <1>0, <4>2
        <5>2. PostedRows(a)' = {} /\ PostedRows(a) = {}
          BY <5>1 DEF PostedRows
        <5>3. \A b \in FixedAssets : b # a => PostedRows(b)' = PostedRows(b)
          BY <5>1 DEF PostedRows
        <5>4. \A x : Unposted(x) => Unposted(x)'
          <6>1. \A b : b # a => posted'[b] = posted[b]
            BY <1>0, <4>2, <5>1
          <6> QED BY <5>1, <6>1 DEF Unposted
        <5> QED BY <5>2, <5>3, <5>4
      <4> QED BY <3>4, <4>1, <4>2
    <3>6. \A j \in Slots : call[j].doc = Posting \/ call'[j].doc = Posting => call'[j] = call[j]
      BY <1>0, <3>1, <3>2 DEF Free
    <3>7. \A b \in FixedAssets : journal'[b] = journal[b]
      BY <3>2
    <3> QED BY <1>0, <3>3, <3>5, <3>6, <3>7, RunsKept
  <2>3. CASE \E n \in 1..MaxYears : PostDue(k, n)
    BY <1>2, <2>3, DepreciationStarts
  <2>4. CASE PostRow(k) \/ SkipRow(k) \/ MarkRow(k) \/ Retire(k) \/ PostDueDone(k)
    BY <1>2, <2>4, DepreciationGoesOn
  <2> QED BY <2>1, <2>2, <2>3, <2>4 DEF AssetsStep
<1> QED BY <1>1, <1>2 DEF DepreciationSound

LEMMA DepreciationStep ==
  ASSUME Typed, DepreciationSound, [Next]_vars
  PROVE  DepreciationSound'
<1>0. Served /\ Served'
  BY TypedStep DEF Typed
<1>1. ASSUME NEW k \in Slots, Step(k)
      PROVE  DepreciationSound'
  <2>1. CASE AssetsStep(k)
    BY <1>0, <2>1, AssetsKeepSound
  <2>2. CASE ~AssetsStep(k)
    <3>1. /\ UNCHANGED assetVars
          /\ \E D \in {InvoiceDocs, TreasuryDocs, PeopleDocs, Runs, StatementDocs, Manuals} : Took(k, D)
      BY <1>1, <2>2, StepTurns
    <3>2. PICK D \in {InvoiceDocs, TreasuryDocs, PeopleDocs, Runs, StatementDocs, Manuals} : Took(k, D)
      BY <3>1
    <3>3. \A d \in AssetDocs : d \in Docs \ D
      BY AreDocs, Kinds DEF InvoiceDocs, AssetDocs
    <3>4. \A d \in AssetDocs : Away(d)
      BY <3>2, <3>3, TookKeeps
    <3>5. Posting \in AssetDocs /\ FixedAssets \subseteq AssetDocs
      BY DEF AssetDocs
    <3> QED BY <1>0, <3>1, <3>4, <3>5, DepreciationKept DEF Away
  <2> QED BY <2>1, <2>2
<1>2. CASE Restart
  <2>1. /\ UNCHANGED <<journal, assetVars>>
        /\ crossed' = crossed /\ cut \subseteq cut'
        /\ \A k \in Slots : call'[k] = Free
        /\ \A k \in Slots : call[k].doc # None => call[k].doc \in cut'
    BY <1>2, RestartKeeps DEF Restart, Components, Typed
  <2>2. ASSUME NEW a \in FixedAssets
        PROVE  ScheduleSound(a)'
    <3>1. \A k \in Slots : call'[k].at # "schedule_asset"
      BY <2>1 DEF Free
    <3>2. Scheduling(a)' = {}
      BY <3>1 DEF Scheduling, InFlight, At
    <3> QED BY <2>1, <3>2 DEF DepreciationSound, ScheduleSound, assetVars
  <2>3. ASSUME Undisturbed(Posting)'
        PROVE  DepreciationWhole'
    <3>1. DepreciationWhole /\ Posting # None
      BY <2>1, <2>3, AreDocs DEF DepreciationSound, Undisturbed, AssetDocs
    <3>2. \A k \in Slots : call[k].doc # Posting /\ call'[k].doc # Posting
      BY <2>1, <2>3, <3>1 DEF Undisturbed, Free
    <3>3. /\ \A a \in FixedAssets : journal'[a] = journal[a] /\ PostedRows(a)' = PostedRows(a)
          /\ \A x : Unposted(x) => Unposted(x)'
      BY <2>1 DEF PostedRows, Unposted, assetVars
    <3> QED BY <1>0, <3>1, <3>2, <3>3, RunsKept
  <2> QED BY <2>2, <2>3 DEF DepreciationSound
<1>3. CASE UNCHANGED vars
  <2>1. UNCHANGED <<journal, assetVars, call, crossed, cut>>
    BY <1>3 DEF vars, callVars
  <2> QED BY <1>0, <2>1, DepreciationKept
<1> QED BY <1>1, <1>2, <1>3 DEF Next

LEMMA DepreciationIsOnce ==
  ASSUME Typed, DepreciationSound
  PROVE  DepreciatedOnce
<1> SUFFICES ASSUME NEW a \in FixedAssets, Undisturbed(Posting), InHand(a) = {}
             PROVE  /\ OnAccount(a, Purchase[a].account) = SumFunction([n \in PostedRows(a) |-> Amount(a, n)])
                    /\ OnAccount(a, Purchase[a].account) <= Max({Base(a), 0}) + Rounding(a)
                    /\ Cardinality(PostedRows(a)) = Purchase[a].years =>
                         OnAccount(a, Purchase[a].account) = Base(a)
  BY DEF DepreciatedOnce
<1> DEFINE y == Purchase[a].years
           P == PostedRows(a)
           f == [n \in P |-> Amount(a, n)]
<1>1. PICK q : Logged(a, q) /\ ToSet(q) = P \cup Handed(a)
  BY DEF DepreciationSound, DepreciationWhole, RowsLogged
<1>2. Handed(a) = {}
  BY DEF Handed
<1>3. OnAccount(a, Purchase[a].account) = SumFunctionOnSet(Amounts(a), P)
  BY <1>1, <1>2, CreditedRows DEF Typed
<1>4. y \in Nat \ {0}
  BY Bought
<1>5. IsFiniteSet(1..y) /\ Cardinality(1..y) = y
  <2>1. y \in Int
    BY <1>4
  <2> QED BY <1>4, <2>1, FS_Interval
<1>6. P \subseteq 1..y
  BY DEF PostedRows, Typed, AssetsTyped
<1>7. IsFiniteSet(P)
  BY <1>5, <1>6, FS_Subset
<1>8. \A n \in P : Amounts(a)[n] = f[n]
  BY <1>6 DEF Amounts
<1>9. SumFunctionOnSet(Amounts(a), P) = SumFunctionOnSet(f, P)
  <2> HIDE DEF f, P
  <2> QED BY <1>7, <1>8, SumSame
<1>10. SumFunction(f) = SumFunctionOnSet(f, P)
  BY DEF SumFunction
<1>11. SumFunctionOnSet(Amounts(a), P) <= Max({Base(a), 0}) + Rounding(a)
  <2>1. Base(a) \in Int /\ Max({Base(a), 0}) = (IF Base(a) >= 0 THEN Base(a) ELSE 0)
    BY Bought, MaxMin
  <2>2. Rounding(a) \in Nat
    BY <1>4 DEF Rounding
  <2>3. CASE Base(a) \in Nat
    <3>1. SumFunctionOnSet(Amounts(a), P) <= Base(a) + Rounding(a)
      BY <1>6, <2>3, PartOfSchedule
    <3> QED BY <2>1, <2>3, <3>1
  <2>4. CASE Base(a) < 0
    <3>1. SumFunctionOnSet(Amounts(a), P) <= Rounding(a)
      BY <1>6, <2>4, PartOfNegative
    <3>2. Max({Base(a), 0}) = 0
      BY <2>1, <2>4
    <3> QED BY <2>2, <3>1, <3>2
  <2> QED BY <2>1, <2>3, <2>4
<1>12. Cardinality(P) = y => P = 1..y
  BY <1>5, <1>6, FS_Subset
<1>13. Cardinality(P) = y => SumFunctionOnSet(Amounts(a), P) = Base(a)
  BY <1>12, WholeSchedule
<1> QED BY <1>3, <1>9, <1>10, <1>11, <1>13

(***************************************************************************)
(* Depreciation.  While postDue is neither run twice at once nor stopped,  *)
(* the account of an asset is credited with the amounts of its posted rows *)
(* and no other, never beyond the base but for rounding, and with exactly  *)
(* the base when every row is posted: whatever the cost, the residual      *)
(* value, the method, the years, the rows skipped and the assets disposed  *)
(* of meanwhile.                                                           *)
(***************************************************************************)
THEOREM AssetsDepreciateOnce == Spec => []DepreciatedOnce
<1>1. Init => Typed /\ DepreciationSound
  BY TypedInit, DepreciationInit
<1>2. Typed /\ DepreciationSound /\ [Next]_vars => (Typed /\ DepreciationSound)'
  BY TypedStep, DepreciationStep
<1>3. Typed /\ DepreciationSound => DepreciatedOnce
  BY DepreciationIsOnce
<1> QED BY <1>1, <1>2, <1>3, PTL DEF Spec

(***************************************************************************)
(* Lettering and matching.                                                 *)
(***************************************************************************)
\* One side of every line is empty.
LEMMA OneSided ==
  ASSUME JournalOK, NEW l \in LineIds
  PROVE  Line(l).debit = 0 \/ Line(l).credit = 0
<1>1. l[1] \in EntryIds /\ l[2] \in DOMAIN Entry(l[1]).lines /\ Line(l) = Entry(l[1]).lines[l[2]]
  BY LinesAre
<1> QED BY <1>1, EntriesAre DEF Accepts

\* A line stays what it was when entries are added.
LEMMA LinesStay ==
  ASSUME JournalOK, NEW D, D \subseteq Docs, PostedIn(D)
  PROVE  LineIds \subseteq LineIds' /\ \A l \in LineIds : Line(l)' = Line(l)
<1>1. CASE UNCHANGED journal
  BY <1>1 DEF LineIds, EntryIds, Entry, Line
<1>2. ASSUME NEW d \in D, NEW e \in Entries, journal' = [journal EXCEPT ![d] = Append(@, e)]
      PROVE  LineIds \subseteq LineIds' /\ \A l \in LineIds : Line(l)' = Line(l)
  <2>1. ASSUME NEW b \in Docs, NEW n \in DOMAIN journal[b]
        PROVE  n \in DOMAIN journal'[b] /\ journal'[b][n] = journal[b][n]
    <3>1. journal[b] \in Seq(Entries)
      BY DEF JournalOK
    <3>2. n \in DOMAIN Append(journal[b], e) /\ Append(journal[b], e)[n] = journal[b][n]
      BY <3>1, AppendProperties
    <3>3. journal'[b] = IF b = d THEN Append(journal[b], e) ELSE journal[b]
      BY <1>2 DEF JournalOK
    <3> QED BY <3>2, <3>3
  <2>2. \A x \in EntryIds : x \in EntryIds' /\ Entry(x)' = Entry(x)
    BY <2>1 DEF EntryIds, Entry
  <2>3. ASSUME NEW l \in LineIds
        PROVE  l \in LineIds' /\ Line(l)' = Line(l)
    <3>1. l = <<l[1], l[2]>> /\ l[1] \in EntryIds /\ l[2] \in DOMAIN Entry(l[1]).lines
      BY LinesAre
    <3>2. l[1] \in EntryIds' /\ Entry(l[1])' = Entry(l[1])
      BY <2>2, <3>1
    <3> QED BY <3>1, <3>2 DEF LineIds, Line
  <2> QED BY <2>3
<1> QED BY <1>1, <1>2 DEF PostedIn

-----------------------------------------------------------------------------
\* autoMatchLettrage gives d the first credit of its amount that is free.
TakePair(account, pairs, d) ==
  LET fit == {c \in FreeLines(account, "credit") \ UNION ToSet(pairs) : Line(c).credit = Line(d).debit}
  IN IF fit = {} THEN pairs ELSE Append(pairs, {d, CHOOSE c \in fit : TRUE})

LEMMA PairsRun ==
  ASSUME JournalOK, NEW A, NEW seq, seq = SetToSeq(FreeLines(A, "debit"))
  PROVE  /\ Len(seq) \in Nat /\ \A n \in 1..Len(seq) : seq[n] \in FreeLines(A, "debit")
         /\ \A m, n \in 1..Len(seq) : seq[m] = seq[n] => m = n
         /\ \E g \in [0..Len(seq) -> Seq(SUBSET LineIds)] :
              /\ g[0] = <<>> /\ Pairs(A) = g[Len(seq)]
              /\ \A n \in 1..Len(seq) : g[n] = TakePair(A, g[n - 1], seq[n])
<1> DEFINE S == FreeLines(A, "debit")
           Acc == Seq(SUBSET LineIds)
           step == [p \in Acc \X S |-> TakePair(A, p[1], p[2])]
           Recurs(h) == h = [s \in SUBSET DOMAIN seq |->
                               IF s = {} THEN <<>>
                               ELSE TakePair(A, h[s \ {Max(s)}], seq[Max(s)])]
           it == CHOOSE h : Recurs(h)
<1>1. S \subseteq LineIds /\ IsFiniteSet(S)
  BY FiniteBooks, FS_Subset DEF FreeLines, LinesOf
<1>2. seq \in Seq(S) /\ \A m, n \in DOMAIN seq : seq[m] = seq[n] => m = n
  <2> HIDE DEF S
  <2>1. \A q : q = SetToSeq(S) => q \in Seq(S) /\ \A m, n \in DOMAIN q : q[m] = q[n] => m = n
    BY <1>1, Listing
  <2> QED BY <2>1 DEF S
<1>3. /\ Len(seq) \in Nat /\ DOMAIN seq = 1..Len(seq) /\ \A n \in DOMAIN seq : seq[n] \in S
  BY <1>2, LenProperties
<1>4. ASSUME NEW p \in Acc, NEW d \in S
      PROVE  TakePair(A, p, d) \in Acc
  <2> DEFINE fit == {c \in FreeLines(A, "credit") \ UNION ToSet(p) : Line(c).credit = Line(d).debit}
             c == CHOOSE c \in fit : TRUE
  <2>1. CASE fit = {}
    BY <2>1 DEF TakePair
  <2>2. CASE fit # {}
    <3>1. c \in fit /\ fit \subseteq LineIds
      BY <2>2 DEF FreeLines, LinesOf
    <3>2. {d, c} \in SUBSET LineIds
      BY <1>1, <3>1
    <3>3. TakePair(A, p, d) = Append(p, {d, c})
      BY <2>2 DEF TakePair
    <3> HIDE DEF fit, c
    <3> QED BY <3>2, <3>3, AppendProperties
  <2> QED BY <2>1, <2>2
<1>5. step \in [Acc \X S -> Acc] /\ \A p \in Acc, d \in S : step[<<p, d>>] = TakePair(A, p, d)
  BY <1>4
<1>6. <<>> \in Acc
  OBVIOUS
<1> HIDE DEF S, Acc, step
<1>7a. Folding(Acc, S, <<>>, seq, step)
  BY <1>2, <1>5, <1>6 DEF Folding
<1>7. \E h : Recurs(h)
  <2>0. PICK h \in [SUBSET DOMAIN seq -> Acc] : FoldedBy(step, <<>>, seq, h)
    BY <1>7a, FoldClosed
  <2>1. h = [s \in SUBSET DOMAIN seq |-> FoldStep(step, <<>>, seq, h, s)]
    BY <2>0 DEF FoldedBy
  <2>2. ASSUME NEW s \in SUBSET DOMAIN seq, s # {}
        PROVE  FoldStep(step, <<>>, seq, h, s) = TakePair(A, h[s \ {Max(s)}], seq[Max(s)])
    <3>1. Max(s) \in DOMAIN seq
      BY <1>3, <2>2, IndexIn
    <3>2. h[s \ {Max(s)}] \in Acc /\ seq[Max(s)] \in S
      BY <1>3, <2>0, <3>1
    <3> QED BY <1>5, <2>2, <3>2 DEF FoldStep
  <2>3. FoldStep(step, <<>>, seq, h, {}) = <<>>
    BY DEF FoldStep
  <2>4. Recurs(h)
    BY <2>1, <2>2, <2>3
  <2> QED BY <2>4
<1>8. Recurs(it)
  BY <1>7
<1>9. Pairs(A) = it[DOMAIN seq]
  BY DEF Pairs, FoldLeft, MapThenFoldSet, TakePair
<1> HIDE DEF it
<1>10. it[{}] = <<>>
  BY <1>8
<1>11. ASSUME NEW s \in SUBSET DOMAIN seq, s # {}, it[s \ {Max(s)}] \in Acc
       PROVE  it[s] = step[<<it[s \ {Max(s)}], seq[Max(s)]>>]
  <2>1. Max(s) \in DOMAIN seq
    BY <1>3, <1>11, IndexIn
  <2>2. it[s] = TakePair(A, it[s \ {Max(s)}], seq[Max(s)])
    BY <1>8, <1>11
  <2> QED BY <1>3, <1>5, <1>11, <2>1, <2>2
<1>12. PICK g \in [0..Len(seq) -> Acc] :
         /\ g[0] = <<>> /\ g[Len(seq)] = it[DOMAIN seq]
         /\ \A n \in 1..Len(seq) : g[n] = step[<<g[n - 1], seq[n]>>]
  <2>1. Follows(Acc, <<>>, seq, step, it)
    BY <1>10, <1>11 DEF Follows
  <2> QED BY <1>7a, <2>1, FoldRuns
<1>13. \A n \in 1..Len(seq) : g[n] = TakePair(A, g[n - 1], seq[n])
  <2> TAKE n \in 1..Len(seq)
  <2>1. g[n - 1] \in Acc /\ seq[n] \in S
    BY <1>3, <1>12
  <2> QED BY <1>5, <1>12, <2>1
<1>14. \E f \in [0..Len(seq) -> Acc] :
         /\ f[0] = <<>> /\ Pairs(A) = f[Len(seq)]
         /\ \A n \in 1..Len(seq) : f[n] = TakePair(A, f[n - 1], seq[n])
  BY <1>9, <1>12, <1>13
<1> QED BY <1>2, <1>3, <1>14 DEF S, Acc

(***************************************************************************)
(* The pairs of an account that agree: a debit and a credit of one amount. *)
(***************************************************************************)
GoodPairs(A) ==
  {e \in SUBSET LineIds :
     \E x, y \in LinesOf(A) : /\ e = {x, y}
                              /\ Line(x).debit > 0 /\ Line(x).credit = 0
                              /\ Line(y).debit = 0 /\ Line(y).credit = Line(x).debit}

\* Pairs that share no line with one another, nor with the lines of U.
Apart(p, U) ==
  /\ \A i \in DOMAIN p : p[i] \cap U = {}
  /\ \A i, j \in DOMAIN p : i # j => p[i] \cap p[j] = {}

\* The pairs made of the debits of D.
MadeOf(A, p, D) ==
  /\ p \in Seq(GoodPairs(A)) /\ Apart(p, DOMAIN letter)
  /\ \A i \in DOMAIN p : \A x \in p[i] : Line(x).debit > 0 => x \in D

LEMMA TakeKeeps ==
  ASSUME JournalOK, NEW A, NEW D, NEW p, MadeOf(A, p, D), NEW d \in FreeLines(A, "debit"), d \notin D
  PROVE  MadeOf(A, TakePair(A, p, d), D \cup {d})
<1> DEFINE fit == {c \in FreeLines(A, "credit") \ UNION ToSet(p) : Line(c).credit = Line(d).debit}
           c == CHOOSE x \in fit : TRUE
           e == {d, c}
<1>1. CASE fit = {}
  <2>1. TakePair(A, p, d) = p
    BY <1>1 DEF TakePair
  <2> QED BY <2>1 DEF MadeOf
<1>2. CASE fit # {}
  <2>0. c \in fit
    BY <1>2
  <2>1. TakePair(A, p, d) = Append(p, e)
    BY <1>2 DEF TakePair
  <2>2. c \in FreeLines(A, "credit") /\ c \notin UNION ToSet(p) /\ Line(c).credit = Line(d).debit
    BY <2>0
  <2> HIDE DEF fit, c
  <2>3. /\ d \in LinesOf(A) /\ d \in LineIds /\ d \notin DOMAIN letter /\ Line(d).debit > 0
        /\ c \in LinesOf(A) /\ c \in LineIds /\ c \notin DOMAIN letter /\ Line(c).credit > 0
    BY <2>2 DEF FreeLines, LinesOf
  <2>4. Line(d).credit = 0 /\ Line(c).debit = 0
    <3>1. /\ Line(d).debit \in Int /\ Line(c).credit \in Int
          /\ Line(d).debit = 0 \/ Line(d).credit = 0
          /\ Line(c).debit = 0 \/ Line(c).credit = 0
      BY <2>3, LinesAre, OneSided
    <3> QED BY <2>3, <3>1
  <2>5. e \in GoodPairs(A)
    BY <2>2, <2>3, <2>4 DEF GoodPairs
  <2>6. e \cap DOMAIN letter = {} /\ \A x \in e : Line(x).debit > 0 => x = d
    BY <2>3, <2>4
  <2>7. p \in Seq(GoodPairs(A)) /\ Len(p) \in Nat /\ DOMAIN p = 1..Len(p)
    BY LenProperties DEF MadeOf
  <2>8. \A i \in DOMAIN p : p[i] \cap e = {}
    <3> SUFFICES ASSUME NEW i \in DOMAIN p, NEW x \in p[i], x \in e
                 PROVE  FALSE
      OBVIOUS
    <3>1. x # c
      BY <2>2 DEF ToSet
    <3>2. x = d
      BY <3>1
    <3>3. x \in D
      BY <2>3, <3>2 DEF MadeOf
    <3> QED BY <3>2, <3>3
  <2> HIDE DEF e
  <2> DEFINE q == Append(p, e)
  <2>9. /\ q \in Seq(GoodPairs(A)) /\ DOMAIN q = 1..(Len(p) + 1)
        /\ \A i \in 1..Len(p) : q[i] = p[i]
        /\ q[Len(p) + 1] = e
    BY <2>5, <2>7, AppendProperties, LenProperties
  <2> HIDE DEF q
  <2>10. \A i \in DOMAIN q : i \in DOMAIN p \/ i = Len(p) + 1
    BY <2>7, <2>9
  <2>11. \A i \in DOMAIN p : q[i] = p[i]
    BY <2>7, <2>9
  <2>12. Apart(q, DOMAIN letter)
    <3>1. \A i \in DOMAIN q : q[i] \cap DOMAIN letter = {}
      BY <2>6, <2>9, <2>10, <2>11 DEF MadeOf, Apart
    <3>2. ASSUME NEW i \in DOMAIN q, NEW j \in DOMAIN q, i # j
          PROVE  q[i] \cap q[j] = {}
      <4>1. CASE i \in DOMAIN p /\ j \in DOMAIN p
        BY <2>11, <3>2, <4>1 DEF MadeOf, Apart
      <4>2. CASE i \in DOMAIN p /\ j = Len(p) + 1
        BY <2>8, <2>9, <2>11, <4>2
      <4>3. CASE i = Len(p) + 1 /\ j \in DOMAIN p
        BY <2>8, <2>9, <2>11, <4>3
      <4> QED BY <2>10, <3>2, <4>1, <4>2, <4>3
    <3> QED BY <3>1, <3>2 DEF Apart
  <2>13. \A i \in DOMAIN q : \A x \in q[i] : Line(x).debit > 0 => x \in D \cup {d}
    BY <2>6, <2>9, <2>10, <2>11 DEF MadeOf
  <2>14. MadeOf(A, q, D \cup {d})
    BY <2>9, <2>12, <2>13 DEF MadeOf
  <2> QED BY <2>1, <2>14 DEF q
<1> QED BY <1>1, <1>2

\* What a request is to letter: pairs that agree, of free lines, none twice.
LEMMA PairsMatch ==
  ASSUME JournalOK, NEW A
  PROVE  Pairs(A) \in Seq(GoodPairs(A)) /\ Apart(Pairs(A), DOMAIN letter)
<1> DEFINE seq == SetToSeq(FreeLines(A, "debit"))
           n == Len(seq)
           D(m) == {seq[i] : i \in 1..m}
<1>1. /\ n \in Nat /\ \A m \in 1..n : seq[m] \in FreeLines(A, "debit")
      /\ \A i, j \in 1..n : seq[i] = seq[j] => i = j
  BY PairsRun
<1>2. PICK g \in [0..n -> Seq(SUBSET LineIds)] :
        /\ g[0] = <<>> /\ Pairs(A) = g[n]
        /\ \A m \in 1..n : g[m] = TakePair(A, g[m - 1], seq[m])
  BY PairsRun
<1> HIDE DEF seq, n
<1> DEFINE Bad == {m \in 0..n : ~MadeOf(A, g[m], D(m))}
<1>3. Bad = {}
  <2> SUFFICES ASSUME Bad # {} PROVE FALSE
    OBVIOUS
  <2>1. PICK m \in Bad : \A i \in Bad : m <= i
    <3>1. Bad \in SUBSET Nat
      BY <1>1
    <3> QED BY <3>1, LeastElement
  <2>2. m # 0
    <3>1. <<>> \in Seq(GoodPairs(A)) /\ DOMAIN <<>> = {}
      OBVIOUS
    <3>2. MadeOf(A, <<>>, D(0))
      BY <3>1 DEF MadeOf, Apart
    <3> QED BY <1>2, <2>1, <3>2
  <2>3. m \in 1..n /\ m - 1 \in 0..n /\ m - 1 \notin Bad
    BY <1>1, <2>1, <2>2
  <2>4. MadeOf(A, g[m - 1], D(m - 1))
    BY <2>3
  <2>5. seq[m] \in FreeLines(A, "debit") /\ seq[m] \notin D(m - 1) /\ D(m - 1) \cup {seq[m]} = D(m)
    <3>1. m \in 1..m /\ \A i \in 1..m : i = m \/ i \in 1..(m - 1)
      BY <1>1, <2>3
    <3>2. \A i \in 1..(m - 1) : i \in 1..n /\ i # m /\ i \in 1..m
      BY <1>1, <2>3
    <3>3. seq[m] \notin D(m - 1)
      BY <1>1, <2>3, <3>2
    <3>4. \A x : x \in D(m) <=> x \in D(m - 1) \/ x = seq[m]
      BY <3>1, <3>2
    <3> QED BY <1>1, <2>3, <3>3, <3>4
  <2> HIDE DEF D
  <2>6. MadeOf(A, TakePair(A, g[m - 1], seq[m]), D(m - 1) \cup {seq[m]})
    BY <2>4, <2>5, TakeKeeps
  <2>7. MadeOf(A, g[m], D(m))
    BY <1>2, <2>3, <2>5, <2>6
  <2> QED BY <2>1, <2>7
<1>4. n \in 0..n
  BY <1>1
<1>5. MadeOf(A, Pairs(A), D(n))
  BY <1>2, <1>3, <1>4
<1> QED BY <1>5 DEF MadeOf

-----------------------------------------------------------------------------
(***************************************************************************)
(* Lettering.  What a request is to letter agrees, and nothing else ever   *)
(* letters lines of its account; while two requests on it never met, the   *)
(* lettered lines are whole pairs and those to come share none with them.  *)
(***************************************************************************)
Coded(A, l) == letter[l] \in GoodPairs(A) /\ \A m \in letter[l] : m \in DOMAIN letter /\ letter[m] = letter[l]

LetteringSound ==
  /\ DOMAIN letter \subseteq LineIds
  /\ \A l \in DOMAIN letter : l \in letter[l]
  /\ \A k \in Slots : At(k, "next_letter") => Todo(k) \in Seq(GoodPairs(Letterings[Doc(k)]))
  /\ \A d \in DOMAIN Letterings \ crossed :
       /\ \A l \in LinesOf(Letterings[d]) \cap DOMAIN letter : Coded(Letterings[d], l)
       /\ \A k \in InFlight(d) : At(k, "next_letter") => Apart(Todo(k), DOMAIN letter)

\* The lines of before are there, and the same.
Grown == LineIds \subseteq LineIds' /\ \A l \in LineIds : Line(l)' = Line(l)

LEMMA GrownKeeps ==
  ASSUME Grown, NEW A
  PROVE  /\ GoodPairs(A) \subseteq GoodPairs(A)'
         /\ Seq(GoodPairs(A)) \subseteq Seq(GoodPairs(A)')
         /\ \A l \in LineIds : l \in LinesOf(A)' <=> l \in LinesOf(A)
<1>1. \A l \in LineIds : l \in LinesOf(A)' <=> l \in LinesOf(A)
  BY DEF Grown, LinesOf
<1>2. ASSUME NEW e \in GoodPairs(A)
      PROVE  e \in GoodPairs(A)'
  <2>1. PICK x, y \in LinesOf(A) : /\ e = {x, y}
                                   /\ Line(x).debit > 0 /\ Line(x).credit = 0
                                   /\ Line(y).debit = 0 /\ Line(y).credit = Line(x).debit
    BY DEF GoodPairs
  <2>2. x \in LineIds /\ y \in LineIds /\ x \in LinesOf(A)' /\ y \in LinesOf(A)'
    BY <1>1 DEF LinesOf
  <2>3. e \in SUBSET LineIds' /\ Line(x)' = Line(x) /\ Line(y)' = Line(y)
    BY <2>1, <2>2 DEF Grown
  <2> QED BY <2>1, <2>2, <2>3 DEF GoodPairs
<1>3. GoodPairs(A) \subseteq GoodPairs(A)'
  BY <1>2
<1> HIDE DEF GoodPairs
<1>4. \A X, Y : X \subseteq Y => Seq(X) \subseteq Seq(Y)
  BY SeqMonotonic
<1> QED BY <1>1, <1>3, <1>4

\* Nothing is lettered, and who letters was there before.
LEMMA LetteringKept ==
  ASSUME LetteringSound, Grown, letter' = letter, crossed \subseteq crossed',
         \A k \in Slots : At(k, "next_letter")' => call'[k] = call[k]
  PROVE  LetteringSound'
<1>1. DOMAIN letter' \subseteq LineIds' /\ \A l \in DOMAIN letter' : l \in letter'[l]
  BY DEF LetteringSound, Grown
<1>2. ASSUME NEW k \in Slots, At(k, "next_letter")'
      PROVE  /\ At(k, "next_letter") /\ Todo(k)' = Todo(k) /\ Doc(k)' = Doc(k)
             /\ Todo(k)' \in Seq(GoodPairs(Letterings[Doc(k)])')
  <2>1. At(k, "next_letter") /\ Todo(k)' = Todo(k) /\ Doc(k)' = Doc(k)
    BY <1>2 DEF At, Todo, Doc
  <2>2. PICK A : A = Letterings[Doc(k)]
    OBVIOUS
  <2>3. Todo(k) \in Seq(GoodPairs(A)) /\ Letterings[Doc(k)'] = A
    BY <2>1, <2>2 DEF LetteringSound
  <2>4. Todo(k)' \in Seq(GoodPairs(A)')
    BY <2>1, <2>3, GrownKeeps
  <2>5. GoodPairs(Letterings[Doc(k)])' = GoodPairs(A)'
    BY <2>3 DEF GoodPairs, LinesOf
  <2> QED BY <2>1, <2>4, <2>5
<1>3. ASSUME NEW d \in DOMAIN Letterings \ crossed'
      PROVE  /\ \A l \in LinesOf(Letterings[d])' \cap DOMAIN letter' : Coded(Letterings[d], l)'
             /\ \A k \in InFlight(d)' : At(k, "next_letter")' => Apart(Todo(k), DOMAIN letter)'
  <2>1. ASSUME NEW l \in LinesOf(Letterings[d])' \cap DOMAIN letter'
        PROVE  Coded(Letterings[d], l)'
    <3>1. l \in LinesOf(Letterings[d]) /\ l \in DOMAIN letter
      BY GrownKeeps DEF LetteringSound
    <3>2. Coded(Letterings[d], l)
      BY <3>1 DEF LetteringSound
    <3> QED BY <3>2, GrownKeeps DEF Coded
  <2>2. ASSUME NEW k \in InFlight(d)', At(k, "next_letter")'
        PROVE  Apart(Todo(k), DOMAIN letter)'
    <3>1. k \in InFlight(d) /\ At(k, "next_letter") /\ Todo(k)' = Todo(k)
      BY <1>2, <2>2 DEF InFlight, Doc
    <3>2. Apart(Todo(k), DOMAIN letter)
      BY <3>1 DEF LetteringSound
    <3> QED BY <3>1, <3>2 DEF Apart
  <2> QED BY <2>1, <2>2
<1> QED BY <1>1, <1>2, <1>3 DEF LetteringSound

\* A request reads an account and goes on to letter it.
LEMMA AutoLetterSound ==
  ASSUME Typed, LetteringSound, NEW k \in Slots, NEW d \in DOMAIN Letterings, AutoLetter(k, d)
  PROVE  LetteringSound'
<1> USE DEF Typed
<1>1. UNCHANGED <<journal, letter>>
  BY DEF AutoLetter, reconciliationVars
<1>2. PICK p : p = Pairs(Letterings[d])
  OBVIOUS
<1>3. p \in Seq(GoodPairs(Letterings[d])) /\ Apart(p, DOMAIN letter)
  BY <1>2, PairsMatch
<1>4. /\ call' = [call EXCEPT ![k] = [at |-> "next_letter", doc |-> d, sum |-> 0, todo |-> p]]
      /\ crossed' = IF InFlight(d) = {} THEN crossed ELSE crossed \cup {d}
  BY <1>2 DEF AutoLetter, Enter
<1>5. \A j \in Slots : call'[j] = IF j = k THEN [at |-> "next_letter", doc |-> d, sum |-> 0, todo |-> p]
                                           ELSE call[j]
  BY <1>4 DEF Served
<1>6. /\ \A A : GoodPairs(A)' = GoodPairs(A) /\ LinesOf(A)' = LinesOf(A)
      /\ LineIds' = LineIds
  BY <1>1 DEF GoodPairs, LinesOf, LineIds, EntryIds, Entry, Line
<1>7. ASSUME NEW j \in Slots, At(j, "next_letter")'
      PROVE  Todo(j)' \in Seq(GoodPairs(Letterings[Doc(j)])')
  <2>1. GoodPairs(Letterings[Doc(j)])' = GoodPairs(Letterings[Doc(j)'])
    BY <1>1 DEF GoodPairs, LinesOf, LineIds, EntryIds, Entry, Line
  <2>2. CASE j = k
    BY <1>3, <1>5, <2>1, <2>2 DEF Todo, Doc
  <2>3. CASE j # k
    BY <1>5, <1>7, <2>1, <2>3 DEF At, Todo, Doc, LetteringSound
  <2> QED BY <2>2, <2>3
<1>8. ASSUME NEW b \in DOMAIN Letterings \ crossed'
      PROVE  /\ \A l \in LinesOf(Letterings[b])' \cap DOMAIN letter' : Coded(Letterings[b], l)'
             /\ \A j \in InFlight(b)' : At(j, "next_letter")' => Apart(Todo(j), DOMAIN letter)'
  <2>1. b \notin crossed
    BY <1>4
  <2>2. ASSUME NEW l \in LinesOf(Letterings[b])' \cap DOMAIN letter'
        PROVE  Coded(Letterings[b], l)'
    BY <1>1, <1>6, <2>1 DEF Coded, LetteringSound
  <2>3. ASSUME NEW j \in InFlight(b)', At(j, "next_letter")'
        PROVE  Apart(Todo(j), DOMAIN letter)'
    <3>1. CASE j = k
      BY <1>1, <1>3, <1>5, <3>1 DEF Apart, Todo
    <3>2. CASE j # k
      <4>1. j \in InFlight(b) /\ At(j, "next_letter") /\ Todo(j)' = Todo(j)
        BY <1>5, <2>3, <3>2 DEF InFlight, At, Todo
      <4> QED BY <1>1, <2>1, <4>1 DEF LetteringSound, Apart
    <3> QED BY <3>1, <3>2
  <2> QED BY <2>2, <2>3
<1> QED BY <1>1, <1>6, <1>7, <1>8 DEF LetteringSound

\* A pair is written.
LEMMA WriteLetterSound ==
  ASSUME Typed, LetteringSound, NEW k \in Slots, WriteLetter(k)
  PROVE  LetteringSound'
<1> USE DEF Typed
<1>1. UNCHANGED <<journal, crossed>> /\ At(k, "next_letter") /\ Todo(k) # <<>>
  BY DEF WriteLetter, GotoLeft
<1>2. PICK d : d = Doc(k)
  OBVIOUS
<1>3. d \in DOMAIN Letterings
  BY <1>1, <1>2 DEF Served, Placed, ForReconciliation, At, Doc
<1>4. PICK t : t = Todo(k)
  OBVIOUS
<1>5. PICK A : A = Letterings[d]
  OBVIOUS
<1>6. t \in Seq(GoodPairs(A)) /\ t # <<>>
  BY <1>1, <1>2, <1>4, <1>5 DEF LetteringSound
<1>7. PICK e : e = Head(t)
  OBVIOUS
<1>8. /\ e \in GoodPairs(A) /\ Tail(t) \in Seq(GoodPairs(A)) /\ e = t[1] /\ 1 \in DOMAIN t
      /\ \A i \in DOMAIN Tail(t) : i + 1 \in DOMAIN t /\ Tail(t)[i] = t[i + 1] /\ i + 1 # 1
  <2>1. \A X : \A s \in Seq(X) : s # <<>> =>
          /\ Head(s) \in X /\ Tail(s) \in Seq(X) /\ Head(s) = s[1] /\ 1 \in DOMAIN s
          /\ \A i \in DOMAIN Tail(s) : i + 1 \in DOMAIN s /\ Tail(s)[i] = s[i + 1] /\ i + 1 # 1
    OBVIOUS
  <2> HIDE DEF GoodPairs
  <2> QED BY <1>6, <1>7, <2>1
<1>9. /\ DOMAIN letter' = DOMAIN letter \cup e
      /\ \A l \in DOMAIN letter \cup e : letter'[l] = IF l \in e THEN e ELSE letter[l]
  BY <1>4, <1>7 DEF WriteLetter
<1>10. \A j \in Slots : /\ At(j, "next_letter")' <=> At(j, "next_letter")
                        /\ Doc(j)' = Doc(j)
                        /\ Todo(j)' = IF j = k THEN Tail(t) ELSE Todo(j)
  <2>1. call' = [call EXCEPT ![k].at = "next_letter", ![k].todo = Tail(t)]
    BY <1>4 DEF WriteLetter, GotoLeft
  <2>2. Record(call[k])
    BY DEF Served, Placed
  <2> QED BY <1>1, <2>1, <2>2 DEF Served, Record, At, Doc, Todo
<1>11. /\ \A B : GoodPairs(B)' = GoodPairs(B) /\ LinesOf(B)' = LinesOf(B)
       /\ LineIds' = LineIds
  BY <1>1 DEF GoodPairs, LinesOf, LineIds, EntryIds, Entry, Line
<1>12. \A B : \A c \in GoodPairs(B) : \A l \in c : l \in LinesOf(B) /\ Line(l).account = B /\ l \in LineIds
  BY DEF GoodPairs, LinesOf
<1>13. DOMAIN letter' \subseteq LineIds' /\ \A l \in DOMAIN letter' : l \in letter'[l]
  BY <1>8, <1>9, <1>11, <1>12 DEF LetteringSound
<1>14. ASSUME NEW j \in Slots, At(j, "next_letter")'
       PROVE  Todo(j)' \in Seq(GoodPairs(Letterings[Doc(j)])')
  <2>1. GoodPairs(Letterings[Doc(j)])' = GoodPairs(Letterings[Doc(j)'])
    BY <1>1 DEF GoodPairs, LinesOf, LineIds, EntryIds, Entry, Line
  <2>2. Todo(j) \in Seq(GoodPairs(Letterings[Doc(j)]))
    BY <1>10, <1>14 DEF LetteringSound
  <2>3. CASE j = k
    BY <1>2, <1>5, <1>8, <1>10, <2>1, <2>3
  <2>4. CASE j # k
    BY <1>10, <2>1, <2>2, <2>4
  <2> QED BY <2>3, <2>4
<1>15. ASSUME NEW b \in DOMAIN Letterings \ crossed
       PROVE  /\ \A l \in LinesOf(Letterings[b])' \cap DOMAIN letter' : Coded(Letterings[b], l)'
              /\ \A j \in InFlight(b)' : At(j, "next_letter")' => Apart(Todo(j), DOMAIN letter)'
  <2>0. PICK B : B = Letterings[b]
    OBVIOUS
  <2>1. /\ \A l \in LinesOf(B) \cap DOMAIN letter : Coded(B, l)
        /\ \A j \in InFlight(b) : At(j, "next_letter") => Apart(Todo(j), DOMAIN letter)
    BY <1>15, <2>0 DEF LetteringSound
  <2>2. CASE b = d
    <3>1. k \in InFlight(b) /\ \A j \in InFlight(b) : j = k
      BY <1>2, <1>3, <2>2, <1>15, AreDocs DEF Alone, InFlight, Doc, StatementDocs
    <3>2. Apart(t, DOMAIN letter) /\ A = B
      BY <1>1, <1>4, <1>5, <2>0, <2>1, <2>2, <3>1
    <3>3. e \cap DOMAIN letter = {} /\ \A i \in DOMAIN Tail(t) : Tail(t)[i] \cap e = {}
      BY <1>8, <3>2 DEF Apart
    <3>4. ASSUME NEW l \in LinesOf(B), l \in DOMAIN letter'
          PROVE  /\ letter'[l] \in GoodPairs(B)
                 /\ \A m \in letter'[l] : m \in DOMAIN letter' /\ letter'[m] = letter'[l]
      <4>1. CASE l \in e
        BY <1>8, <1>9, <3>2, <4>1
      <4>2. CASE l \notin e
        <5>1. Coded(B, l) /\ letter'[l] = letter[l] /\ l \in DOMAIN letter
          BY <1>9, <2>1, <3>4, <4>2
        <5> QED BY <1>9, <3>3, <5>1 DEF Coded
      <4> QED BY <4>1, <4>2
    <3>5. ASSUME NEW j \in InFlight(b)', At(j, "next_letter")'
          PROVE  Apart(Todo(j), DOMAIN letter)'
      <4>1. j = k /\ Todo(j)' = Tail(t)
        BY <1>10, <3>1, <3>5 DEF InFlight, Doc
      <4>2. \A i \in DOMAIN Tail(t) : Tail(t)[i] \cap DOMAIN letter' = {}
        BY <1>8, <1>9, <3>2, <3>3 DEF Apart
      <4>3. \A i, m \in DOMAIN Tail(t) : i # m => i + 1 # m + 1
        <5>1. \A i \in DOMAIN Tail(t) : i \in Nat
          <6>1. \A X : \A s \in Seq(X) : \A i \in DOMAIN s : i \in Nat
            OBVIOUS
          <6> HIDE DEF GoodPairs
          <6> QED BY <1>8, <6>1
        <5> QED BY <5>1
      <4>4. \A i, m \in DOMAIN Tail(t) : i # m => Tail(t)[i] \cap Tail(t)[m] = {}
        BY <1>8, <3>2, <4>3 DEF Apart
      <4> QED BY <4>1, <4>2, <4>4 DEF Apart
    <3> QED BY <1>11, <2>0, <3>4, <3>5 DEF Coded
  <2>3. CASE b # d
    <3>1. A # B
      BY <1>3, <1>5, <2>0, <2>3, ReconciliationAssumption DEF IsInjective
    <3>2. \A l \in e : l \notin LinesOf(B)
      BY <1>8, <1>12, <3>1 DEF LinesOf
    <3>3. ASSUME NEW l \in LinesOf(B), l \in DOMAIN letter'
          PROVE  /\ letter'[l] \in GoodPairs(B)
                 /\ \A m \in letter'[l] : m \in DOMAIN letter' /\ letter'[m] = letter'[l]
      <4>1. Coded(B, l) /\ letter'[l] = letter[l]
        BY <1>9, <2>1, <3>2, <3>3
      <4>2. \A m \in letter[l] : m \notin e
        BY <1>12, <3>2, <4>1 DEF Coded
      <4> QED BY <1>9, <4>1, <4>2 DEF Coded
    <3>4. ASSUME NEW j \in InFlight(b)', At(j, "next_letter")'
          PROVE  Apart(Todo(j), DOMAIN letter)'
      <4>1. j # k /\ j \in InFlight(b) /\ At(j, "next_letter") /\ Todo(j)' = Todo(j)
        BY <1>2, <1>10, <2>3, <3>4 DEF InFlight, Doc
      <4>2. Apart(Todo(j), DOMAIN letter) /\ Todo(j) \in Seq(GoodPairs(B))
        BY <2>0, <2>1, <4>1 DEF LetteringSound, InFlight, Doc
      <4>3. \A i \in DOMAIN Todo(j) : Todo(j)[i] \in GoodPairs(B)
        <5>1. \A X : \A s \in Seq(X) : \A i \in DOMAIN s : s[i] \in X
          OBVIOUS
        <5> HIDE DEF GoodPairs
        <5> QED BY <4>2, <5>1
      <4>4. \A i \in DOMAIN Todo(j) : Todo(j)[i] \cap e = {}
        BY <1>12, <3>2, <4>3
      <4> QED BY <1>9, <4>1, <4>2, <4>4 DEF Apart
    <3> QED BY <1>11, <2>0, <3>3, <3>4 DEF Coded
  <2> QED BY <2>2, <2>3
<1> QED BY <1>1, <1>13, <1>14, <1>15 DEF LetteringSound

-----------------------------------------------------------------------------
(***************************************************************************)
(* Matching.  A found match is a statement's line, its number, and a       *)
(* journal line of its amount.                                             *)
(***************************************************************************)
Fitting ==
  {m \in Statements \X Nat \X LineIds : m[2] \in DOMAIN Lines[m[1]] /\ Agrees(m[3], Lines[m[1]][m[2]])}

\* Matches of different journal lines, none of them of U.
Unused(q, U) ==
  /\ \A i \in DOMAIN q : q[i][3] \notin U
  /\ \A i, j \in DOMAIN q : i # j => q[i][3] # q[j][3]

\* matchBankStatement gives line n of s the first open journal line that agrees.
TakeMatch(s, found, n) ==
  LET open == {l \in LinesOf(521) \ Matched : <<s, l[1][1]>> \in Near}
      fit  == {l \in open \ {found[i][3] : i \in DOMAIN found} : Agrees(l, Lines[s][n])}
  IN IF fit = {} THEN found ELSE Append(found, <<s, n, CHOOSE l \in fit : TRUE>>)

LEMMA TakenMatch ==
  ASSUME NEW s \in Statements, NEW q \in Seq(Fitting), NEW n \in DOMAIN Lines[s], n \in Nat
  PROVE  /\ TakeMatch(s, q, n) \in Seq(Fitting)
         /\ Unused(q, Matched) => Unused(TakeMatch(s, q, n), Matched)
<1> DEFINE open == {l \in LinesOf(521) \ Matched : <<s, l[1][1]>> \in Near}
           fit == {l \in open \ {q[i][3] : i \in DOMAIN q} : Agrees(l, Lines[s][n])}
           c == CHOOSE l \in fit : TRUE
           m == <<s, n, c>>
           r == Append(q, m)
<1>1. CASE fit = {}
  <2>1. TakeMatch(s, q, n) = q
    BY <1>1 DEF TakeMatch
  <2> QED BY <2>1
<1>2. CASE fit # {}
  <2>1. c \in fit /\ TakeMatch(s, q, n) = r
    BY <1>2 DEF TakeMatch
  <2>2. c \in LineIds /\ c \notin Matched /\ Agrees(c, Lines[s][n]) /\ \A i \in DOMAIN q : q[i][3] # c
    BY <2>1 DEF LinesOf
  <2> HIDE DEF fit, c
  <2>3. m \in Fitting /\ m[3] = c
    BY <2>2 DEF Fitting
  <2> HIDE DEF m
  <2>4. Len(q) \in Nat /\ DOMAIN q = 1..Len(q)
    BY LenProperties
  <2>5. /\ r \in Seq(Fitting) /\ DOMAIN r = 1..(Len(q) + 1)
        /\ \A i \in 1..Len(q) : r[i] = q[i]
        /\ r[Len(q) + 1] = m
    BY <2>3, AppendProperties, LenProperties
  <2> HIDE DEF r
  <2>6. \A i \in DOMAIN r : i \in DOMAIN q \/ i = Len(q) + 1
    BY <2>4, <2>5
  <2>7. \A i \in DOMAIN q : r[i] = q[i]
    BY <2>4, <2>5
  <2>8. ASSUME Unused(q, Matched)
        PROVE  Unused(r, Matched)
    <3>1. \A i \in DOMAIN r : r[i][3] \notin Matched
      BY <2>2, <2>3, <2>5, <2>6, <2>7, <2>8 DEF Unused
    <3>2. ASSUME NEW i \in DOMAIN r, NEW j \in DOMAIN r, i # j
          PROVE  r[i][3] # r[j][3]
      <4>1. CASE i \in DOMAIN q /\ j \in DOMAIN q
        BY <2>7, <2>8, <3>2, <4>1 DEF Unused
      <4>2. CASE i \in DOMAIN q /\ j = Len(q) + 1
        BY <2>2, <2>3, <2>5, <2>7, <4>2
      <4>3. CASE i = Len(q) + 1 /\ j \in DOMAIN q
        BY <2>2, <2>3, <2>5, <2>7, <4>3
      <4> QED BY <2>6, <3>2, <4>1, <4>2, <4>3
    <3> QED BY <3>1, <3>2 DEF Unused
  <2> QED BY <2>1, <2>5, <2>8
<1> QED BY <1>1, <1>2

LEMMA MatchesRun ==
  ASSUME NEW s \in Statements, NEW ns \in Seq(DOMAIN Lines[s])
  PROVE  \E g \in [0..Len(ns) -> Seq(Fitting)] :
           /\ g[0] = <<>> /\ Matches(s, ns) = g[Len(ns)]
           /\ \A n \in 1..Len(ns) : g[n] = TakeMatch(s, g[n - 1], ns[n])
<1> DEFINE X == DOMAIN Lines[s]
           Acc == Seq(Fitting)
           step == [p \in Acc \X X |-> TakeMatch(s, p[1], p[2])]
           Recurs(h) == h = [t \in SUBSET DOMAIN ns |->
                               IF t = {} THEN <<>>
                               ELSE TakeMatch(s, h[t \ {Max(t)}], ns[Max(t)])]
           it == CHOOSE h : Recurs(h)
<1>1. X \subseteq Nat
  <2>1. Lines[s] \in Seq(Int)
    BY ReconciliationAssumption
  <2> QED BY <2>1, LenProperties
<1>2. Len(ns) \in Nat /\ DOMAIN ns = 1..Len(ns) /\ \A n \in DOMAIN ns : ns[n] \in X
  BY LenProperties
<1>3. step \in [Acc \X X -> Acc] /\ \A p \in Acc, d \in X : step[<<p, d>>] = TakeMatch(s, p, d)
  BY <1>1, TakenMatch
<1>4. <<>> \in Acc
  OBVIOUS
<1> HIDE DEF X, Acc, step
<1>5. Folding(Acc, X, <<>>, ns, step)
  BY <1>3, <1>4 DEF Folding, X
<1>6. \E h : Recurs(h)
  <2>0. PICK h \in [SUBSET DOMAIN ns -> Acc] : FoldedBy(step, <<>>, ns, h)
    BY <1>5, FoldClosed
  <2>1. h = [t \in SUBSET DOMAIN ns |-> FoldStep(step, <<>>, ns, h, t)]
    BY <2>0 DEF FoldedBy
  <2>2. ASSUME NEW t \in SUBSET DOMAIN ns, t # {}
        PROVE  FoldStep(step, <<>>, ns, h, t) = TakeMatch(s, h[t \ {Max(t)}], ns[Max(t)])
    <3>1. Max(t) \in DOMAIN ns
      BY <1>2, <2>2, IndexIn
    <3>2. h[t \ {Max(t)}] \in Acc /\ ns[Max(t)] \in X
      BY <1>2, <2>0, <3>1
    <3> QED BY <1>3, <2>2, <3>2 DEF FoldStep
  <2>3. FoldStep(step, <<>>, ns, h, {}) = <<>>
    BY DEF FoldStep
  <2>4. Recurs(h)
    BY <2>1, <2>2, <2>3
  <2> QED BY <2>4
<1>7. Recurs(it)
  BY <1>6
<1>8. Matches(s, ns) = it[DOMAIN ns]
  BY DEF Matches, FoldLeft, MapThenFoldSet, TakeMatch
<1> HIDE DEF it
<1>9. it[{}] = <<>>
  BY <1>7
<1>10. ASSUME NEW t \in SUBSET DOMAIN ns, t # {}, it[t \ {Max(t)}] \in Acc
       PROVE  it[t] = step[<<it[t \ {Max(t)}], ns[Max(t)]>>]
  <2>1. Max(t) \in DOMAIN ns
    BY <1>2, <1>10, IndexIn
  <2>2. it[t] = TakeMatch(s, it[t \ {Max(t)}], ns[Max(t)])
    BY <1>7, <1>10
  <2> QED BY <1>2, <1>3, <1>10, <2>1, <2>2
<1>11. PICK g \in [0..Len(ns) -> Acc] :
         /\ g[0] = <<>> /\ g[Len(ns)] = it[DOMAIN ns]
         /\ \A n \in 1..Len(ns) : g[n] = step[<<g[n - 1], ns[n]>>]
  <2>1. Follows(Acc, <<>>, ns, step, it)
    BY <1>9, <1>10 DEF Follows
  <2> QED BY <1>5, <2>1, FoldRuns
<1>12. \A n \in 1..Len(ns) : g[n] = TakeMatch(s, g[n - 1], ns[n])
  <2> TAKE n \in 1..Len(ns)
  <2>1. g[n - 1] \in Acc /\ ns[n] \in X
    BY <1>2, <1>11
  <2> QED BY <1>3, <1>11, <2>1
<1>13. \E f \in [0..Len(ns) -> Acc] :
         /\ f[0] = <<>> /\ Matches(s, ns) = f[Len(ns)]
         /\ \A n \in 1..Len(ns) : f[n] = TakeMatch(s, f[n - 1], ns[n])
  BY <1>8, <1>11, <1>12
<1> QED BY <1>13 DEF Acc

\* What a run is to match: lines that agree, not matched yet, none twice.
LEMMA MatchesFit ==
  ASSUME NEW s \in Statements, NEW ns \in Seq(DOMAIN Lines[s])
  PROVE  Matches(s, ns) \in Seq(Fitting) /\ Unused(Matches(s, ns), Matched)
<1> DEFINE n == Len(ns)
<1>1. n \in Nat /\ \A i \in 1..n : ns[i] \in DOMAIN Lines[s] /\ ns[i] \in Nat
  <2>1. Lines[s] \in Seq(Int)
    BY ReconciliationAssumption
  <2>2. DOMAIN Lines[s] \subseteq Nat
    BY <2>1, LenProperties
  <2> QED BY <2>2, LenProperties
<1>2. PICK g \in [0..n -> Seq(Fitting)] :
        /\ g[0] = <<>> /\ Matches(s, ns) = g[n]
        /\ \A m \in 1..n : g[m] = TakeMatch(s, g[m - 1], ns[m])
  BY MatchesRun
<1> HIDE DEF n
<1> DEFINE Bad == {m \in 0..n : ~Unused(g[m], Matched)}
<1>3. Bad = {}
  <2> SUFFICES ASSUME Bad # {} PROVE FALSE
    OBVIOUS
  <2>1. PICK m \in Bad : \A i \in Bad : m <= i
    <3>1. Bad \in SUBSET Nat
      BY <1>1
    <3> QED BY <3>1, LeastElement
  <2>2. m # 0
    <3>1. DOMAIN <<>> = {}
      OBVIOUS
    <3>2. Unused(<<>>, Matched)
      BY <3>1 DEF Unused
    <3> QED BY <1>2, <2>1, <3>2
  <2>3. m \in 1..n /\ m - 1 \in 0..n /\ m - 1 \notin Bad
    BY <1>1, <2>1, <2>2
  <2>4. g[m - 1] \in Seq(Fitting) /\ Unused(g[m - 1], Matched)
    BY <1>2, <2>3
  <2>5. Unused(TakeMatch(s, g[m - 1], ns[m]), Matched)
    BY <1>1, <2>3, <2>4, TakenMatch
  <2> QED BY <1>2, <2>1, <2>3, <2>5
<1>4. n \in 0..n
  BY <1>1
<1> QED BY <1>2, <1>3, <1>4

(***************************************************************************)
(* Matching.  While no two requests on the bank met, the matches there are *)
(* agree but for those made by hand, and those to come take journal lines  *)
(* that are not matched.                                                   *)
(***************************************************************************)
MatchesAgree ==
  \A s, t \in Statements : \A m \in DOMAIN Lines[s], n \in DOMAIN Lines[t] :
    \A l \in matched[s][m] \ byHand :
      /\ Agrees(l, Lines[s][m])
      /\ l \in matched[t][n] => <<s, m>> = <<t, n>>

MatchingSound ==
  /\ DOMAIN matched = Statements
  /\ \A s \in Statements : /\ DOMAIN matched[s] = DOMAIN Lines[s]
                           /\ \A n \in DOMAIN Lines[s] : matched[s][n] \subseteq LineIds
  /\ \A k \in Slots :
       /\ At(k, "read_lines") => /\ Todo(k)[1] \in Statements
                                 /\ Todo(k)[2] \in Seq(DOMAIN Lines[Todo(k)[1]])
       /\ At(k, "next_match") => Todo(k) \in Seq(Fitting)
  /\ Bank \notin crossed =>
       /\ MatchesAgree
       /\ \A k \in Slots : At(k, "next_match") => Unused(Todo(k), Matched)

LEMMA MatchedIs ==
  \A l : l \in Matched <=> \E s \in Statements : \E n \in DOMAIN Lines[s] : l \in matched[s][n]
BY DEF Matched

LEMMA GrownFits ==
  ASSUME Grown
  PROVE  /\ Seq(Fitting) \subseteq Seq(Fitting')
         /\ \A l \in LineIds : \A x : Agrees(l, x) => Agrees(l, x)'
<1>1. \A l \in LineIds : \A x : Agrees(l, x) => Agrees(l, x)'
  BY DEF Agrees, Grown
<1>2. ASSUME NEW m \in Fitting
      PROVE  m \in Fitting'
  <2>1. /\ m \in Statements \X Nat \X LineIds /\ m[2] \in DOMAIN Lines[m[1]]
        /\ Agrees(m[3], Lines[m[1]][m[2]]) /\ m[3] \in LineIds
    BY DEF Fitting
  <2>2. m \in Statements \X Nat \X LineIds'
    BY <2>1 DEF Grown
  <2>3. Agrees(m[3], Lines[m[1]][m[2]])'
    BY <1>1, <2>1
  <2> QED BY <2>1, <2>2, <2>3 DEF Fitting
<1>3. Fitting \subseteq Fitting'
  BY <1>2
<1> HIDE DEF Fitting
<1> QED BY <1>1, <1>3, SeqMonotonic

\* Nothing is matched, and who matches was there before.
LEMMA MatchingKept ==
  ASSUME MatchingSound, Grown, UNCHANGED <<matched, byHand>>, crossed \subseteq crossed',
         \A k \in Slots : (At(k, "read_lines") \/ At(k, "next_match"))' => call'[k] = call[k]
  PROVE  MatchingSound'
<1>1. /\ DOMAIN matched' = Statements
      /\ \A s \in Statements : /\ DOMAIN matched'[s] = DOMAIN Lines[s]
                               /\ \A n \in DOMAIN Lines[s] : matched'[s][n] \subseteq LineIds'
  BY DEF MatchingSound, Grown
<1>2. ASSUME NEW k \in Slots, At(k, "read_lines")' \/ At(k, "next_match")'
      PROVE  /\ Todo(k)' = Todo(k)
             /\ At(k, "read_lines")' => At(k, "read_lines")
             /\ At(k, "next_match")' => At(k, "next_match")
  BY <1>2 DEF At, Todo
<1>3. ASSUME NEW k \in Slots
      PROVE  /\ At(k, "read_lines")' => /\ Todo(k)'[1] \in Statements
                                        /\ Todo(k)'[2] \in Seq(DOMAIN Lines[Todo(k)'[1]])
             /\ At(k, "next_match")' => Todo(k)' \in Seq(Fitting')
  BY <1>2, GrownFits DEF MatchingSound
<1>4. ASSUME Bank \notin crossed'
      PROVE  /\ MatchesAgree'
             /\ \A k \in Slots : At(k, "next_match")' => Unused(Todo(k), Matched)'
  <2>1. MatchesAgree /\ \A k \in Slots : At(k, "next_match") => Unused(Todo(k), Matched)
    BY <1>4 DEF MatchingSound
  <2>2. \A s \in Statements : \A n \in DOMAIN Lines[s] : \A l \in matched[s][n] : l \in LineIds
    BY DEF MatchingSound
  <2>3. MatchesAgree'
    BY <2>1, <2>2, GrownFits DEF MatchesAgree
  <2>4. Matched' = Matched
    BY DEF Matched
  <2> QED BY <1>2, <2>1, <2>3, <2>4 DEF Unused
<1> QED BY <1>1, <1>3, <1>4 DEF MatchingSound

LEMMA SameBooks ==
  ASSUME UNCHANGED journal
  PROVE  /\ Grown /\ Fitting' = Fitting /\ LineIds' = LineIds
         /\ \A l, x : Agrees(l, x)' <=> Agrees(l, x)
BY DEF Grown, Fitting, Agrees, LineIds, EntryIds, Entry, Line

\* A request goes on to match a statement.
LEMMA AutoMatchSound ==
  ASSUME Typed, MatchingSound, NEW k \in Slots, NEW s \in Statements, AutoMatch(k, s)
  PROVE  MatchingSound'
<1> USE DEF Typed
<1>1. UNCHANGED <<journal, matched, byHand>>
  BY DEF AutoMatch, reconciliationVars
<1>2. PICK ns \in SetToSeqs(Unmatched(s)) : Enter(k, "read_lines", Bank, 0, <<s, ns>>)
  BY DEF AutoMatch
<1>3. ns \in Seq(DOMAIN Lines[s])
  <2>1. Lines[s] \in Seq(Int)
    BY ReconciliationAssumption
  <2>2. IsFiniteSet(DOMAIN Lines[s])
    <3>1. DOMAIN Lines[s] = 1..Len(Lines[s]) /\ Len(Lines[s]) \in Int /\ 1 \in Int
      BY <2>1, LenProperties
    <3> QED BY <3>1, FS_Interval
  <2>3. Unmatched(s) \subseteq DOMAIN Lines[s] /\ IsFiniteSet(Unmatched(s))
    BY <2>2, FS_Subset DEF Unmatched
  <2>4. Cardinality(Unmatched(s)) \in Nat
    BY <2>3, FS_CardinalityType
  <2>5. ns \in [1..Cardinality(Unmatched(s)) -> Unmatched(s)]
    BY <1>2 DEF SetToSeqs
  <2>6. ns \in [1..Cardinality(Unmatched(s)) -> DOMAIN Lines[s]]
    BY <2>3, <2>5
  <2> QED BY <2>4, <2>6
<1>4. /\ \A j \in Slots : call'[j] = IF j = k
                                     THEN [at |-> "read_lines", doc |-> Bank, sum |-> 0, todo |-> <<s, ns>>]
                                     ELSE call[j]
      /\ crossed \subseteq crossed'
  BY <1>2 DEF Enter, Served
<1>5. ASSUME NEW j \in Slots
      PROVE  /\ At(j, "read_lines")' => /\ Todo(j)'[1] \in Statements
                                        /\ Todo(j)'[2] \in Seq(DOMAIN Lines[Todo(j)'[1]])
             /\ At(j, "next_match")' => At(j, "next_match") /\ Todo(j)' = Todo(j)
                                        /\ Todo(j)' \in Seq(Fitting')
  <2>1. CASE j = k
    BY <1>3, <1>4, <2>1 DEF At, Todo
  <2>2. CASE j # k
    BY <1>1, <1>4, <2>2, SameBooks DEF At, Todo, MatchingSound
  <2> QED BY <2>1, <2>2
<1>6. ASSUME Bank \notin crossed'
      PROVE  /\ MatchesAgree'
             /\ \A j \in Slots : At(j, "next_match")' => Unused(Todo(j), Matched)'
  <2>1. MatchesAgree /\ \A j \in Slots : At(j, "next_match") => Unused(Todo(j), Matched)
    BY <1>4, <1>6 DEF MatchingSound
  <2>2. MatchesAgree'
    BY <1>1, <2>1, SameBooks DEF MatchesAgree
  <2>3. Matched' = Matched
    BY <1>1 DEF Matched
  <2> QED BY <1>5, <2>1, <2>2, <2>3 DEF Unused
<1> QED BY <1>1, <1>5, <1>6, SameBooks DEF MatchingSound

\* It reads the journal lines and decides which to take.
LEMMA ReadLinesSound ==
  ASSUME Typed, MatchingSound, NEW k \in Slots, ReadLines(k)
  PROVE  MatchingSound'
<1> USE DEF Typed
<1>1. UNCHANGED <<journal, matched, byHand, crossed>> /\ At(k, "read_lines")
  BY DEF ReadLines, reconciliationVars, GotoLeft
<1>2. PICK t : t = Todo(k)
  OBVIOUS
<1>3. t[1] \in Statements /\ t[2] \in Seq(DOMAIN Lines[t[1]])
  BY <1>1, <1>2 DEF MatchingSound
<1>4. PICK q : q = Matches(t[1], t[2])
  OBVIOUS
<1>5. q \in Seq(Fitting) /\ Unused(q, Matched)
  BY <1>3, <1>4, MatchesFit
<1>6. \A j \in Slots : /\ At(j, "read_lines")' => j # k /\ At(j, "read_lines")
                       /\ At(j, "next_match")' => j = k \/ At(j, "next_match")
                       /\ Todo(j)' = IF j = k THEN q ELSE Todo(j)
  <2>1. call' = [call EXCEPT ![k].at = "next_match", ![k].todo = q]
    BY <1>2, <1>4 DEF ReadLines, GotoLeft
  <2>2. Record(call[k])
    BY DEF Served, Placed
  <2> QED BY <1>1, <2>1, <2>2 DEF Served, Record, At, Todo
<1>7. ASSUME NEW j \in Slots
      PROVE  /\ At(j, "read_lines")' => /\ Todo(j)'[1] \in Statements
                                        /\ Todo(j)'[2] \in Seq(DOMAIN Lines[Todo(j)'[1]])
             /\ At(j, "next_match")' => Todo(j)' \in Seq(Fitting')
  <2>1. CASE j = k
    BY <1>1, <1>5, <1>6, <2>1, SameBooks
  <2>2. CASE j # k
    BY <1>1, <1>6, <2>2, SameBooks DEF MatchingSound
  <2> QED BY <2>1, <2>2
<1>8. ASSUME Bank \notin crossed'
      PROVE  /\ MatchesAgree'
             /\ \A j \in Slots : At(j, "next_match")' => Unused(Todo(j), Matched)'
  <2>1. MatchesAgree /\ \A j \in Slots : At(j, "next_match") => Unused(Todo(j), Matched)
    BY <1>1, <1>8 DEF MatchingSound
  <2>2. MatchesAgree'
    BY <1>1, <2>1, SameBooks DEF MatchesAgree
  <2>3. Matched' = Matched
    BY <1>1 DEF Matched
  <2> QED BY <1>5, <1>6, <2>1, <2>2, <2>3 DEF Unused
<1> QED BY <1>1, <1>7, <1>8, SameBooks DEF MatchingSound

\* A match is written.
LEMMA WriteMatchSound ==
  ASSUME Typed, MatchingSound, NEW k \in Slots, WriteMatch(k)
  PROVE  MatchingSound'
<1> USE DEF Typed
<1>1. UNCHANGED <<journal, byHand, crossed>> /\ At(k, "next_match") /\ Todo(k) # <<>>
  BY DEF WriteMatch, GotoLeft
<1>2. PICK q : q = Todo(k)
  OBVIOUS
<1>3. q \in Seq(Fitting) /\ q # <<>>
  BY <1>1, <1>2 DEF MatchingSound
<1>4. PICK m : m = Head(q)
  OBVIOUS
<1>5. /\ m \in Fitting /\ Tail(q) \in Seq(Fitting) /\ m = q[1] /\ 1 \in DOMAIN q
      /\ \A i \in DOMAIN Tail(q) : i \in Nat /\ i + 1 \in DOMAIN q /\ Tail(q)[i] = q[i + 1] /\ i + 1 # 1
  <2>1. \A X : \A s \in Seq(X) : s # <<>> =>
          /\ Head(s) \in X /\ Tail(s) \in Seq(X) /\ Head(s) = s[1] /\ 1 \in DOMAIN s
          /\ \A i \in DOMAIN Tail(s) : i \in Nat /\ i + 1 \in DOMAIN s /\ Tail(s)[i] = s[i + 1] /\ i + 1 # 1
    OBVIOUS
  <2> HIDE DEF Fitting
  <2> QED BY <1>3, <1>4, <2>1
<1>6. PICK s, n, l : s = m[1] /\ n = m[2] /\ l = m[3]
  OBVIOUS
<1>7. s \in Statements /\ n \in DOMAIN Lines[s] /\ l \in LineIds /\ Agrees(l, Lines[s][n])
  BY <1>5, <1>6 DEF Fitting
<1>8. matched' = [matched EXCEPT ![s][n] = {l}]
  BY <1>2, <1>4, <1>6 DEF WriteMatch
<1>9. /\ DOMAIN matched' = Statements
      /\ \A t \in Statements : DOMAIN matched'[t] = DOMAIN Lines[t]
      /\ \A t \in Statements : \A i \in DOMAIN Lines[t] :
           matched'[t][i] = IF t = s /\ i = n THEN {l} ELSE matched[t][i]
  BY <1>7, <1>8 DEF MatchingSound
<1>10. \A j \in Slots : /\ At(j, "read_lines")' => j # k /\ At(j, "read_lines")
                        /\ At(j, "next_match")' => At(j, "next_match")
                        /\ Todo(j)' = IF j = k THEN Tail(q) ELSE Todo(j)
                        /\ call'[j].doc = call[j].doc
  <2>1. call' = [call EXCEPT ![k].at = "next_match", ![k].todo = Tail(q)]
    BY <1>2 DEF WriteMatch, GotoLeft
  <2>2. Record(call[k])
    BY DEF Served, Placed
  <2> QED BY <1>1, <2>1, <2>2 DEF Served, Record, At, Todo
<1>11. \A t \in Statements : \A i \in DOMAIN Lines[t] : matched'[t][i] \subseteq LineIds'
  BY <1>1, <1>7, <1>9, SameBooks DEF MatchingSound
<1>12. ASSUME NEW j \in Slots
       PROVE  /\ At(j, "read_lines")' => /\ Todo(j)'[1] \in Statements
                                         /\ Todo(j)'[2] \in Seq(DOMAIN Lines[Todo(j)'[1]])
              /\ At(j, "next_match")' => Todo(j)' \in Seq(Fitting')
  <2>1. CASE j = k
    BY <1>1, <1>5, <1>10, <2>1, SameBooks
  <2>2. CASE j # k
    BY <1>1, <1>10, <2>2, SameBooks DEF MatchingSound
  <2> QED BY <2>1, <2>2
<1>13. ASSUME Bank \notin crossed
       PROVE  /\ MatchesAgree'
              /\ \A j \in Slots : At(j, "next_match")' => Unused(Todo(j), Matched)'
  <2>1. MatchesAgree /\ \A j \in Slots : At(j, "next_match") => Unused(Todo(j), Matched)
    BY <1>13 DEF MatchingSound
  <2>2. Unused(q, Matched)
    BY <1>1, <1>2, <2>1
  <2>3. l \notin Matched /\ \A i \in DOMAIN Tail(q) : Tail(q)[i][3] # l /\ Tail(q)[i][3] \notin Matched
    BY <1>5, <1>6, <2>2 DEF Unused
  <2>4. \A t \in Statements : \A i \in DOMAIN Lines[t] : l \notin matched[t][i]
    BY <2>3, MatchedIs
  <2>5. MatchesAgree'
    <3> SUFFICES ASSUME NEW t \in Statements, NEW u \in Statements, NEW i \in DOMAIN Lines[t],
                        NEW j \in DOMAIN Lines[u], NEW x \in matched'[t][i], x \notin byHand
                 PROVE  Agrees(x, Lines[t][i])' /\ (x \in matched'[u][j] => <<t, i>> = <<u, j>>)
      BY <1>1 DEF MatchesAgree
    <3>1. CASE t = s /\ i = n
      <4>1. x = l
        BY <1>9, <3>1
      <4>2. Agrees(x, Lines[t][i])'
        BY <1>1, <1>7, <3>1, <4>1, SameBooks
      <4> QED BY <1>9, <2>4, <3>1, <4>1, <4>2
    <3>2. CASE ~(t = s /\ i = n)
      <4>1. x \in matched[t][i]
        BY <1>9, <3>2
      <4>2. Agrees(x, Lines[t][i]) /\ (x \in matched[u][j] => <<t, i>> = <<u, j>>)
        BY <2>1, <4>1 DEF MatchesAgree
      <4>3. Agrees(x, Lines[t][i])'
        BY <1>1, <4>2, SameBooks
      <4>4. x # l
        BY <2>4, <4>1
      <4> QED BY <1>9, <4>2, <4>3, <4>4
    <3> QED BY <3>1, <3>2
  <2>6. ASSUME NEW j \in Slots, At(j, "next_match")'
        PROVE  Unused(Todo(j), Matched)'
    <3>1. call[j].doc = Bank /\ call[k].doc = Bank
      BY <1>1, <1>10, <2>6 DEF At, Served, Placed, ForReconciliation
    <3>2. j = k
      BY <1>13, <3>1, AreDocs DEF Alone, InFlight, StatementDocs
    <3>3. \A x : x \in Matched' => x \in Matched \/ x = l
      <4>1. \A x : x \in Matched' <=> \E t \in Statements : \E i \in DOMAIN Lines[t] : x \in matched'[t][i]
        BY DEF Matched
      <4> QED BY <1>9, <4>1, MatchedIs
    <3>4. \A i, x \in DOMAIN Tail(q) : i # x => Tail(q)[i][3] # Tail(q)[x][3]
      <4> SUFFICES ASSUME NEW i \in DOMAIN Tail(q), NEW x \in DOMAIN Tail(q), i # x
                   PROVE  Tail(q)[i][3] # Tail(q)[x][3]
        OBVIOUS
      <4>1. /\ i + 1 \in DOMAIN q /\ x + 1 \in DOMAIN q /\ i + 1 # x + 1
            /\ Tail(q)[i] = q[i + 1] /\ Tail(q)[x] = q[x + 1]
        BY <1>5
      <4>2. q[i + 1][3] # q[x + 1][3]
        BY <2>2, <4>1 DEF Unused
      <4> QED BY <4>1, <4>2
    <3>5. Todo(j)' = Tail(q)
      BY <1>10, <3>2
    <3>6. \A i \in DOMAIN Tail(q) : Tail(q)[i][3] \notin Matched'
      BY <2>3, <3>3
    <3> QED BY <3>4, <3>5, <3>6 DEF Unused
  <2> QED BY <2>5, <2>6
<1> QED BY <1>1, <1>9, <1>11, <1>12, <1>13 DEF MatchingSound

\* A line is matched by hand.
LEMMA ManualMatchSound ==
  ASSUME Typed, MatchingSound, NEW k \in Slots, NEW s \in Statements, NEW n \in DOMAIN Lines[s],
         NEW l \in LinesOf(521), ManualMatch(k, s, n, l)
  PROVE  MatchingSound'
<1> USE DEF Typed
<1>1. /\ UNCHANGED <<journal, call>> /\ crossed \subseteq crossed'
      /\ InFlight(Bank) = {} \/ Bank \in crossed'
      /\ matched' = [matched EXCEPT ![s][n] = {l}] /\ byHand' = byHand \cup {l}
  BY DEF ManualMatch, AtOnce
<1>2. l \in LineIds
  BY DEF LinesOf
<1>3. /\ DOMAIN matched' = Statements
      /\ \A t \in Statements : DOMAIN matched'[t] = DOMAIN Lines[t]
      /\ \A t \in Statements : \A i \in DOMAIN Lines[t] :
           matched'[t][i] = IF t = s /\ i = n THEN {l} ELSE matched[t][i]
  BY <1>1 DEF MatchingSound
<1>4. \A t \in Statements : \A i \in DOMAIN Lines[t] : matched'[t][i] \subseteq LineIds'
  BY <1>1, <1>2, <1>3, SameBooks DEF MatchingSound
<1>5. ASSUME NEW j \in Slots
      PROVE  /\ At(j, "read_lines")' => /\ Todo(j)'[1] \in Statements
                                        /\ Todo(j)'[2] \in Seq(DOMAIN Lines[Todo(j)'[1]])
             /\ At(j, "next_match")' => Todo(j)' \in Seq(Fitting')
  BY <1>1, SameBooks DEF At, Todo, MatchingSound
<1>6. ASSUME Bank \notin crossed'
      PROVE  /\ MatchesAgree'
             /\ \A j \in Slots : At(j, "next_match")' => Unused(Todo(j), Matched)'
  <2>1. MatchesAgree
    BY <1>1, <1>6 DEF MatchingSound
  <2>2. MatchesAgree'
    <3> SUFFICES ASSUME NEW t \in Statements, NEW u \in Statements, NEW i \in DOMAIN Lines[t],
                        NEW j \in DOMAIN Lines[u], NEW x \in matched'[t][i], x \notin byHand, x # l
                 PROVE  Agrees(x, Lines[t][i])' /\ (x \in matched'[u][j] => <<t, i>> = <<u, j>>)
      BY <1>1 DEF MatchesAgree
    <3>1. x \in matched[t][i]
      BY <1>3
    <3>2. Agrees(x, Lines[t][i]) /\ (x \in matched[u][j] => <<t, i>> = <<u, j>>)
      BY <2>1, <3>1 DEF MatchesAgree
    <3>3. Agrees(x, Lines[t][i])'
      BY <1>1, <3>2, SameBooks
    <3> QED BY <1>3, <3>2, <3>3
  <2>3. ASSUME NEW j \in Slots, At(j, "next_match")'
        PROVE  FALSE
    <3>1. At(j, "next_match") /\ InFlight(Bank) = {}
      BY <1>1, <1>6, <2>3 DEF At
    <3>2. call[j].doc = Bank
      BY <3>1 DEF At, Served, Placed, ForReconciliation
    <3> QED BY <3>1, <3>2 DEF InFlight
  <2> QED BY <2>2, <2>3
<1> QED BY <1>3, <1>4, <1>5, <1>6 DEF MatchingSound

-----------------------------------------------------------------------------
LEMMA ReconciliationKeepsSound ==
  ASSUME Typed, LetteringSound, MatchingSound, NEW k \in Slots, ReconciliationStep(k)
  PROVE  LetteringSound' /\ MatchingSound'
<1> USE DEF Typed
<1>0. UNCHANGED journal => Grown
  BY SameBooks
<1>1. ASSUME NEW d \in DOMAIN Letterings, AutoLetter(k, d)
      PROVE  LetteringSound' /\ MatchingSound'
  <2>1. /\ UNCHANGED <<journal, matched, byHand>> /\ crossed \subseteq crossed'
        /\ \A j \in Slots : call'[j] = IF j = k THEN [at |-> "next_letter", doc |-> d, sum |-> 0,
                                                      todo |-> Pairs(Letterings[d])]
                                                ELSE call[j]
    BY <1>1 DEF AutoLetter, Enter, reconciliationVars, Served
  <2>2. \A j \in Slots : (At(j, "read_lines") \/ At(j, "next_match"))' => call'[j] = call[j]
    BY <2>1 DEF At
  <2>3. MatchingSound'
    BY <1>0, <2>1, <2>2, MatchingKept
  <2> QED BY <1>1, <2>3, AutoLetterSound
<1>2. CASE WriteLetter(k)
  <2>1. /\ UNCHANGED <<journal, matched, byHand>> /\ crossed \subseteq crossed'
        /\ call' = [call EXCEPT ![k].at = "next_letter", ![k].todo = Tail(Todo(k))]
    BY <1>2 DEF WriteLetter, GotoLeft
  <2>2. \A j \in Slots : j # k => call'[j] = call[j]
    BY <2>1 DEF Served
  <2>3. call'[k].at = "next_letter"
    BY <2>1 DEF Served, Placed, Record
  <2>4. \A j \in Slots : (At(j, "read_lines") \/ At(j, "next_match"))' => call'[j] = call[j]
    BY <2>2, <2>3 DEF At
  <2>5. MatchingSound'
    BY <1>0, <2>1, <2>4, MatchingKept
  <2> QED BY <1>2, <2>5, WriteLetterSound
<1>3. ASSUME UNCHANGED <<journal, letter>>, crossed \subseteq crossed',
             \A j \in Slots : At(j, "next_letter")' => call'[j] = call[j]
      PROVE  LetteringSound'
  BY <1>0, <1>3, LetteringKept
<1>4. ASSUME NEW s \in Statements, Import(k, s)
      PROVE  LetteringSound' /\ MatchingSound'
  <2>1. UNCHANGED <<journal, letter, matched, byHand, call>> /\ crossed \subseteq crossed'
    BY <1>4 DEF Import, AtOnce
  <2> QED BY <1>0, <1>3, <2>1, MatchingKept
<1>5. ASSUME NEW s \in Statements, AutoMatch(k, s)
      PROVE  LetteringSound' /\ MatchingSound'
  <2>1. PICK ns : Enter(k, "read_lines", Bank, 0, <<s, ns>>)
    BY <1>5 DEF AutoMatch
  <2>2. /\ UNCHANGED <<journal, letter>> /\ crossed \subseteq crossed'
        /\ \A j \in Slots : call'[j] = IF j = k
                                       THEN [at |-> "read_lines", doc |-> Bank, sum |-> 0, todo |-> <<s, ns>>]
                                       ELSE call[j]
    BY <1>5, <2>1 DEF AutoMatch, Enter, reconciliationVars, Served
  <2>3. \A j \in Slots : At(j, "next_letter")' => call'[j] = call[j]
    BY <2>2 DEF At
  <2> QED BY <1>3, <1>5, <2>2, <2>3, AutoMatchSound
<1>6. CASE ReadLines(k) \/ WriteMatch(k)
  <2>1. UNCHANGED <<journal, letter>> /\ crossed \subseteq crossed' /\ \E q : GotoLeft(k, "next_match", q)
    BY <1>6 DEF ReadLines, WriteMatch, GotoLeft, reconciliationVars
  <2>2. PICK q : call' = [call EXCEPT ![k].at = "next_match", ![k].todo = q]
    BY <2>1 DEF GotoLeft
  <2>3. \A j \in Slots : j # k => call'[j] = call[j]
    BY <2>2 DEF Served
  <2>4. call'[k].at = "next_match"
    BY <2>2 DEF Served, Placed, Record
  <2>5. \A j \in Slots : At(j, "next_letter")' => call'[j] = call[j]
    BY <2>3, <2>4 DEF At
  <2> QED BY <1>3, <1>6, <2>1, <2>5, ReadLinesSound, WriteMatchSound
<1>7. CASE AllWritten(k)
  <2>1. /\ UNCHANGED <<journal, letter, matched, byHand>> /\ crossed \subseteq crossed'
        /\ \A j \in Slots : call'[j] = IF j = k THEN Free ELSE call[j]
    BY <1>7 DEF AllWritten, Leave, reconciliationVars, Served
  <2>2. \A j \in Slots : (At(j, "next_letter") \/ At(j, "read_lines") \/ At(j, "next_match"))'
                           => call'[j] = call[j]
    BY <2>1 DEF At, Free
  <2> QED BY <1>0, <1>3, <2>1, <2>2, MatchingKept
<1>8. ASSUME NEW s \in Statements, NEW n \in DOMAIN Lines[s], NEW l \in LinesOf(521),
             ManualMatch(k, s, n, l)
      PROVE  LetteringSound' /\ MatchingSound'
  <2>1. UNCHANGED <<journal, letter, call>> /\ crossed \subseteq crossed'
    BY <1>8 DEF ManualMatch, AtOnce
  <2> QED BY <1>3, <1>8, <2>1, ManualMatchSound
<1> QED BY <1>1, <1>2, <1>4, <1>5, <1>6, <1>7, <1>8 DEF ReconciliationStep

\* A step of another component is away from what is lettered and matched.
LEMMA StepElsewhere ==
  ASSUME Typed, NEW k \in Slots, Step(k), ~ReconciliationStep(k)
  PROVE  /\ UNCHANGED reconciliationVars
         /\ \E D \in {InvoiceDocs, TreasuryDocs, AssetDocs, PeopleDocs, Runs, Manuals} : Took(k, D)
<1>1. /\ InvoiceDocs \subseteq Docs /\ TreasuryDocs \subseteq Docs /\ AssetDocs \subseteq Docs
      /\ PeopleDocs \subseteq Docs /\ Runs \subseteq Docs /\ Manuals \subseteq Docs
  BY AreDocs DEF InvoiceDocs
<1>2. CASE InvoicesStep(k) /\ UNCHANGED OthersThanInvoices
  BY <1>1, <1>2, InvoicesTurn DEF OthersThanInvoices, Took
<1>3. CASE TreasuryStep(k) /\ UNCHANGED OthersThanTreasury
  BY <1>1, <1>3, TreasuryTurn DEF OthersThanTreasury, Took
<1>4. CASE AssetsStep(k) /\ UNCHANGED OthersThanAssets
  BY <1>1, <1>4, AssetsTurn DEF OthersThanAssets, Took
<1>5. CASE PayrollStep(k) /\ UNCHANGED OthersThanPayroll
  BY <1>1, <1>5, PayrollTurn DEF OthersThanPayroll, Took
<1>6. CASE PeopleStep(k) /\ UNCHANGED <<journal, payrollVars, OthersThanPayroll>>
  BY <1>1, <1>6, PeopleTurn DEF OthersThanPayroll, Took, PostedIn
<1>7. ASSUME NEW d \in Manuals, ManualEntry(k, d), UNCHANGED Components
      PROVE  Took(k, Manuals) /\ UNCHANGED reconciliationVars
  BY <1>1, <1>7, ManualTurn DEF Components, Took
<1> QED BY <1>2, <1>3, <1>4, <1>5, <1>6, <1>7 DEF Step

\* A statement is no document of another component.
LEMMA StatementsApart ==
  \A d \in StatementDocs : /\ d \notin InvoiceDocs /\ d \notin TreasuryDocs /\ d \notin AssetDocs
                           /\ d \notin PeopleDocs /\ d \notin Runs /\ d \notin Manuals
BY Kinds

LEMMA PairingStep ==
  ASSUME Typed, LetteringSound, MatchingSound, [Next]_vars
  PROVE  LetteringSound' /\ MatchingSound'
<1>0. Served /\ Served'
  BY TypedStep DEF Typed
<1>1. ASSUME NEW k \in Slots, Step(k)
      PROVE  LetteringSound' /\ MatchingSound'
  <2>1. CASE ReconciliationStep(k)
    BY <2>1, ReconciliationKeepsSound
  <2>2. CASE ~ReconciliationStep(k)
    <3>1. UNCHANGED reconciliationVars
      BY <1>1, <2>2, StepElsewhere
    <3>2. PICK D \in {InvoiceDocs, TreasuryDocs, AssetDocs, PeopleDocs, Runs, Manuals} : Took(k, D)
      BY <1>1, <2>2, StepElsewhere
    <3>3. \A d \in StatementDocs : d \in Docs \ D
      BY <3>2, AreDocs, StatementsApart
    <3>4. \A d \in StatementDocs : Away(d)
      BY <3>2, <3>3, TookKeeps
    <3>5. Grown
      BY <3>2, LinesStay DEF Typed, Took, Grown
    <3>6. crossed \subseteq crossed'
      BY <3>2 DEF Took, Turn, Moved
    <3>7. \A j \in Slots : (At(j, "next_letter") \/ At(j, "read_lines") \/ At(j, "next_match"))'
                             => call'[j].doc \in StatementDocs
      BY <1>0 DEF Served, Placed, ForReconciliation, At, StatementDocs
    <3>8. \A j \in Slots : (At(j, "next_letter") \/ At(j, "read_lines") \/ At(j, "next_match"))'
                             => call'[j] = call[j]
      BY <3>4, <3>7 DEF Away
    <3> QED BY <3>1, <3>5, <3>6, <3>8, LetteringKept, MatchingKept DEF reconciliationVars
  <2> QED BY <2>1, <2>2
<1>2. CASE Restart
  <2>1. UNCHANGED <<journal, reconciliationVars, crossed>> /\ \A j \in Slots : call'[j] = Free
    BY <1>2, RestartKeeps DEF Restart, Components, Typed
  <2>2. \A j \in Slots : ~(At(j, "next_letter") \/ At(j, "read_lines") \/ At(j, "next_match"))'
    BY <2>1 DEF At, Free
  <2> QED BY <2>1, <2>2, SameBooks, LetteringKept, MatchingKept DEF reconciliationVars
<1>3. CASE UNCHANGED vars
  <2>1. UNCHANGED <<journal, reconciliationVars, crossed, call>>
    BY <1>3 DEF vars, callVars
  <2> QED BY <2>1, SameBooks, LetteringKept, MatchingKept DEF reconciliationVars
<1> QED BY <1>1, <1>2, <1>3 DEF Next

LEMMA PairingInit ==
  ASSUME Init
  PROVE  LetteringSound /\ MatchingSound
<1>1. /\ DOMAIN letter = {} /\ matched = [s \in Statements |-> [n \in DOMAIN Lines[s] |-> {}]]
      /\ \A k \in Slots : call[k] = Free
  BY DEF Init, ReconciliationInit, CallsInit
<1>2. \A k \in Slots : ~At(k, "next_letter") /\ ~At(k, "read_lines") /\ ~At(k, "next_match")
  BY <1>1 DEF At, Free
<1>3. LetteringSound
  BY <1>1, <1>2 DEF LetteringSound, InFlight
<1>4. MatchesAgree
  BY <1>1 DEF MatchesAgree
<1> QED BY <1>1, <1>2, <1>3, <1>4 DEF MatchingSound

LEMMA PairsDoAgree ==
  ASSUME Typed, LetteringSound, MatchingSound
  PROVE  PairsAgree
<1>1. ASSUME NEW d \in DOMAIN Letterings \ crossed, NEW l \in LinesOf(Letterings[d]) \cap DOMAIN letter
      PROVE  /\ Cardinality(Lettered(letter[l])) = 2
             /\ \E m \in Lettered(letter[l]) \ {l} : Line(m).debit = Line(l).credit
                                                     /\ Line(m).credit = Line(l).debit
  <2> DEFINE e == letter[l]
  <2>1. Coded(Letterings[d], l) /\ l \in e
    BY DEF LetteringSound
  <2>2. Lettered(e) = e
    BY <2>1 DEF Lettered, Coded, LetteringSound
  <2>3. PICK x, y \in LineIds : /\ e = {x, y}
                                /\ Line(x).debit > 0 /\ Line(x).credit = 0
                                /\ Line(y).debit = 0 /\ Line(y).credit = Line(x).debit
    BY <2>1 DEF Coded, GoodPairs, LinesOf
  <2>4. x # y
    BY <2>3
  <2>5. Cardinality({x, y}) = 2
    <3>1. Cardinality({x}) = 1 /\ IsFiniteSet({x}) /\ {x, y} = {x} \cup {y} /\ y \notin {x}
      BY <2>4, FS_Singleton
    <3>2. Cardinality({x} \cup {y}) = Cardinality({x}) + 1
      BY <3>1, FS_AddElement
    <3> QED BY <3>1, <3>2
  <2>6. l = x \/ l = y
    BY <2>1, <2>3
  <2> HIDE DEF e
  <2>7. \E m \in e \ {l} : Line(m).debit = Line(l).credit /\ Line(m).credit = Line(l).debit
    <3>1. CASE l = x
      <4>1. Line(x).credit = Line(y).debit /\ Line(x).debit = Line(y).credit /\ y \in e \ {l}
        BY <2>3, <2>4, <3>1
      <4> QED BY <3>1, <4>1
    <3>2. CASE l = y
      <4>1. Line(y).credit = Line(x).debit /\ Line(y).debit = Line(x).credit /\ x \in e \ {l}
        BY <2>3, <2>4, <3>2
      <4> QED BY <3>2, <4>1
    <3> QED BY <2>6, <3>1, <3>2
  <2> QED BY <2>2, <2>3, <2>5, <2>7 DEF e
<1>2. Bank \notin crossed => MatchesAgree
  BY DEF MatchingSound
<1> QED BY <1>1, <1>2 DEF PairsAgree, MatchesAgree

(***************************************************************************)
(* While two requests on an account never met, each of its lettering codes *)
(* is on one debit and one credit of the same amount; and while none met   *)
(* on the bank, no journal line answers for two statement lines, or for    *)
(* one of another amount, but by hand: wherever a restart may fall.        *)
(***************************************************************************)
THEOREM PairsAlwaysAgree == Spec => []PairsAgree
<1>1. Init => Typed /\ LetteringSound /\ MatchingSound
  BY TypedInit, PairingInit
<1>2. Typed /\ LetteringSound /\ MatchingSound /\ [Next]_vars
        => (Typed /\ LetteringSound /\ MatchingSound)'
  BY TypedStep, PairingStep
<1>3. Typed /\ LetteringSound /\ MatchingSound => PairsAgree
  BY PairsDoAgree
<1> QED BY <1>1, <1>2, <1>3, PTL DEF Spec
=============================================================================
