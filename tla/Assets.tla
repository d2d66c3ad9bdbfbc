------------------------------- MODULE Assets -------------------------------
(***************************************************************************)
(* Fixed assets and their depreciation (modules/fixed-assets,              *)
(* packages/accounting-engine/src/depreciation.ts).                        *)
(*                                                                         *)
(* Creating an asset writes its row and then, in one transaction, the rows *)
(* of its schedule.  postDue reads the unposted rows that are due, of the  *)
(* assets in service, and posts them one by one; a row that cannot be      *)
(* posted is skipped and the others go on.                                 *)
(***************************************************************************)
EXTENDS Ledger, SequencesExt

CONSTANTS FixedAssets, \* documents that are fixed assets
          Purchase,    \* Purchase[a]: cost, residual, years, method, rate in tenths, account
          Posting      \* the document of postDue: the company's depreciation

ASSUME AssetsAssumption ==
  /\ FixedAssets \cup {Posting} \subseteq Docs
  /\ Purchase \in [FixedAssets -> [cost : Nat, residual : Nat, years : Nat \ {0},
                                   method : {"STRAIGHT_LINE", "DECLINING_BALANCE"},
                                   rate : Nat, account : Nat]]

VARIABLES asset,       \* asset[a]: its status, or "absent"
          posted       \* posted[a]: isPosted of each row of the schedule

assetVars == <<asset, posted>>

AssetsInit ==
  /\ asset = [a \in FixedAssets |-> "absent"]
  /\ posted = [a \in FixedAssets |-> <<>>]

AssetsTypeOK ==
  /\ asset \in [FixedAssets -> {"absent", "IN_SERVICE", "FULLY_DEPRECIATED", "DISPOSED"}]
  /\ \A a \in FixedAssets : posted[a] \in {<<>>} \cup [1..Purchase[a].years -> BOOLEAN]

-----------------------------------------------------------------------------
(***************************************************************************)
(* computeDepreciationSchedule.                                            *)
(***************************************************************************)
\* round2 of a quotient of cents: Math.round takes halves up.
RoundDiv(n, d) == (n + d \div 2) \div d

Base(a) == Purchase[a].cost - Purchase[a].residual

\* What is left of the base after n years of the declining method.
Remaining(a) ==
  LET years == Purchase[a].years
      left[n \in 0..years] ==
        IF n = 0 THEN Base(a)
        ELSE IF n = years THEN 0
        ELSE LET declining == RoundDiv(left[n - 1] * Purchase[a].rate, 10 * years)
                 straight  == RoundDiv(left[n - 1], years - n + 1)
             IN left[n - 1] - Min({Max({declining, straight}), left[n - 1]})
  IN left

Amount(a, n) ==
  LET years  == Purchase[a].years
      annual == RoundDiv(Base(a), years)
  IN IF Purchase[a].method = "STRAIGHT_LINE"
     THEN IF n = years THEN Base(a) - (years - 1) * annual ELSE annual
     ELSE Remaining(a)[n - 1] - Remaining(a)[n]

-----------------------------------------------------------------------------
CreateAsset(k, a) ==
  /\ asset[a] = "absent"
  /\ asset' = [asset EXCEPT ![a] = "IN_SERVICE"]
  /\ Enter(k, "schedule_asset", a, 0, <<>>)
  /\ UNCHANGED <<journal, posted>>

GenerateSchedule(k) ==
  /\ At(k, "schedule_asset")
  /\ posted' = [posted EXCEPT ![Doc(k)] = [n \in 1..Purchase[Doc(k)].years |-> FALSE]]
  /\ Leave(k)
  /\ UNCHANGED <<journal, asset>>

\* findOne and the update: only the status that is read matters.
Dispose(k, a) ==
  /\ asset[a] \notin {"absent", "DISPOSED"}
  /\ Enter(k, "dispose_asset", a, 0, <<>>)
  /\ UNCHANGED <<journal, assetVars>>

MarkDisposed(k) ==
  /\ At(k, "dispose_asset")
  /\ asset' = [asset EXCEPT ![Doc(k)] = "DISPOSED"]
  /\ Leave(k)
  /\ UNCHANGED <<journal, posted>>

(***************************************************************************)
(* postDue, when the first n years have ended.                             *)
(***************************************************************************)
DueRows(n) ==
  {r \in UNION {{a} \X DOMAIN posted[a] : a \in FixedAssets} :
     asset[r[1]] = "IN_SERVICE" /\ ~posted[r[1]][r[2]] /\ r[2] <= n}

\* By sequenceNumber; rows of the same year come in any order.
PostDue(k, n) ==
  /\ \E rows \in SetToSeqs(DueRows(n)) :
       /\ \A i, j \in DOMAIN rows : i < j => rows[i][2] <= rows[j][2]
       /\ Enter(k, "next_row", Posting, 0, rows)
  /\ UNCHANGED <<journal, assetVars>>

Row(k) == Head(Todo(k))

PostRow(k) ==
  /\ At(k, "next_row") /\ Todo(k) # <<>>
  /\ LET a == Row(k)[1] n == Amount(a, Row(k)[2])
     IN Post(a, "OD", <<Debit(681, n), Credit(Purchase[a].account, n)>>)
  /\ Goto(k, "mark_row")
  /\ UNCHANGED assetVars

\* The accounting period of that year does not exist: the row is skipped.
SkipRow(k) ==
  /\ At(k, "next_row") /\ Todo(k) # <<>>
  /\ GotoLeft(k, "next_row", Tail(Todo(k)))
  /\ UNCHANGED <<journal, assetVars>>

\* Mutant: the row is not marked as posted.
RetireOnly(k) ==
  /\ At(k, "mark_row")
  /\ IF Row(k)[2] = Purchase[Row(k)[1]].years THEN Goto(k, "retire_asset")
     ELSE GotoLeft(k, "next_row", Tail(Todo(k)))
  /\ UNCHANGED <<journal, asset, posted>>

MarkRow(k) ==
  /\ At(k, "mark_row")
  /\ posted' = [posted EXCEPT ![Row(k)[1]][Row(k)[2]] = TRUE]
  /\ IF Row(k)[2] = Purchase[Row(k)[1]].years THEN Goto(k, "retire_asset")
     ELSE GotoLeft(k, "next_row", Tail(Todo(k)))
  /\ UNCHANGED <<journal, asset>>

Retire(k) ==
  /\ At(k, "retire_asset")
  /\ asset' = [asset EXCEPT ![Row(k)[1]] = "FULLY_DEPRECIATED"]
  /\ GotoLeft(k, "next_row", Tail(Todo(k)))
  /\ UNCHANGED <<journal, posted>>

PostDueDone(k) ==
  /\ At(k, "next_row") /\ Todo(k) = <<>>
  /\ Leave(k)
  /\ UNCHANGED <<journal, assetVars>>

MaxYears == Max({Purchase[a].years : a \in FixedAssets})

AssetsStep(k) ==
  \/ \E a \in FixedAssets : CreateAsset(k, a) \/ Dispose(k, a)
  \/ GenerateSchedule(k) \/ MarkDisposed(k)
  \/ \E n \in 1..MaxYears : PostDue(k, n)
  \/ PostRow(k) \/ SkipRow(k) \/ MarkRow(k) \/ Retire(k) \/ PostDueDone(k)

-----------------------------------------------------------------------------
PostedRows(a) == {n \in DOMAIN posted[a] : posted[a][n]}
InHand(a) == {k \in Slots : At(k, "mark_row") /\ Row(k)[1] = a}

OnAccount(a, account) ==
  SumFunction([l \in {i \in LineIds : i[1][1] = a /\ Line(i).account = account} |->
                 Line(l).credit])

\* The annuities of the straight-line method are rounded one by one, by half a
\* cent at most; the last year takes back what that adds up to.
Rounding(a) == IF Purchase[a].method = "STRAIGHT_LINE" THEN Purchase[a].years \div 2 ELSE 0

(***************************************************************************)
(* What the depreciation account of an asset has been credited with is     *)
(* what the posted rows say, never more than the base but for the rounding *)
(* of annuities (a residual value above the cost makes the base negative), *)
(* and with every row posted it is exactly the cost less the residual      *)
(* value: no row twice, no cent lost.                                      *)
(* Two depreciation runs at once, or one that stops between an entry and   *)
(* its row, post a row twice.                                              *)
(***************************************************************************)
DepreciatedOnce ==
  \A a \in FixedAssets :
    Undisturbed(Posting) /\ InHand(a) = {} =>
      /\ OnAccount(a, Purchase[a].account) = SumFunction([n \in PostedRows(a) |-> Amount(a, n)])
      /\ OnAccount(a, Purchase[a].account) <= Max({Base(a), 0}) + Rounding(a)
      /\ Cardinality(PostedRows(a)) = Purchase[a].years =>
           OnAccount(a, Purchase[a].account) = Base(a)
=============================================================================
