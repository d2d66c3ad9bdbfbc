--------------------------- MODULE Reconciliation ---------------------------
(***************************************************************************)
(* Lettering of the lines of an account, and matching of bank statements   *)
(* with the lines of the bank's account (accounting/lettrage.service.ts,   *)
(* bank-statements.service.ts, packages/accounting-engine).                *)
(*                                                                         *)
(* Both read lines, compute pairs of equal amounts, and then write the     *)
(* pairs one by one without looking again.  The code of a lettered pair is *)
(* random in the program; here it is the pair itself.                      *)
(***************************************************************************)
EXTENDS Ledger, SequencesExt

CONSTANTS Letterings, \* Letterings[d]: the account lettered by the requests about d, and by no others
          Statements, \* statements of one bank account
          Received,   \* statements imported before
          Lines,      \* Lines[s]: the amounts of statement s, money out below zero
          Near,       \* pairs of statement and document within five days
          Bank        \* the document of requests about the bank account

ASSUME ReconciliationAssumption ==
  /\ DOMAIN Letterings \cup {Bank} \subseteq Docs
  /\ IsInjective(Letterings)
  /\ \A s \in Statements : Lines[s] \in Seq(Int)

VARIABLES letter,     \* letter[l]: the code of journal line l, where it has one
          imported,   \* statements imported
          matched,    \* matched[s][n]: journal lines matched with line n of s, one at most
          byHand      \* journal lines matched by hand

reconciliationVars == <<letter, imported, matched, byHand>>

ReconciliationInit ==
  /\ letter = [l \in {} |-> {}]
  /\ imported = Received
  /\ matched = [s \in Statements |-> [n \in DOMAIN Lines[s] |-> {}]]
  /\ byHand = {}

ReconciliationTypeOK ==
  /\ DOMAIN letter \subseteq LineIds
  /\ imported \subseteq Statements
  /\ \A s \in Statements : \A n \in DOMAIN Lines[s] :
       matched[s][n] \subseteq LineIds /\ Cardinality(matched[s][n]) <= 1
  /\ byHand \subseteq LineIds

LinesOf(account) == {l \in LineIds : Line(l).account = account}

-----------------------------------------------------------------------------
(***************************************************************************)
(* autoMatchLettrage: each debit, in the order read, takes the first       *)
(* credit of its amount that is still free.                                *)
(***************************************************************************)
FreeLines(account, side) == {l \in LinesOf(account) \ DOMAIN letter : Line(l)[side] > 0}

\* Mutant: amounts are not compared.
PairsOfAny(account) ==
  LET credits == FreeLines(account, "credit")
      take(pairs, d) ==
        LET fit == credits \ UNION ToSet(pairs)
        IN IF fit = {} THEN pairs ELSE Append(pairs, {d, CHOOSE c \in fit : TRUE})
  IN FoldLeft(take, <<>>, SetToSeq(FreeLines(account, "debit")))

Pairs(account) ==
  LET credits == FreeLines(account, "credit")
      take(pairs, d) ==
        LET fit == {c \in credits \ UNION ToSet(pairs) : Line(c).credit = Line(d).debit}
        IN IF fit = {} THEN pairs ELSE Append(pairs, {d, CHOOSE c \in fit : TRUE})
  IN FoldLeft(take, <<>>, SetToSeq(FreeLines(account, "debit")))

AutoLetter(k, d) ==
  /\ Enter(k, "next_letter", d, 0, Pairs(Letterings[d]))
  /\ UNCHANGED <<journal, reconciliationVars>>

WriteLetter(k) ==
  /\ At(k, "next_letter") /\ Todo(k) # <<>>
  /\ LET pair == Head(Todo(k))
     IN letter' = [l \in DOMAIN letter \cup pair |-> IF l \in pair THEN pair ELSE letter[l]]
  /\ GotoLeft(k, "next_letter", Tail(Todo(k)))
  /\ UNCHANGED <<journal, imported, matched, byHand>>

-----------------------------------------------------------------------------
(***************************************************************************)
(* Statements.                                                             *)
(***************************************************************************)
Import(k, s) ==
  /\ AtOnce(k, Bank)
  /\ s \notin imported
  /\ imported' = imported \cup {s}
  /\ UNCHANGED <<journal, letter, matched, byHand>>

Unmatched(s) == {n \in DOMAIN Lines[s] : matched[s][n] = {}}
Matched      == UNION UNION {{matched[s][n] : n \in DOMAIN Lines[s]} : s \in Statements}

\* Money in matches a line that debited the bank, money out one that credited it.
Agrees(l, amount) == IF amount > 0 THEN Line(l).debit = amount ELSE Line(l).credit = 0 - amount

\* matchBankStatement, for the lines ns of s.
Matches(s, ns) ==
  LET open == {l \in LinesOf(521) \ Matched : <<s, l[1][1]>> \in Near}
      take(found, n) ==
        LET fit == {l \in open \ {found[i][3] : i \in DOMAIN found} : Agrees(l, Lines[s][n])}
        IN IF fit = {} THEN found ELSE Append(found, <<s, n, CHOOSE l \in fit : TRUE>>)
  IN FoldLeft(take, <<>>, ns)

AutoMatch(k, s) ==
  /\ s \in imported
  /\ Unmatched(s) # {}
  /\ \E ns \in SetToSeqs(Unmatched(s)) :
       /\ \A i, j \in DOMAIN ns : i < j => ns[i] < ns[j]
       /\ Enter(k, "read_lines", Bank, 0, <<s, ns>>)
  /\ UNCHANGED <<journal, reconciliationVars>>

ReadLines(k) ==
  /\ At(k, "read_lines")
  /\ GotoLeft(k, "next_match", Matches(Todo(k)[1], Todo(k)[2]))
  /\ UNCHANGED <<journal, reconciliationVars>>

WriteMatch(k) ==
  /\ At(k, "next_match") /\ Todo(k) # <<>>
  /\ LET m == Head(Todo(k)) IN matched' = [matched EXCEPT ![m[1]][m[2]] = {m[3]}]
  /\ GotoLeft(k, "next_match", Tail(Todo(k)))
  /\ UNCHANGED <<journal, letter, imported, byHand>>

AllWritten(k) ==
  /\ call[k].at \in {"next_letter", "next_match"} /\ Todo(k) = <<>>
  /\ Leave(k)
  /\ UNCHANGED <<journal, reconciliationVars>>

\* manualMatch: any line of the statement, any line of the bank's account.
ManualMatch(k, s, n, l) ==
  /\ AtOnce(k, Bank)
  /\ s \in imported
  /\ matched' = [matched EXCEPT ![s][n] = {l}]
  /\ byHand' = byHand \cup {l}
  /\ UNCHANGED <<journal, letter, imported>>

ReconciliationStep(k) ==
  \/ \E d \in DOMAIN Letterings : AutoLetter(k, d)
  \/ WriteLetter(k)
  \/ \E s \in Statements : \/ Import(k, s) \/ AutoMatch(k, s)
                           \/ \E n \in DOMAIN Lines[s], l \in LinesOf(521) : ManualMatch(k, s, n, l)
  \/ ReadLines(k) \/ WriteMatch(k) \/ AllWritten(k)

-----------------------------------------------------------------------------
Lettered(code) == {l \in DOMAIN letter : letter[l] = code}

(***************************************************************************)
(* Unless two of these requests ran at once: a lettering code is on one    *)
(* debit and one credit of the same amount, and no line of the bank's      *)
(* account answers for two statement lines, or for one of another amount,  *)
(* except those matched by hand.  A restart half-way does not matter.      *)
(***************************************************************************)
PairsAgree ==
  /\ \A d \in DOMAIN Letterings \ crossed : \A l \in LinesOf(Letterings[d]) \cap DOMAIN letter :
       /\ Cardinality(Lettered(letter[l])) = 2
       /\ \E m \in Lettered(letter[l]) \ {l} : Line(m).debit = Line(l).credit
                                               /\ Line(m).credit = Line(l).debit
  /\ Bank \notin crossed =>
       \A s, t \in Statements : \A m \in DOMAIN Lines[s], n \in DOMAIN Lines[t] :
         \A l \in matched[s][m] \ byHand :
           /\ Agrees(l, Lines[s][m])
           /\ l \in matched[t][n] => <<s, m>> = <<t, n>>
=============================================================================
