---------------------------- MODULE MCBackOffice ----------------------------
(***************************************************************************)
(* Instances of BackOffice for TLC.                                        *)
(***************************************************************************)
EXTENDS BackOffice, TLC

CONSTANTS i1, i2, i3, i4, co, c1, t1, r1, s1, s2, v1, v2, v3, a1, a2, a3, dep, p1, e1, e2, l1,
          let, bank, m1, m2, m3, m4, st1, st2, k1, k2

SlotSymmetry == Permutations(Slots)

AllDocs == {i1, i2, i3, i4, co, t1, r1, s1, s2, v1, v2, v3, a1, a2, a3, dep, p1, e1, e2, l1,
            let, bank, m1, m2, m3, m4}

\* The documents that interact, a group at a time.
Groups == {{i1, i2, co}, {i3, i4, m1, co}, {t1, m3}, {r1, s1, v1, v2}, {a1, dep}, {a2, dep},
           {a3, dep}, {v3}, {p1, e1, e2}, {p1, e2, l1}, {let, i1, m2, m4}, {bank, m2, m3}}

\* A till on its own.
OneTill == {{r1, s1, v1}}

\* m1 is out of balance by a cent; m2 pays the first invoice into the bank; m4
\* brings forward two debts, one of the same amount.
Entered == m1 :> <<Debit(571, 100), Credit(87, 99)>>
        @@ m2 :> <<Debit(521, 118), Credit(411, 118)>>
        @@ m3 :> <<Debit(65, 20), Credit(521, 20)>>
        @@ m4 :> <<Debit(411, 50), Debit(411, 118), Credit(101, 168)>>

Sold(ht, tva) == [type |-> "CUSTOMER", customer |-> c1, account |-> 411, ht |-> ht, tva |-> tva]
Bills == i1 :> Sold(100, 18) @@ i2 :> Sold(50, 0) @@ i4 :> Sold(40, 0)
      @@ i3 :> [type |-> "SUPPLIER", customer |-> c1, account |-> 401, ht |-> 60, tva |-> 11]
Limits == c1 :> 140
Plans  == i1 :> <<60, 58>> @@ i2 :> <<50>> @@ i4 :> <<20, 20>> @@ i3 :> <<71>>

Routes == t1 :> [from |-> 571, to |-> 521, amount |-> 30]
Drawers == s1 :> r1 @@ s2 :> r1
Pay(method, n) == [method |-> method, amount |-> n]
Sale(s, ht, tva, payments) == [session |-> s, ht |-> ht, tva |-> tva, payments |-> payments]
\* The third sale is of no session, as all that the point of sale sends.
Sales == v1 :> Sale(s1, 80, 10, <<Pay("CASH", 60), Pay("CASH", 40)>>)
      @@ v2 :> Sale(s1, 50, 0, <<Pay("CREDIT", 20), Pay("CASH", 30)>>)
      @@ v3 :> Sale(None, 50, 9, <<Pay("CASH", 59)>>)

Bought(cost, residual, years, method, rate, account) ==
  [cost |-> cost, residual |-> residual, years |-> years, method |-> method, rate |-> rate,
   account |-> account]
\* The third asset is expected to be sold for more than it cost.
Purchases == a1 :> Bought(1001, 0, 2, "STRAIGHT_LINE", 20, 2844)
          @@ a2 :> Bought(2005, 100, 3, "DECLINING_BALANCE", 25, 2845)
          @@ a3 :> Bought(10, 13, 2, "STRAIGHT_LINE", 20, 2844)

Wage  == e1 :> 9000000 @@ e2 :> 25000000
Raises == e1 :> 9500000 @@ e2 :> 25000000
\* The second day is a Tuesday, the sixth a Saturday.
Trip == l1 :> [employee |-> e2, days |-> 2..6, isPaid |-> FALSE]

LetteredAccounts == let :> 411
BankLines == st1 :> <<118, 0 - 20>> @@ st2 :> <<118>>
WithinDays == {st1, st2} \X {m2, m3}
=============================================================================
