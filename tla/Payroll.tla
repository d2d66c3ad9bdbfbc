------------------------------- MODULE Payroll -------------------------------
(***************************************************************************)
(* Payroll runs (modules/payroll, packages/payroll-engine).                *)
(*                                                                         *)
(* Creating a run reads the active employees with their salaries, writes   *)
(* the run, and then one payslip after the other, each from the attendance *)
(* it reads at that time.  The run can be validated from the moment it     *)
(* exists.  Amounts are cents.                                             *)
(***************************************************************************)
EXTENDS Ledger, People, SequencesExt

CONSTANTS Runs   \* documents that are payroll runs, one per period

ASSUME PayrollAssumption == Runs \subseteq Docs

VARIABLES run,      \* run[p]: status, or "absent"
          slips,    \* slips[p]: its payslips
          staffed,  \* staffed[p]: the employees the run is for
          batches   \* batches[p]: transfer batches made for it

payrollVars == <<run, slips, staffed, batches>>

PayrollInit ==
  /\ run = [p \in Runs |-> "absent"]
  /\ slips = [p \in Runs |-> {}]
  /\ staffed = [p \in Runs |-> {}]
  /\ batches = [p \in Runs |-> 0]

PayrollTypeOK ==
  /\ run \in [Runs -> {"absent", "DRAFT", "VALIDATED"}]
  /\ \A p \in Runs : /\ \A s \in slips[p] : /\ s.employee \in staffed[p]
                                            /\ {s.gross, s.net, s.its, s.cnps, s.employer} \subseteq Nat
                     /\ batches[p] \in 0..MaxCalls

-----------------------------------------------------------------------------
(***************************************************************************)
(* computePayslip, with the default components.                            *)
(***************************************************************************)
Rounded(n, d) == (n + d \div 2) \div d

\* applyProgressiveBrackets: lower bound, upper bound in francs, and rate.
Brackets == {<<0, 75000, 0>>, <<75000, 240000, 16>>, <<240000, 800000, 21>>,
             <<800000, 2400000, 24>>, <<2400000, 8000000, 28>>}
Slice(base, b) == Max({0, Min({base, 100 * b[2]}) - 100 * b[1]})
ITS(base) == Rounded(SumFunction([b \in Brackets |-> Slice(base, b) * b[3]]), 100)

\* cappedPercentage, the rate in tenths of a percent; 1 647 315 francs at most.
Capped(gross, tenths) == Rounded(Min({gross, 164731500}) * tenths, 1000)

Transport == 2500000

Payslip(e, base) ==
  LET gross == base + Transport
      cnps  == Capped(gross, 63)
      its   == ITS(base)
  IN [employee |-> e, gross |-> gross, cnps |-> cnps, its |-> its,
      net |-> gross - (cnps + its),
      employer |-> Capped(gross, 77) + Rounded(gross * 23, 400) + Rounded(gross * 3, 100)]

Prorated(e, base) == Rounded(base * PaidDays(e), Cardinality(Weekdays))

-----------------------------------------------------------------------------
Active == {e \in Employees : employee[e] = "ACTIVE"}

CreateRun(k, p) ==
  /\ run[p] = "absent"
  /\ Active # {}
  /\ Enter(k, "insert_run", p, 0, SetToSeq({<<e, salary[e]>> : e \in Active}))
  /\ UNCHANGED <<journal, peopleVars, payrollVars>>

\* [companyId, period] is unique: a second run of the period is refused.
InsertRun(k) ==
  /\ At(k, "insert_run")
  /\ IF run[Doc(k)] = "absent"
     THEN /\ run' = [run EXCEPT ![Doc(k)] = "DRAFT"]
          /\ staffed' = [staffed EXCEPT ![Doc(k)] = {t[1] : t \in ToSet(Todo(k))}]
          /\ Goto(k, "next_slip")
     ELSE Leave(k) /\ UNCHANGED <<run, staffed>>
  /\ UNCHANGED <<journal, peopleVars, slips, batches>>

\* computeForPeriod, then the payslip.
ComputeSlip(k) ==
  /\ At(k, "next_slip") /\ Todo(k) # <<>>
  /\ GotoWith(k, "insert_slip", Prorated(Head(Todo(k))[1], Head(Todo(k))[2]))
  /\ UNCHANGED <<journal, peopleVars, payrollVars>>

\* Mutant: the last employee of the list gets no payslip.
InsertSlipButLast(k) ==
  /\ At(k, "insert_slip")
  /\ slips' = IF Len(Todo(k)) = 1 THEN slips
              ELSE [slips EXCEPT ![Doc(k)] = @ \cup {Payslip(Head(Todo(k))[1], Figure(k))}]
  /\ GotoLeft(k, "next_slip", Tail(Todo(k)))
  /\ UNCHANGED <<journal, peopleVars, run, staffed, batches>>

InsertSlip(k) ==
  /\ At(k, "insert_slip")
  /\ slips' = [slips EXCEPT ![Doc(k)] = @ \cup {Payslip(Head(Todo(k))[1], Figure(k))}]
  /\ GotoLeft(k, "next_slip", Tail(Todo(k)))
  /\ UNCHANGED <<journal, peopleVars, run, staffed, batches>>

RunCreated(k) ==
  /\ At(k, "next_slip") /\ Todo(k) = <<>>
  /\ Leave(k)
  /\ UNCHANGED <<journal, peopleVars, payrollVars>>

-----------------------------------------------------------------------------
\* validate reads the run with the payslips it has so far.
ValidateRun(k, p) ==
  /\ run[p] = "DRAFT"
  /\ Enter(k, "post_run", p, 0, SetToSeq(slips[p]))
  /\ UNCHANGED <<journal, peopleVars, payrollVars>>

\* postRun: taxes to 447, contributions to 431.
RunLines(paid) ==
  LET total(field) == SumFunction([s \in paid |-> s[field]])
  IN <<Debit(661, total("gross"))>>
       \o IfAny(Debit(664, total("employer")))
       \o <<Credit(422, total("net")), Credit(431, total("cnps") + total("employer")),
            Credit(447, total("its"))>>

PostRun(k) ==
  /\ At(k, "post_run")
  /\ Post(Doc(k), "PA", RunLines(ToSet(Todo(k))))
  /\ Goto(k, "mark_run")
  /\ UNCHANGED <<peopleVars, payrollVars>>

\* A run that cannot be posted is validated all the same.
RunUnposted(k) ==
  /\ At(k, "post_run")
  /\ Goto(k, "mark_run")
  /\ UNCHANGED <<journal, peopleVars, payrollVars>>

MarkRun(k) ==
  /\ At(k, "mark_run")
  /\ run' = [run EXCEPT ![Doc(k)] = "VALIDATED"]
  /\ Leave(k)
  /\ UNCHANGED <<journal, peopleVars, slips, staffed, batches>>

\* generateForRun: nothing looks at the batches there are.
GenerateTransfers(k, p) ==
  /\ AtOnce(k, p)
  /\ run[p] = "VALIDATED" /\ slips[p] # {}
  /\ batches' = [batches EXCEPT ![p] = @ + 1]
  /\ UNCHANGED <<journal, peopleVars, run, slips, staffed>>

PayrollStep(k) ==
  \/ \E p \in Runs : CreateRun(k, p) \/ ValidateRun(k, p) \/ GenerateTransfers(k, p)
  \/ InsertRun(k) \/ ComputeSlip(k) \/ InsertSlip(k) \/ RunCreated(k)
  \/ PostRun(k) \/ RunUnposted(k) \/ MarkRun(k)

-----------------------------------------------------------------------------
Owed(p) == SumFunction([s \in slips[p] |-> s.net])
Booked(p) ==
  SumFunction([l \in {i \in LineIds : i[1][1] = p /\ Line(i).account = 422} |->
                 Line(l).credit - Line(l).debit])

(***************************************************************************)
(* A run whose requests never met and never stopped half-way: once it is   *)
(* validated every employee it is for has one payslip, and what is owed to *)
(* the staff is booked once, if at all.                                    *)
(***************************************************************************)
RunIsWhole ==
  \A p \in Runs :
    run[p] = "VALIDATED" /\ Undisturbed(p) =>
      /\ {s.employee : s \in slips[p]} = staffed[p]
      /\ Cardinality(slips[p]) = Cardinality(staffed[p])
      /\ Booked(p) \in {0, Owed(p)}
=============================================================================
