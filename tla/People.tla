------------------------------- MODULE People -------------------------------
(***************************************************************************)
(* Employees, their contracts, attendance and leave (modules/hr).          *)
(***************************************************************************)
EXTENDS Calls, FiniteSetsExt

CONSTANTS Employees,  \* documents that are employees
          Hired,      \* employees there at the start
          BaseSalary, Raised, \* salaries, in cents, at the start and after a raise
          Leaves,     \* documents that are leave requests
          Absence,     \* Absence[r]: employee, days, isPaid
          Days,       \* days of the month an absence is recorded on
          MonthDays   \* the days of the month; the first one is a Monday

ASSUME PeopleAssumption ==
  /\ Employees \cup Leaves \subseteq Docs
  /\ BaseSalary \in [Employees -> Nat] /\ Raised \in [Employees -> Nat]
  /\ IsFiniteSet(Days) /\ IsFiniteSet(MonthDays)
  /\ \E d \in MonthDays : d \in 1..5   \* a working day

VARIABLES employee,   \* employee[e]: status, or "absent"
          contracts,  \* contracts[e]: contracts without an end date
          salary,     \* salary[e]: baseSalary
          attendance, \* attendance[e]: status by day
          leave       \* leave[r]: status, or "absent"

peopleVars == <<employee, contracts, salary, attendance, leave>>

PeopleInit ==
  /\ employee = [e \in Employees |-> IF e \in Hired THEN "ACTIVE" ELSE "absent"]
  /\ contracts = [e \in Employees |-> IF e \in Hired THEN 1 ELSE 0]
  /\ salary = BaseSalary
  /\ attendance = [e \in Employees |-> [d \in Days |-> "none"]]
  /\ leave = [r \in Leaves |-> "absent"]

PeopleTypeOK ==
  /\ employee \in [Employees -> {"absent", "ACTIVE", "ON_LEAVE", "TERMINATED"}]
  /\ contracts \in [Employees -> Nat] /\ salary \in [Employees -> Nat]
  /\ attendance \in [Employees -> [Days -> {"none", "PRESENT", "ABSENT", "LATE", "HALF_DAY"}]]
  /\ leave \in [Leaves -> {"absent", "PENDING", "APPROVED", "REJECTED"}]

-----------------------------------------------------------------------------
Hire(k, e) ==
  /\ AtOnce(k, e)
  /\ employee[e] = "absent"
  /\ employee' = [employee EXCEPT ![e] = "ACTIVE"]
  /\ UNCHANGED <<contracts, salary, attendance, leave>>

Raise(k, e) ==
  /\ AtOnce(k, e)
  /\ employee[e] # "absent"
  /\ salary' = [salary EXCEPT ![e] = Raised[e]]
  /\ UNCHANGED <<employee, contracts, attendance, leave>>

SignContract(k, e) ==
  /\ AtOnce(k, e)
  /\ employee[e] # "absent"
  /\ contracts' = [contracts EXCEPT ![e] = @ + 1]
  /\ UNCHANGED <<employee, salary, attendance, leave>>

\* end, of a contract without an end date.
EndContract(k, e) ==
  /\ contracts[e] > 0
  /\ AtOnce(k, e)
  /\ contracts' = [contracts EXCEPT ![e] = @ - 1]
  /\ UNCHANGED <<employee, salary, attendance, leave>>

\* terminate: the open contracts first, then the employee.
Terminate(k, e) ==
  /\ employee[e] # "absent"
  /\ contracts' = [contracts EXCEPT ![e] = 0]
  /\ Enter(k, "terminate", e, 0, <<>>)
  /\ UNCHANGED <<employee, salary, attendance, leave>>

MarkTerminated(k) ==
  /\ At(k, "terminate")
  /\ employee' = [employee EXCEPT ![Doc(k)] = "TERMINATED"]
  /\ Leave(k)
  /\ UNCHANGED <<contracts, salary, attendance, leave>>

\* record, and checkIn of the day; the row of a day is unique.
RecordAttendance(k, e, d, status) ==
  /\ AtOnce(k, e)
  /\ employee[e] # "absent"
  /\ attendance' = [attendance EXCEPT ![e][d] = status]
  /\ UNCHANGED <<employee, contracts, salary, leave>>

RequestLeave(k, r) ==
  /\ AtOnce(k, r)
  /\ leave[r] = "absent" /\ employee[Absence[r].employee] # "absent"
  /\ leave' = [leave EXCEPT ![r] = "PENDING"]
  /\ UNCHANGED <<employee, contracts, salary, attendance>>

\* setStatus, of approve and of reject.
DecideLeave(k, r, place) ==
  /\ leave[r] = "PENDING"
  /\ Enter(k, place, r, 0, <<>>)
  /\ UNCHANGED peopleVars

WriteDecision(k) ==
  /\ call[k].at \in {"APPROVED", "REJECTED"}
  /\ leave' = [leave EXCEPT ![Doc(k)] = call[k].at]
  /\ Leave(k)
  /\ UNCHANGED <<employee, contracts, salary, attendance>>

PeopleStep(k) ==
  \/ \E e \in Employees : \/ Hire(k, e) \/ Raise(k, e) \/ SignContract(k, e) \/ EndContract(k, e)
                          \/ Terminate(k, e)
                          \/ \E d \in Days, s \in {"PRESENT", "ABSENT"} : RecordAttendance(k, e, d, s)
  \/ \E r \in Leaves : \/ RequestLeave(k, r)
                       \/ \E place \in {"APPROVED", "REJECTED"} : DecideLeave(k, r, place)
  \/ MarkTerminated(k) \/ WriteDecision(k)

-----------------------------------------------------------------------------
(***************************************************************************)
(* computeForPeriod: an absence counts unless an approved leave covers the *)
(* day; a day of approved unpaid leave counts.  Only weekdays of leaves    *)
(* are looked at, but every recorded absence is.                           *)
(***************************************************************************)
Weekdays == {d \in MonthDays : (d - 1) % 7 < 5}

LeaveDays(e, kinds) ==
  UNION {Absence[r].days \cap Weekdays :
           r \in {q \in Leaves : leave[q] = "APPROVED" /\ Absence[q].employee = e
                                 /\ Absence[q].isPaid \in kinds}}

UnpaidDays(e) ==
  Cardinality(LeaveDays(e, {FALSE}))
    + Cardinality({d \in Days : attendance[e][d] = "ABSENT"} \ LeaveDays(e, BOOLEAN))

\* Days paid, out of the working days of the month.
PaidDays(e) == Max({0, Cardinality(Weekdays) - UnpaidDays(e)})
=============================================================================
