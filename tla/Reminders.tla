------------------------------ MODULE Reminders ------------------------------
(***************************************************************************)
(* Reminders of overdue invoices (crm/reminders.service.ts): one request   *)
(* schedules them, another sends those that are scheduled.  Each goes      *)
(* through its list with one or two statements an element, and sending is  *)
(* a call to a provider between a read and an update.                      *)
(***************************************************************************)
EXTENDS Calls, SequencesExt

CONSTANTS Agenda,    \* the document of the requests about reminders
          Bills,     \* documents that are customer invoices
          Reachable  \* invoices whose customer has an address

ASSUME RemindersAssumption ==
  /\ Agenda \in Docs /\ Bills \subseteq Docs
  /\ IsFiniteSet(Bills) /\ Reachable \subseteq Bills

VARIABLES overdue,   \* invoices that are overdue
          reminder,  \* reminder[i]: the statuses of the reminders of invoice i
          mails,     \* mails[i]: messages that reached the provider
          unmarked   \* unmarked[i]: sent messages whose update to SENT was rejected

reminderVars == <<overdue, reminder, mails, unmarked>>

RemindersInit ==
  /\ overdue = Bills
  /\ reminder = [i \in Bills |-> <<>>]
  /\ mails = [i \in Bills |-> 0]
  /\ unmarked = [i \in Bills |-> 0]

With(i, status) == {n \in DOMAIN reminder[i] : reminder[i][n] = status}
Scheduled == UNION {{i} \X With(i, "SCHEDULED") : i \in Bills}
Bill(k) == Head(Todo(k))

-----------------------------------------------------------------------------
(***************************************************************************)
(* generateOverdueReminders.                                               *)
(***************************************************************************)
Generate(k) ==
  /\ Enter(k, "next_bill", Agenda, 0, SetToSeq(overdue))
  /\ UNCHANGED reminderVars

\* Mutant: a reminder that is scheduled does not keep another from being made.
AlwaysRemind(k) ==
  /\ At(k, "next_bill") /\ Todo(k) # <<>>
  /\ Goto(k, "insert_reminder")
  /\ UNCHANGED reminderVars

FindScheduled(k) ==
  /\ At(k, "next_bill") /\ Todo(k) # <<>>
  /\ IF With(Bill(k), "SCHEDULED") = {} THEN Goto(k, "insert_reminder")
     ELSE GotoLeft(k, "next_bill", Tail(Todo(k)))
  /\ UNCHANGED reminderVars

InsertReminder(k) ==
  /\ At(k, "insert_reminder")
  /\ reminder' = [reminder EXCEPT ![Bill(k)] = Append(reminder[Bill(k)], "SCHEDULED")]
  /\ GotoLeft(k, "next_bill", Tail(Todo(k)))
  /\ UNCHANGED <<overdue, mails, unmarked>>

-----------------------------------------------------------------------------
(***************************************************************************)
(* dispatchPending: an element is a pair of invoice and reminder.  A       *)
(* failure of any of its statements, the last one too, ends in FAILED.     *)
(***************************************************************************)
Dispatch(k) ==
  /\ Enter(k, "next_reminder", Agenda, 0, SetToSeq(Scheduled))
  /\ UNCHANGED reminderVars

Send(k) ==
  LET i == Head(Todo(k))[1]
  IN /\ At(k, "next_reminder") /\ Todo(k) # <<>>
     /\ i \in Reachable
     /\ mails' = [mails EXCEPT ![i] = mails[i] + 1]
     /\ Goto(k, "mark_sent")
     /\ UNCHANGED <<overdue, reminder, unmarked>>

\* The customer has no address, or the provider refuses.
SendFails(k) ==
  /\ At(k, "next_reminder") /\ Todo(k) # <<>>
  /\ Goto(k, "mark_failed")
  /\ UNCHANGED reminderVars

Mark(k, status) == reminder' = [reminder EXCEPT ![Head(Todo(k))[1]][Head(Todo(k))[2]] = status]

MarkSent(k) ==
  /\ At(k, "mark_sent")
  /\ Mark(k, "SENT")
  /\ GotoLeft(k, "next_reminder", Tail(Todo(k)))
  /\ UNCHANGED <<overdue, mails, unmarked>>

MarkSentFails(k) ==
  /\ At(k, "mark_sent")
  /\ unmarked' = [unmarked EXCEPT ![Head(Todo(k))[1]] = unmarked[Head(Todo(k))[1]] + 1]
  /\ Goto(k, "mark_failed")
  /\ UNCHANGED <<overdue, reminder, mails>>

MarkFailed(k) ==
  /\ At(k, "mark_failed")
  /\ Mark(k, "FAILED")
  /\ GotoLeft(k, "next_reminder", Tail(Todo(k)))
  /\ UNCHANGED <<overdue, mails, unmarked>>

RemindersDone(k) ==
  /\ call[k].at \in {"next_bill", "next_reminder"} /\ Todo(k) = <<>>
  /\ Leave(k)
  /\ UNCHANGED reminderVars

\* An invoice is paid: a reminder that is scheduled stays so.
PayBill(k, i) ==
  /\ i \in overdue
  /\ AtOnce(k, i)
  /\ overdue' = overdue \ {i}
  /\ UNCHANGED <<reminder, mails, unmarked>>

RemindersStep(k) ==
  \/ Generate(k) \/ FindScheduled(k) \/ InsertReminder(k)
  \/ Dispatch(k) \/ Send(k) \/ SendFails(k) \/ MarkSent(k) \/ MarkSentFails(k) \/ MarkFailed(k)
  \/ RemindersDone(k)
  \/ \E i \in Bills : PayBill(k, i)

-----------------------------------------------------------------------------
Marking(i) == {k \in Slots : At(k, "mark_sent") /\ Head(Todo(k))[1] = i}

(***************************************************************************)
(* A reminder marked SENT has been sent.  Requests that neither crossed    *)
(* nor stopped send each reminder once and keep one at most waiting: every *)
(* message is one reminder marked SENT, or being marked, or FAILED because *)
(* its update was rejected.                                                *)
(***************************************************************************)
RemindedOnce ==
  /\ \A i \in Bills : With(i, "SENT") # {} => mails[i] > 0
  /\ Undisturbed(Agenda) =>
       \A i \in Bills :
         /\ Cardinality(With(i, "SCHEDULED")) <= 1
         /\ mails[i] = Cardinality(With(i, "SENT")) + Cardinality(Marking(i)) + unmarked[i]
=============================================================================
