---------------------------- MODULE CashMovements ----------------------------
(***************************************************************************)
(* Movements of a petty cash box and their journal entries                 *)
(* (modules/treasury/cashboxes.service.ts and postCashMovement of          *)
(* treasury-posting.service.ts).                                           *)
(*                                                                         *)
(* addMovement writes the row, asks for an approval if it is an expense    *)
(* that reaches a threshold, and otherwise posts.  postApprovedMovement    *)
(* posts a movement that was held.  Posting is best effort: an entry, then *)
(* the link from the movement to it; either may fail and be logged.  Here  *)
(* a movement is named by the addMovement call that makes it, and it is    *)
(* the target of at most one request.                                      *)
(***************************************************************************)
EXTENDS Approvals

CONSTANTS Expenses,   \* the movements of type EXPENSE
          Posts,      \* postApprovedMovement calls
          MaxFaults   \* bound: restarts, and links that fail

ASSUME MovementsAssumption ==
  /\ Asks = Targets /\ Expenses \subseteq Targets
  /\ Targets # {} /\ Posts \cap Targets = {}
  /\ MaxFaults \in Nat

VARIABLES pc,        \* pc[c]: where call c stands
          mine,      \* mine[p]: the movement p posts
          row,       \* row[m]: the movement's row, and whether it is linked to an entry
          entries,   \* entries[m]: journal entries made for m
          overlaps,  \* overlaps[m]: posts of m begun while another call held m
          faults

movementVars == <<pc, mine, row, entries, overlaps, faults>>
vars == <<approvalVars, movementVars>>

Movements == Targets
Calls     == Movements \cup Posts

Init ==
  /\ ApprovalsInit
  /\ pc = [c \in Calls |-> "new"]
  /\ mine = [p \in Posts |-> CHOOSE m \in Movements : TRUE]
  /\ row = [m \in Movements |-> "absent"]
  /\ entries = [m \in Movements |-> 0]
  /\ overlaps = [m \in Movements |-> 0]
  /\ faults = 0

Movement(c) == IF c \in Posts THEN mine[c] ELSE c

Running(c) == pc[c] \notin {"new", "ended"}

Goto(c, p) == pc' = [pc EXCEPT ![c] = p]

-----------------------------------------------------------------------------
(***************************************************************************)
(* addMovement                                                             *)
(***************************************************************************)
Create(m) ==
  /\ pc[m] = "new"
  /\ row' = [row EXCEPT ![m] = "unposted"]
  /\ Goto(m, "created")
  /\ UNCHANGED <<approvalVars, mine, entries, overlaps, faults>>

\* The read of requestIfNeeded; a movement that is no expense skips it.
AskRule(m) ==
  /\ pc[m] = "created"
  /\ Goto(m, IF m \in Expenses /\ NeedsApproval(m) THEN "ask" ELSE "post")
  /\ UNCHANGED <<approvalVars, mine, row, entries, overlaps, faults>>

\* Mutant: a movement that has been held is posted all the same.
HoldAndPost(m) ==
  /\ pc[m] = "ask"
  /\ CreateRequest(m, m)
  /\ Goto(m, "post")
  /\ UNCHANGED <<mine, row, entries, overlaps, faults>>

Hold(m) ==
  /\ pc[m] = "ask"
  /\ CreateRequest(m, m)
  /\ Goto(m, "ended")
  /\ UNCHANGED <<mine, row, entries, overlaps, faults>>

-----------------------------------------------------------------------------
(***************************************************************************)
(* postApprovedMovement                                                    *)
(***************************************************************************)
Touched(m) == \E c \in Calls : Running(c) /\ Movement(c) = m

\* Mutant: the check on journalEntryId is missing.
PostReadLinked(p, m) ==
  /\ pc[p] = "new"
  /\ row[m] # "absent"
  /\ mine' = [mine EXCEPT ![p] = m]
  /\ overlaps' = [overlaps EXCEPT ![m] = IF Touched(m) THEN @ + 1 ELSE @]
  /\ Goto(p, "read")
  /\ UNCHANGED <<approvalVars, row, entries, faults>>

PostRead(p, m) ==
  /\ pc[p] = "new"
  /\ row[m] = "unposted"
  /\ mine' = [mine EXCEPT ![p] = m]
  /\ overlaps' = [overlaps EXCEPT ![m] = IF Touched(m) THEN @ + 1 ELSE @]
  /\ Goto(p, "read")
  /\ UNCHANGED <<approvalVars, row, entries, faults>>

\* Without a request the movement counts as free to post.
PostCheck(p) ==
  LET r == request[mine[p]]
  IN /\ pc[p] = "read"
     /\ Goto(p, IF r = NoRequest \/ r.status = "APPROVED" THEN "post" ELSE "ended")
     /\ UNCHANGED <<approvalVars, mine, row, entries, overlaps, faults>>

-----------------------------------------------------------------------------
(***************************************************************************)
(* postCashMovement, for both callers.                                     *)
(***************************************************************************)
PostEntry(c) ==
  /\ pc[c] = "post"
  /\ \/ Goto(c, "link") /\ entries' = [entries EXCEPT ![Movement(c)] = @ + 1]
     \/ Goto(c, "ended") /\ UNCHANGED entries
  /\ UNCHANGED <<approvalVars, mine, row, overlaps, faults>>

Link(c) ==
  /\ pc[c] = "link"
  /\ row' = [row EXCEPT ![Movement(c)] = "linked"]
  /\ Goto(c, "ended")
  /\ UNCHANGED <<approvalVars, mine, entries, overlaps, faults>>

Fault == faults < MaxFaults /\ faults' = faults + 1

LinkFails(c) ==
  /\ pc[c] = "link"
  /\ Fault
  /\ Goto(c, "ended")
  /\ UNCHANGED <<approvalVars, mine, row, entries, overlaps>>

Crash ==
  /\ Fault
  /\ pc' = [c \in Calls |-> IF pc[c] = "new" THEN "new" ELSE "ended"]
  /\ DecisionsLost
  /\ UNCHANGED <<rules, request, approved, ruleEdits, mine, row, entries, overlaps>>

AddMovement(m) == Create(m) \/ AskRule(m) \/ Hold(m)

PostApprovedMovement(p) == PostCheck(p) \/ \E m \in Movements : PostRead(p, m)

Next ==
  \/ ApprovalsNext /\ UNCHANGED movementVars
  \/ \E m \in Movements : AddMovement(m)
  \/ \E p \in Posts : PostApprovedMovement(p)
  \/ \E c \in Calls : PostEntry(c) \/ Link(c) \/ LinkFails(c)
  \/ Crash

Spec == Init /\ [][Next]_vars

-----------------------------------------------------------------------------
\* An expense that reached a threshold from the start.
Held(m) == m \in Expenses /\ NeedsApproval(m) /\ ruleEdits = 0

(***************************************************************************)
(* A movement is in the journal once, unless calls on it overlapped, a     *)
(* link failed or the process stopped: retrying a post one call at a time  *)
(* is harmless.                                                            *)
(***************************************************************************)
SpareEntriesHaveCauses == \A m \in Movements : entries[m] <= 1 + overlaps[m] + faults

(***************************************************************************)
(* With no overlap and no fault, an expense that reaches a threshold is in *)
(* the journal only after it was approved.                                 *)
(***************************************************************************)
HeldWhenUndisturbed ==
  \A m \in Movements :
    (Held(m) /\ entries[m] > 0 /\ overlaps[m] = 0 /\ faults = 0) => m \in approved
=============================================================================
