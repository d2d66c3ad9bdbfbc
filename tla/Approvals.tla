------------------------------ MODULE Approvals ------------------------------
(***************************************************************************)
(* Approval requests (modules/documents/approvals.service.ts).             *)
(*                                                                         *)
(* An operation whose amount reaches the threshold of a rule asks for an   *)
(* approval; a user who holds the role of that rule decides it.  Deciding  *)
(* is three reads and one update, with nothing around them.  A target is   *)
(* what the approval is about; the module that owns it extends this one.   *)
(***************************************************************************)
EXTENDS Integers, FiniteSets

CONSTANTS Targets,       \* operations that may need an approval
          Amount,        \* Amount[t]
          Asks,          \* calls that may create a request; a request is named by its call
          Decisions,     \* decide calls
          Rules,         \* approval rules
          MinAmount,     \* MinAmount[r]: the threshold of a rule
          RequiredRole,  \* RequiredRole[r]
          RolesOf,       \* RolesOf[d]: roles of the user who makes decision d
          NoRequest,     \* a call that has created no request
          InitRules,     \* the rules at the start
          MaxRuleEdits   \* bound: rules created or deleted

Verdicts == {"APPROVED", "REJECTED"}

ASSUME ApprovalsAssumption ==
  /\ Amount \in [Targets -> Nat]
  /\ MinAmount \in [Rules -> Nat]
  /\ InitRules \subseteq Rules /\ Asks # {}
  /\ NoRequest \notin [target: Targets, status: Verdicts \cup {"PENDING"}, by: SUBSET Decisions]
  /\ MaxRuleEdits \in Nat

VARIABLES rules,     \* the rules that exist
          request,   \* request[a]: the ApprovalRequest row, or NoRequest
          decide,    \* decide[d]: where decision d stands
          approved,  \* targets some request of which has been APPROVED at some time
          ruleEdits

approvalVars == <<rules, request, decide, approved, ruleEdits>>

ApprovalsInit ==
  /\ rules = InitRules
  /\ request = [a \in Asks |-> NoRequest]
  /\ decide = [d \in Decisions |-> [at |-> "idle", ask |-> CHOOSE a \in Asks : TRUE]]
  /\ approved = {}
  /\ ruleEdits = 0

Applicable(t) == {r \in rules : MinAmount[r] <= Amount[t]}

\* Mutant: the rules are read in ascending order.
LowRules(t) == {r \in Applicable(t) : \A q \in Applicable(t) : MinAmount[r] <= MinAmount[q]}

\* The order "minAmount desc" puts one of these first.
TopRules(t) == {r \in Applicable(t) : \A q \in Applicable(t) : MinAmount[q] <= MinAmount[r]}

NeedsApproval(t) == Applicable(t) # {}

RequestsWith(t, s) == {a \in Asks : request[a] # NoRequest /\ request[a].target = t
                                      /\ request[a].status = s}

-----------------------------------------------------------------------------
EditRules ==
  /\ ruleEdits < MaxRuleEdits
  /\ \E r \in Rules : rules' = IF r \in rules THEN rules \ {r} ELSE rules \cup {r}
  /\ ruleEdits' = ruleEdits + 1
  /\ UNCHANGED <<request, decide, approved>>

\* The insert that ends requestIfNeeded when a rule applied.
CreateRequest(a, t) ==
  /\ request' = [request EXCEPT ![a] = [target |-> t, status |-> "PENDING", by |-> {}]]
  /\ UNCHANGED <<rules, decide, approved, ruleEdits>>

DecideRead(d, a) ==
  /\ decide[d].at = "idle"
  /\ request[a] # NoRequest /\ request[a].status = "PENDING"
  /\ decide' = [decide EXCEPT ![d] = [at |-> "read", ask |-> a]]
  /\ UNCHANGED <<rules, request, approved, ruleEdits>>

DecideCheck(d) ==
  LET t == request[decide[d].ask].target
  IN /\ decide[d].at = "read"
     /\ \/ /\ ~NeedsApproval(t)
           /\ decide' = [decide EXCEPT ![d].at = "may"]
        \/ \E r \in TopRules(t) :
             decide' = [decide EXCEPT ![d].at =
                          IF RequiredRole[r] \in RolesOf[d] THEN "may" ELSE "ended"]
     /\ UNCHANGED <<rules, request, approved, ruleEdits>>

DecideWrite(d) ==
  LET a == decide[d].ask
  IN /\ decide[d].at = "may"
     /\ \E s \in Verdicts :
          /\ request' = [request EXCEPT ![a].status = s, ![a].by = {d}]
          /\ approved' = IF s = "APPROVED" THEN approved \cup {request[a].target} ELSE approved
     /\ decide' = [decide EXCEPT ![d].at = "ended"]
     /\ UNCHANGED <<rules, ruleEdits>>

ApprovalsNext ==
  \/ EditRules
  \/ \E d \in Decisions : \/ \E a \in Asks : DecideRead(d, a)
                          \/ DecideCheck(d)
                          \/ DecideWrite(d)

\* The decisions under way when the process stops are gone.
DecisionsLost == decide' = [d \in Decisions |-> IF decide[d].at = "idle" THEN decide[d]
                                                ELSE [decide[d] EXCEPT !.at = "ended"]]

-----------------------------------------------------------------------------
(***************************************************************************)
(* A request is decided by a user who holds the role of the highest rule   *)
(* its amount reaches, and not the role of a lower one (README, "Workflow  *)
(* approval": exactly the role of the rule).                               *)
(***************************************************************************)
DecidedByRole ==
  ruleEdits = 0 =>
    \A a \in Asks : request[a] # NoRequest =>
      \A d \in request[a].by : \E r \in Applicable(request[a].target) :
        /\ RequiredRole[r] \in RolesOf[d]
        /\ \A q \in Applicable(request[a].target) : MinAmount[q] <= MinAmount[r]
=============================================================================
