------------------------------ MODULE Preview ------------------------------
(***************************************************************************)
(* From a reviewed bill to the payload of an expense: the endpoint of      *)
(* create_preview, the repair of a prior-cycle payment, the gate,          *)
(* allocate_bill charge by charge, build_expense_preview and, after a      *)
(* confirmation, build_create_payload.                                     *)
(*                                                                         *)
(* This is what the constants Repair, Approved, Resolved, Postable and     *)
(* LocalOnly of the module Repository stand for.                           *)
(***************************************************************************)
EXTENDS Allocation

CONSTANTS
    Bills,      \* bills that were stored by a review or an extraction
    Households  \* household configurations sent by the browser

Bill == [forward: Money, payments: Money, current: Money, other: Money, due: Money,
         charges: Seq(Charge)]

\* HouseholdConfig.validate_references: owners and payer are members.
Household(h) ==
    /\ h.members # {} /\ h.members \subseteq Participants
    /\ h.weights \in [h.members -> Weight]
    /\ DOMAIN h.owners \subseteq Services /\ h.owners \in [DOMAIN h.owners -> h.members]
    /\ h.payer \in h.members \cup {NoOne}
    /\ h.users \subseteq h.members
    /\ h.group \in BOOLEAN /\ h.local \in BOOLEAN

ASSUME BillsAreBills == Bills \subseteq Bill

ASSUME HouseholdsAreHouseholds == \A h \in Households : Household(h)

VARIABLES
    stage,      \* how far the request has come, or how it ended
    reviewed,   \* the bill the request found
    bill,       \* the bill it works on, and stores
    household,
    shares,     \* charge_allocations: the shares of each charge so far
    totals,     \* participant_totals so far
    plan,       \* the preview's cost, owed and paid shares, and whether it is blocked
    payload     \* included |-> [owed, paid]

vars == <<stage, reviewed, bill, household, shares, totals, plan, payload>>

NoPlan == [cost |-> 0, owed |-> << >>, paid |-> << >>, blocked |-> TRUE]

\* Type invariant.
TypeOK ==
    /\ stage \in {"requested", "allocating", "allocated", "planned", "targeted",
                  "unresolved", "refused", "error"}
    /\ reviewed \in Bills /\ bill \in Bill /\ Household(household)
    /\ shares \in Seq(UNION {[S -> Money] : S \in SUBSET Participants})
    /\ Len(shares) <= Len(bill.charges)
    /\ DOMAIN totals \subseteq household.members
    /\ \A p \in DOMAIN totals : totals[p] \in Int
    /\ plan # NoPlan =>
          /\ plan.cost \in Money /\ plan.blocked \in BOOLEAN
          /\ plan.owed \in [household.members -> Money]
          /\ plan.paid \in [household.members -> Money]
    /\ DOMAIN payload \subseteq household.members

-----------------------------------------------------------------------------
(* The pure parts *)

\* The endpoint drops what a local summary does not need.
Normalized(h) ==
    [members |-> h.members, weights |-> h.weights, owners |-> h.owners, users |-> h.users,
     local |-> h.local, payer |-> IF h.local THEN NoOne ELSE h.payer,
     group |-> h.group /\ ~ h.local]

\* _ignore_prior_cycle_payment.
Repair(b) ==
    IF b.forward = 0 /\ b.current = b.due /\ b.payments < 0
    THEN [b EXCEPT !.payments = 0]
    ELSE b

Owed(p) == IF p \in DOMAIN totals THEN totals[p] ELSE 0

Paid(p) == IF p = household.payer THEN ItemizedTotal(bill.charges) ELSE 0

\* Fault: a missing payer is no blocker.
DestinationBlocksNoPayer ==
    ~ household.group
    \/ \E p \in household.members \ household.users : Owed(p) # 0 \/ Paid(p) # 0

\* The blockers that only concern Splitwise.
DestinationBlocks ==
    \/ household.payer = NoOne
    \/ ~ household.group
    \/ \E p \in household.members \ household.users : Owed(p) # 0 \/ Paid(p) # 0

HasBlocker ==
    \/ ItemizedTotal(bill.charges) <= 0
    \/ \E p \in household.members : Owed(p) < 0
    \/ ~ household.local /\ DestinationBlocks

-----------------------------------------------------------------------------
Init ==
    /\ stage = "requested"
    /\ reviewed \in {b \in Bills : ~ ReconcileRaises(b)}
    /\ bill = reviewed
    /\ household \in {Normalized(h) : h \in Households}
    /\ shares = << >> /\ totals = << >>
    /\ plan = NoPlan /\ payload = << >>

\* The bill is repaired, stored by review_bill if that changed it, and evaluated.
Evaluate ==
    /\ stage = "requested"
    /\ bill' = IF ReconcileRaises(Repair(bill)) THEN bill ELSE Repair(bill)
    /\ stage' = IF ReconcileRaises(Repair(bill))
                THEN "error"
                ELSE IF \A i \in DOMAIN bill.charges : HasOwner(bill.charges[i], household)
                     THEN "allocating"
                     ELSE "unresolved"
    /\ UNCHANGED <<reviewed, household, shares, totals, plan, payload>>

\* One charge.  Shares that do not add up raise.
AllocateCharge ==
    /\ stage = "allocating" /\ Len(shares) < Len(bill.charges)
    /\ LET charge == bill.charges[Len(shares) + 1]
           split == LargestRemainder(charge.amount, Weights(charge, household))
       IN  IF SumFunction(split) = charge.amount
           THEN /\ shares' = Append(shares, split)
                /\ totals' = AddShares(totals, split)
                /\ stage' = stage
           ELSE /\ stage' = "error"
                /\ UNCHANGED <<shares, totals>>
    /\ UNCHANGED <<reviewed, bill, household, plan, payload>>

\* BillAllocation: totals must agree, and be Money.
Consistent ==
    /\ ItemizedTotal(bill.charges) \in Money
    /\ \A p \in DOMAIN totals : totals[p] \in Money
    /\ SumFunction(totals) = ItemizedTotal(bill.charges)

CompleteAllocation ==
    /\ stage = "allocating" /\ Len(shares) = Len(bill.charges)
    /\ stage' = IF Consistent THEN "allocated" ELSE "error"
    /\ UNCHANGED <<reviewed, bill, household, shares, totals, plan, payload>>

\* build_expense_preview, then save_preview.
BuildPreview ==
    /\ stage = "allocated"
    /\ plan' = [cost |-> ItemizedTotal(bill.charges),
                owed |-> [p \in household.members |-> Owed(p)],
                paid |-> [p \in household.members |-> Paid(p)],
                blocked |-> GateBlocks(bill) \/ HasBlocker]
    /\ stage' = "planned"
    /\ UNCHANGED <<reviewed, bill, household, shares, totals, payload>>

Included == {p \in household.members : plan.owed[p] # 0 \/ plan.paid[p] # 0}

Payable ==
    /\ household.group
    /\ Included \subseteq household.users
    /\ SumFunctionOnSet(plan.owed, Included) = plan.cost
    /\ SumFunctionOnSet(plan.paid, Included) = plan.cost

\* confirmation_target of a run that is ready: build_create_payload.
BuildCreatePayload ==
    /\ stage = "planned" /\ ~ plan.blocked
    /\ IF Payable
       THEN /\ payload' = [p \in Included |-> [owed |-> plan.owed[p], paid |-> plan.paid[p]]]
            /\ stage' = "targeted"
       ELSE stage' = "refused" /\ UNCHANGED payload
    /\ UNCHANGED <<reviewed, bill, household, shares, totals, plan>>

Next == Evaluate \/ AllocateCharge \/ CompleteAllocation \/ BuildPreview \/ BuildCreatePayload

Spec == Init /\ [][Next]_vars

-----------------------------------------------------------------------------
(* Properties *)

\* Every charge is split to the cent and as proportionally as cents allow, whatever its
\* sign, and the same way each time.
SplitsAreFair ==
    \A i \in DOMAIN shares :
        IsFairSplit(shares[i], bill.charges[i].amount, Weights(bill.charges[i], household))

\* What can be confirmed divides exactly the current charges of a statement that
\* reconciles: the gate looks at the bill, the allocation at its charges and the
\* preview at the members, and nothing is lost in between.
ReadyPlanMatchesStatement ==
    stage \in {"planned", "targeted", "refused"} /\ ~ plan.blocked =>
        /\ plan.cost = bill.current
        /\ SumFunction(plan.owed) = bill.current
        /\ \A p \in household.members : plan.owed[p] >= 0
        /\ AmountDue(bill) = bill.due

\* The blockers of build_expense_preview foresee every refusal of build_create_payload:
\* a ready plan becomes a payload exactly if it is for Splitwise, and never fails after
\* its confirmation has been issued.
ReadyPlansArePayable ==
    /\ stage = "targeted" => ~ household.local
    /\ stage = "refused" => household.local

\* A bill without credits that is within the limit, as its stored reconciliation is,
\* never makes the allocation raise.
OrdinaryBillsAreAllocated ==
    stage = "error" =>
        ReconcileRaises(Repair(bill)) \/ \E i \in DOMAIN bill.charges : bill.charges[i].amount < 0

\* Only a bill whose balance equation fails is repaired (the comment on
\* _ignore_prior_cycle_payment).
RepairedBillsDidNotBalance == bill # reviewed => ~ BalancePasses(reviewed)
=============================================================================
