----------------------------- MODULE Allocation -----------------------------
(***************************************************************************)
(* The monetary rules of WaySplit (waysplit/domain/): amounts, what makes  *)
(* a bill reconcile, who owes a charge and how its cents are split.        *)
(*                                                                         *)
(* An amount is a number of cents.  Weights are decimals with at most six  *)
(* places and enter only as ratios, so they are positive integers here.    *)
(* Participants are numbered in the order of their ids.  What the gate     *)
(* asks of a charge besides its amount, confidence and evidence, is one    *)
(* bit.  The rest of a bill is left out: no rule here looks at it.         *)
(***************************************************************************)
EXTENDS Integers, Sequences, FiniteSets, Functions

CONSTANTS
    MaxMoney,      \* MAX_ABSOLUTE_MONEY
    Participants,  \* participant ids, as their ranks
    Services,      \* service identifiers
    NoOne          \* None

ASSUME LimitIsPositive == MaxMoney \in Nat \ {0}

ASSUME ParticipantsAreRanks == Participants \subseteq Nat /\ IsFiniteSet(Participants)

ASSUME NoOneIsNobody == NoOne \notin Participants \cup Services

Money == -MaxMoney .. MaxMoney

Weight == Nat \ {0}

\* A charge of scope "account" is shared; one of scope "line" belongs to a service.
Charge == [amount: Money, scope: {"account", "line"}, service: Services \cup {NoOne},
           trusted: BOOLEAN]

ItemizedTotal(charges) == SumFunction([i \in DOMAIN charges |-> charges[i].amount])

-----------------------------------------------------------------------------
(* Reconciliation and the posting gate *)

AmountDue(b) == b.forward + b.payments + b.current + b.other

LineItemsPass(b) == ItemizedTotal(b.charges) = b.current

\* Fault: an amount due in the operator's favour is let through.
BalancePassesBelow(b) == AmountDue(b) >= b.due

BalancePasses(b) == AmountDue(b) = b.due

\* The checks are records of Money: sums beyond the limit raise instead of failing.
ReconcileRaises(b) ==
    ~ {ItemizedTotal(b.charges), ItemizedTotal(b.charges) - b.current,
       AmountDue(b), AmountDue(b) - b.due} \subseteq Money

GateBlocks(b) ==
    \/ b.charges = << >>
    \/ ~ LineItemsPass(b)
    \/ ~ BalancePasses(b)
    \/ \E i \in DOMAIN b.charges : ~ b.charges[i].trusted

-----------------------------------------------------------------------------
(* Largest-remainder allocation of one charge *)

Abs(n) == IF n < 0 THEN -n ELSE n

TotalWeight(weights) == SumFunction(weights)

BaseCents(cents, weights) ==
    [p \in DOMAIN weights |-> (cents * weights[p]) \div TotalWeight(weights)]

Remainder(cents, weights) ==
    [p \in DOMAIN weights |-> (cents * weights[p]) % TotalWeight(weights)]

\* Fault: one cent is handed out too often.
CentsLeftPlusOne(cents, weights) == cents - SumFunction(BaseCents(cents, weights)) + 1

CentsLeft(cents, weights) == cents - SumFunction(BaseCents(cents, weights))

\* Fault: ties go to the later id.
ComesBeforeReversed(q, p, remainder) ==
    remainder[q] > remainder[p] \/ (remainder[q] = remainder[p] /\ q > p)

\* The order in which the cents left over are handed out.
ComesBefore(q, p, remainder) ==
    remainder[q] > remainder[p] \/ (remainder[q] = remainder[p] /\ q < p)

GetsOneMore(p, cents, weights) ==
    Cardinality({q \in DOMAIN weights : ComesBefore(q, p, Remainder(cents, weights))})
        < CentsLeft(cents, weights)

\* allocate_largest_remainder: a credit is the sign inverse of a charge.
LargestRemainder(amount, weights) ==
    [p \in DOMAIN weights |->
        (IF amount < 0 THEN -1 ELSE 1)
            * (BaseCents(Abs(amount), weights)[p]
                 + IF GetsOneMore(p, Abs(amount), weights) THEN 1 ELSE 0)]

-----------------------------------------------------------------------------
(* Allocation of a bill: rules maps services to owners, members to weights *)

\* _ownership_failures.
HasOwner(charge, rules) ==
    charge.scope = "line" => charge.service \in DOMAIN rules.owners

Weights(charge, rules) ==
    IF charge.scope = "line"
    THEN [p \in {rules.owners[charge.service]} |-> 1]
    ELSE rules.weights

\* The running participant_totals.
AddShares(totals, shares) ==
    [p \in DOMAIN totals \cup DOMAIN shares |->
        (IF p \in DOMAIN totals THEN totals[p] ELSE 0)
            + (IF p \in DOMAIN shares THEN shares[p] ELSE 0)]

\* Reference definition.  The shares add up to the amount, and no cent can be moved
\* from p to q that would bring the split closer to the proportional one, or leave it
\* as close and favour the smaller id.
IsFairSplit(shares, amount, weights) ==
    LET sign == IF amount < 0 THEN -1 ELSE 1
        total == TotalWeight(weights)
        excess == [p \in DOMAIN weights |->
                     (sign * shares[p]) * total - Abs(amount) * weights[p]]
    IN  /\ DOMAIN shares = DOMAIN weights
        /\ SumFunction(shares) = amount
        /\ \A p, q \in DOMAIN weights : p # q =>
              \/ excess[p] - excess[q] < total
              \/ excess[p] - excess[q] = total /\ p < q
=============================================================================
