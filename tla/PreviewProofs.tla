--------------------------- MODULE PreviewProofs ---------------------------
(***************************************************************************)
(* That every charge is split fairly, whatever its amount and whoever      *)
(* shares it, and that what a ready plan asks for is what the statement    *)
(* charges, for any bills and households.                                  *)
(***************************************************************************)
EXTENDS Preview, FiniteSums, SequenceTheorems, TLAPS

-----------------------------------------------------------------------------
(* Arithmetic *)

LEMMA Quotient ==
    ASSUME NEW a \in Nat, NEW t \in Nat, t > 0
    PROVE  a \div t \in Nat /\ a % t \in 0 .. t - 1 /\ a = t * (a \div t) + (a % t)
<1>1. a \div t \in Nat OBVIOUS
<1>2. a % t \in 0 .. t - 1 OBVIOUS
<1>3. a = t * (a \div t) + (a % t) OBVIOUS
<1> QED BY <1>1, <1>2, <1>3

LEMMA ScaledOrder ==
    ASSUME NEW a \in Int, NEW b \in Int, NEW t \in Nat \ {0}
    PROVE  t * a <= t * b => a <= b
OBVIOUS

-----------------------------------------------------------------------------
(* Largest-remainder allocation *)

\* Weights of a charge: positive, of finitely many participants and at least one.
AreWeights(weights) ==
    /\ DOMAIN weights # {} /\ DOMAIN weights \subseteq Nat /\ IsFiniteSet(DOMAIN weights)
    /\ weights \in [DOMAIN weights -> Weight]

LEMMA TotalIsPositive ==
    ASSUME NEW weights, AreWeights(weights)
    PROVE  TotalWeight(weights) \in Nat \ {0}
<1>1. \A p \in DOMAIN weights : weights[p] \in Nat /\ weights[p] > 0
  BY DEF AreWeights, Weight
<1>2. IsFiniteSet(DOMAIN weights) /\ DOMAIN weights # {} BY DEF AreWeights
<1>3. /\ SumFunctionOnSet(weights, DOMAIN weights) \in Nat
      /\ \A p \in DOMAIN weights : weights[p] <= SumFunctionOnSet(weights, DOMAIN weights)
  BY <1>1, <1>2, SumOfNaturals
<1> QED BY <1>1, <1>2, <1>3 DEF TotalWeight, SumFunction

\* What one participant has, before the cents that are left over are handed out.
LEMMA PartOfOne ==
    ASSUME NEW weights, AreWeights(weights), NEW cents \in Nat, NEW p \in DOMAIN weights
    PROVE  LET total == TotalWeight(weights)
               base == BaseCents(cents, weights)[p]
               rest == Remainder(cents, weights)[p]
           IN  /\ base \in Nat /\ rest \in 0 .. total - 1 /\ weights[p] \in Nat
               /\ cents * weights[p] = total * base + rest
<1>1. weights[p] \in Nat BY DEF AreWeights, Weight
<1>2. cents * weights[p] \in Nat BY <1>1
<1>3. TotalWeight(weights) \in Nat \ {0} BY TotalIsPositive
<1>4. /\ BaseCents(cents, weights)[p] = (cents * weights[p]) \div TotalWeight(weights)
      /\ Remainder(cents, weights)[p] = (cents * weights[p]) % TotalWeight(weights)
  BY DEF BaseCents, Remainder
<1> DEFINE asked == cents * weights[p]
           total == TotalWeight(weights)
<1>5. asked \in Nat /\ total \in Nat /\ total > 0 BY <1>2, <1>3
<1> HIDE DEF asked, total
<1>6. /\ asked \div total \in Nat /\ asked % total \in 0 .. total - 1
      /\ asked = total * (asked \div total) + (asked % total)
  BY <1>5, Quotient
<1> QED BY <1>1, <1>4, <1>6 DEF asked, total

\* At most one cent for each participant is left over.
LEMMA LeftOver ==
    ASSUME NEW weights, AreWeights(weights), NEW cents \in Nat
    PROVE  /\ CentsLeft(cents, weights) \in Nat
           /\ CentsLeft(cents, weights) <= Cardinality(DOMAIN weights)
           /\ SumFunction(BaseCents(cents, weights)) \in Nat
           /\ SumFunction(BaseCents(cents, weights)) + CentsLeft(cents, weights) = cents
<1> DEFINE S == DOMAIN weights
           total == TotalWeight(weights)
           base == BaseCents(cents, weights)
           rest == Remainder(cents, weights)
           left == CentsLeft(cents, weights)
           Sum(f) == SumFunctionOnSet(f, S)
           asked == [p \in S |-> cents * weights[p]]
           given == [p \in S |-> total * base[p]]
           slack == [p \in S |-> total - rest[p]]
           ones == [p \in S |-> 1]
           totals1 == [p \in S |-> total]
<1>1. total \in Nat \ {0} /\ IsFiniteSet(S) BY TotalIsPositive DEF AreWeights
<1>2. \A p \in S : /\ base[p] \in Nat /\ rest[p] \in 0 .. total - 1 /\ weights[p] \in Nat
                   /\ asked[p] = given[p] + rest[p]
  BY PartOfOne
<1>3. DOMAIN base = S /\ Sum(weights) = total /\ left = cents - Sum(base)
  BY DEF BaseCents, TotalWeight, SumFunction, CentsLeft
<1>4. \A p \in S : asked[p] = cents * weights[p] /\ given[p] = total * base[p]
                   /\ totals1[p] = total * ones[p] /\ ones[p] = 1
  BY <1>1
<1>5. \A p \in S : /\ given[p] \in Int /\ rest[p] \in Int /\ weights[p] \in Int
                   /\ base[p] \in Int /\ rest[p] \in Nat /\ ones[p] \in Int
                   /\ slack[p] \in Nat /\ slack[p] \in Int /\ totals1[p] = rest[p] + slack[p]
  BY <1>1, <1>2
<1> HIDE DEF S, total, base, rest, left, asked, given, slack, ones, totals1
<1>6. Sum(asked) = cents * total BY <1>1, <1>3, <1>4, <1>5, SumScaled
<1>7. Sum(given) = total * Sum(base) BY <1>1, <1>4, <1>5, SumScaled
<1>8. Sum(asked) = Sum(given) + Sum(rest) BY <1>1, <1>2, <1>5, SumPlus
<1>9. Sum(totals1) = total * Sum(ones) BY <1>1, <1>4, <1>5, SumScaled
<1>10. Sum(totals1) = Sum(rest) + Sum(slack) BY <1>1, <1>5, SumPlus
<1>11. Sum(ones) = Cardinality(S) BY <1>1, <1>4, SumOfOnes
<1>12. Sum(base) \in Nat /\ Sum(rest) \in Nat /\ Sum(slack) \in Nat /\ Cardinality(S) \in Nat
  BY <1>1, <1>2, <1>5, SumOfNaturals, FS_CardinalityType
<1> HIDE DEF Sum
<1>13. total * left = Sum(rest)
  <2>1. total * (cents - Sum(base)) = cents * total - total * Sum(base) BY <1>1, <1>12
  <2>2. cents * total \in Int /\ total * Sum(base) \in Int BY <1>1, <1>12
  <2> QED BY <1>3, <1>6, <1>7, <1>8, <1>12, <2>1, <2>2
<1>14. left \in Int BY <1>3, <1>12
<1>15. total * 0 <= total * left BY <1>1, <1>12, <1>13
<1>16. total * left <= total * Cardinality(S)
  BY <1>9, <1>10, <1>11, <1>12, <1>13
<1>17. 0 <= left /\ left <= Cardinality(S) BY <1>1, <1>12, <1>14, <1>15, <1>16, ScaledOrder
<1> QED BY <1>3, <1>12, <1>14, <1>17 DEF S, base, left, SumFunction, Sum

\* Who gets one of them.
LEMMA OneMoreForSome ==
    ASSUME NEW weights, AreWeights(weights), NEW cents \in Nat
    PROVE  Cardinality({p \in DOMAIN weights : GetsOneMore(p, cents, weights)})
               = CentsLeft(cents, weights)
<1> DEFINE S == DOMAIN weights
           rest == Remainder(cents, weights)
           before == [p \in S |-> {q \in S : ComesBefore(q, p, rest)}]
           left == CentsLeft(cents, weights)
<1>1. IsFiniteSet(S) /\ S \subseteq Nat BY DEF AreWeights
<1>2. \A p \in S : rest[p] \in Int BY PartOfOne, TotalIsPositive
<1>3. left \in Nat /\ left <= Cardinality(S) BY LeftOver
<1>4. before \in [S -> SUBSET S] OBVIOUS
<1>5. {p \in S : GetsOneMore(p, cents, weights)} = {p \in S : Cardinality(before[p]) < left}
  BY DEF GetsOneMore
<1> HIDE DEF rest, left, S
<1>6. \A p \in S : p \notin before[p] BY <1>1, <1>2 DEF ComesBefore
<1>7. \A p, q \in S : p \in before[q] => before[p] \subseteq before[q]
  <2>1. ASSUME NEW p \in S, NEW q \in S, NEW x \in S,
               ComesBefore(p, q, rest), ComesBefore(x, p, rest)
        PROVE  ComesBefore(x, q, rest)
    BY <1>1, <1>2, <2>1 DEF ComesBefore
  <2> QED BY <2>1
<1>8. \A p, q \in S : p # q => p \in before[q] \/ q \in before[p]
  BY <1>1, <1>2 DEF ComesBefore
<1> HIDE DEF before
<1>9. Cardinality({p \in S : Cardinality(before[p]) < left}) = left
  BY <1>1, <1>3, <1>4, <1>6, <1>7, <1>8, FirstOnes
<1> QED BY <1>5, <1>9 DEF S, left

\* Whoever gets one more comes before whoever does not.
LEMMA OneMoreInOrder ==
    ASSUME NEW weights, AreWeights(weights), NEW cents \in Nat,
           NEW p \in DOMAIN weights, NEW q \in DOMAIN weights, p # q,
           GetsOneMore(p, cents, weights), ~ GetsOneMore(q, cents, weights)
    PROVE  ComesBefore(p, q, Remainder(cents, weights))
<1> DEFINE S == DOMAIN weights
           rest == Remainder(cents, weights)
           before(x) == {y \in S : ComesBefore(y, x, rest)}
<1> SUFFICES ASSUME ~ ComesBefore(p, q, rest) PROVE FALSE OBVIOUS
<1>1. IsFiniteSet(S) /\ S \subseteq Nat BY DEF AreWeights
<1>2. \A x \in S : rest[x] \in Int BY PartOfOne, TotalIsPositive
<1>3. /\ Cardinality(before(p)) < CentsLeft(cents, weights)
      /\ ~ (Cardinality(before(q)) < CentsLeft(cents, weights))
  BY DEF GetsOneMore
<1>4. CentsLeft(cents, weights) \in Nat BY LeftOver
<1> HIDE DEF S, rest
<1>5. before(q) \in SUBSET before(p)
  BY <1>1, <1>2 DEF ComesBefore, S
<1>6. before(p) \in SUBSET S OBVIOUS
<1> HIDE DEF before
<1>7. IsFiniteSet(before(p)) BY <1>1, <1>6, FS_Subset
<1>8. /\ Cardinality(before(q)) <= Cardinality(before(p))
      /\ Cardinality(before(p)) \in Nat /\ Cardinality(before(q)) \in Nat
  BY <1>5, <1>7, FS_Subset, FS_CardinalityType
<1> QED BY <1>3, <1>4, <1>8


\* The cents of a charge, before the sign of a credit is put back.
Cents(cents, weights) ==
    [p \in DOMAIN weights |->
        BaseCents(cents, weights)[p] + IF GetsOneMore(p, cents, weights) THEN 1 ELSE 0]

LEMMA CentsAddUp ==
    ASSUME NEW weights, AreWeights(weights), NEW cents \in Nat
    PROVE  /\ SumFunctionOnSet(Cents(cents, weights), DOMAIN weights) = cents
           /\ \A p \in DOMAIN weights : Cents(cents, weights)[p] \in 0 .. cents
<1> DEFINE S == DOMAIN weights
           base == BaseCents(cents, weights)
           T == {p \in S : GetsOneMore(p, cents, weights)}
           more == [p \in S |-> IF p \in T THEN 1 ELSE 0]
           all == Cents(cents, weights)
<1>1. IsFiniteSet(S) /\ T \in SUBSET S BY DEF AreWeights
<1>2. \A p \in S : base[p] \in Nat BY PartOfOne
<1>3. \A p \in S : base[p] \in Int /\ more[p] \in Int /\ all[p] = base[p] + more[p]
  BY <1>2 DEF Cents
<1>4. \A p \in S : more[p] = IF p \in T THEN 1 ELSE 0 OBVIOUS
<1>5. \A p \in S : all[p] \in Nat BY <1>2 DEF Cents
<1>6. Cardinality(T) = CentsLeft(cents, weights) BY OneMoreForSome
<1>7. DOMAIN base = S BY DEF BaseCents
<1>8. SumFunctionOnSet(base, S) + Cardinality(T) = cents
  BY <1>6, <1>7, LeftOver DEF SumFunction
<1> HIDE DEF S, base, T, more, all
<1>9. SumFunctionOnSet(all, S) = SumFunctionOnSet(base, S) + SumFunctionOnSet(more, S)
  BY <1>1, <1>3, SumPlus
<1>10. SumFunctionOnSet(more, S) = Cardinality(T) BY <1>1, <1>4, SumOfOnes
<1>11. SumFunctionOnSet(all, S) = cents BY <1>8, <1>9, <1>10
<1>12. \A p \in S : all[p] <= SumFunctionOnSet(all, S) BY <1>1, <1>5, SumOfNaturals
<1>13. \A p \in S : all[p] \in 0 .. cents BY <1>5, <1>11, <1>12
<1> QED BY <1>11, <1>13 DEF S, all

\* No cent can be moved to bring the cents closer to the proportional ones.
LEMMA CentsAreClose ==
    ASSUME NEW weights, AreWeights(weights), NEW cents \in Nat,
           NEW p \in DOMAIN weights, NEW q \in DOMAIN weights, p # q
    PROVE  LET total == TotalWeight(weights)
               Excess(x) == Cents(cents, weights)[x] * total - cents * weights[x]
           IN  \/ Excess(p) - Excess(q) < total
               \/ Excess(p) - Excess(q) = total /\ p < q
<1> DEFINE total == TotalWeight(weights)
           Rest(x) == Remainder(cents, weights)[x]
           More(x) == IF GetsOneMore(x, cents, weights) THEN 1 ELSE 0
           Excess(x) == Cents(cents, weights)[x] * total - cents * weights[x]
<1>1. total \in Nat \ {0} BY TotalIsPositive
<1>2. ASSUME NEW x \in DOMAIN weights
      PROVE  Rest(x) \in 0 .. total - 1 /\ Excess(x) = More(x) * total - Rest(x)
  <2> DEFINE base == BaseCents(cents, weights)[x]
             asked == cents * weights[x]
  <2>1. base \in Nat /\ Rest(x) \in 0 .. total - 1 /\ asked = total * base + Rest(x)
    BY PartOfOne
  <2>2. Excess(x) = (base + More(x)) * total - asked BY DEF Cents
  <2>3. More(x) \in {0, 1} OBVIOUS
  <2> HIDE DEF base, asked, Excess, More, total, Rest
  <2>4. (base + More(x)) * total = total * base + More(x) * total
    <3>1. CASE More(x) = 0 BY <1>1, <2>1, <3>1
    <3>2. CASE More(x) = 1 BY <1>1, <2>1, <3>2
    <3> QED BY <2>3, <3>1, <3>2
  <2>5. total * base \in Nat /\ More(x) * total \in Nat BY <1>1, <2>1, <2>3
  <2> QED BY <1>1, <2>1, <2>2, <2>4, <2>5
<1>3. p \in Nat /\ q \in Nat BY DEF AreWeights
<1>4. GetsOneMore(p, cents, weights) /\ ~ GetsOneMore(q, cents, weights)
        => Rest(p) > Rest(q) \/ (Rest(p) = Rest(q) /\ p < q)
  BY OneMoreInOrder DEF ComesBefore
<1>5. /\ Rest(p) \in 0 .. total - 1 /\ Excess(p) = More(p) * total - Rest(p)
      /\ Rest(q) \in 0 .. total - 1 /\ Excess(q) = More(q) * total - Rest(q)
  BY <1>2
<1>6. (Excess(p) - Excess(q) < total) \/ (Excess(p) - Excess(q) = total /\ p < q)
  <2> HIDE DEF total, Rest, Excess
  <2>1. CASE GetsOneMore(p, cents, weights) /\ ~ GetsOneMore(q, cents, weights)
    BY <1>1, <1>3, <1>4, <1>5, <2>1
  <2>2. CASE ~ (GetsOneMore(p, cents, weights) /\ ~ GetsOneMore(q, cents, weights))
    BY <1>1, <1>3, <1>5, <2>2
  <2> QED BY <2>1, <2>2
<1> QED BY <1>6

\* allocate_largest_remainder: whatever the amount, its sign and the weights, the shares
\* add up to it, have its sign and are as proportional as cents allow, the smaller id
\* first.
THEOREM SplitIsFair ==
    ASSUME NEW amount \in Int, NEW weights, AreWeights(weights)
    PROVE  LET split == LargestRemainder(amount, weights) IN
           /\ IsFairSplit(split, amount, weights)
           /\ \A p \in DOMAIN weights :
                 IF amount < 0 THEN split[p] \in amount .. 0 ELSE split[p] \in 0 .. amount
<1> DEFINE S == DOMAIN weights
           cents == Abs(amount)
           all == Cents(cents, weights)
           sign == IF amount < 0 THEN -1 ELSE 1
           split == LargestRemainder(amount, weights)
           total == TotalWeight(weights)
           excess == [p \in S |-> (sign * split[p]) * total - cents * weights[p]]
<1>1. cents \in Nat /\ amount = sign * cents BY DEF Abs
<1>2. IsFiniteSet(S) BY DEF AreWeights
<1>3. DOMAIN split = S /\ \A p \in S : split[p] = sign * all[p]
  BY DEF LargestRemainder, Cents
<1>4. SumFunctionOnSet(all, S) = cents /\ \A p \in S : all[p] \in 0 .. cents
  BY <1>1, CentsAddUp
<1>5. sign \in {-1, 1} OBVIOUS
<1>6. SumFunction(split) = amount
  <2> HIDE DEF S, cents, all, sign, split
  <2>1. \A p \in S : all[p] \in Int /\ split[p] = sign * all[p] BY <1>1, <1>3, <1>4
  <2>2. sign \in Int BY <1>5
  <2>3. SumFunctionOnSet(split, S) = sign * SumFunctionOnSet(all, S)
    BY <1>2, <2>1, <2>2, SumScaled
  <2> QED BY <1>1, <1>3, <1>4, <2>3 DEF SumFunction
<1>7. ASSUME NEW p \in S PROVE excess[p] = all[p] * total - cents * weights[p]
  <2>1. sign * split[p] = all[p]
    <3> HIDE DEF cents, all, sign, split
    <3>1. all[p] \in Int BY <1>1, <1>4
    <3> QED BY <1>3, <1>5, <3>1
  <2> QED BY <2>1
<1>8. ASSUME NEW p \in S, NEW q \in S, p # q
      PROVE  excess[p] - excess[q] < total \/ (excess[p] - excess[q] = total /\ p < q)
  BY <1>1, <1>7, <1>8, CentsAreClose
<1>9. IsFairSplit(split, amount, weights)
  BY <1>3, <1>6, <1>8 DEF IsFairSplit
<1>10. ASSUME NEW p \in S
       PROVE  IF amount < 0 THEN split[p] \in amount .. 0 ELSE split[p] \in 0 .. amount
  <2> HIDE DEF all, split
  <2>1. all[p] \in 0 .. cents /\ split[p] = sign * all[p] BY <1>3, <1>4
  <2> QED BY <2>1 DEF Abs
<1> QED BY <1>9, <1>10


-----------------------------------------------------------------------------
(* The invariant *)

Amounts(b) == [i \in DOMAIN b.charges |-> b.charges[i].amount]

\* No charge of it is a credit.
NoCredits(b) == \A i \in DOMAIN b.charges : b.charges[i].amount >= 0

\* What the request works on, from its start to its end.
RequestInv ==
    /\ stage \in {"requested", "allocating", "allocated", "planned", "targeted",
                  "unresolved", "refused", "error"}
    /\ reviewed \in Bills /\ bill \in Bill /\ ~ ReconcileRaises(bill)
    /\ Household(household) /\ (household.local => ~ household.group)
    /\ stage = "allocating" => \A i \in DOMAIN bill.charges : HasOwner(bill.charges[i], household)
    /\ stage = "error" => ReconcileRaises(Repair(bill)) \/ ~ NoCredits(bill)

\* What has been split is split fairly, and the totals are the sum of it.
SharesInv ==
    /\ shares \in Seq(UNION {[S -> Money] : S \in SUBSET Participants})
    /\ Len(shares) <= Len(bill.charges)
    /\ stage = "requested" => shares = << >>
    /\ SplitsAreFair
    /\ DOMAIN totals \subseteq household.members
    /\ \A p \in DOMAIN totals : totals[p] \in Int
    /\ SumFunction(totals) = SumFunctionOnSet(Amounts(bill), DOMAIN shares)
    /\ NoCredits(bill) => \A p \in DOMAIN totals : totals[p] >= 0

\* What has been planned is what was allocated.
PlanInv ==
    /\ stage \in {"allocated", "planned", "targeted", "refused"} =>
          Len(shares) = Len(bill.charges) /\ Consistent
    /\ IF stage \in {"planned", "targeted", "refused"}
       THEN /\ plan.cost = ItemizedTotal(bill.charges)
            /\ plan.owed = [p \in household.members |-> Owed(p)]
            /\ plan.paid = [p \in household.members |-> Paid(p)]
            /\ plan.blocked = (GateBlocks(bill) \/ HasBlocker)
       ELSE plan = NoPlan
    /\ stage = "targeted" => ~ plan.blocked /\ Payable
    /\ stage = "refused" => ~ plan.blocked /\ ~ Payable
    /\ DOMAIN payload \subseteq household.members

PreviewInv == RequestInv /\ SharesInv /\ PlanInv


-----------------------------------------------------------------------------
(* Lemmas about the parts *)

LEMMA HouseholdType ==
    ASSUME NEW h, Household(h)
    PROVE  /\ h.members # {} /\ h.members \subseteq Participants /\ IsFiniteSet(h.members)
           /\ h.members \subseteq Nat /\ NoOne \notin h.members
           /\ h.weights \in [h.members -> Weight]
           /\ \A s \in DOMAIN h.owners : h.owners[s] \in h.members
           /\ h.payer \in h.members \cup {NoOne} /\ h.users \subseteq h.members
           /\ h.local \in BOOLEAN /\ h.group \in BOOLEAN
<1>1. IsFiniteSet(h.members) /\ h.members \subseteq Nat
  BY ParticipantsAreRanks, FS_Subset DEF Household
<1>2. \A s \in DOMAIN h.owners : h.owners[s] \in h.members
  <2>1. h.owners \in [DOMAIN h.owners -> h.members] BY DEF Household
  <2> QED BY <2>1
<1> QED BY <1>1, <1>2, NoOneIsNobody DEF Household

LEMMA NormalizedHousehold ==
    ASSUME NEW h, Household(h)
    PROVE  Household(Normalized(h)) /\ (Normalized(h).local => ~ Normalized(h).group)
<1> DEFINE n == Normalized(h)
<1>1. /\ n.members = h.members /\ n.weights = h.weights /\ n.owners = h.owners
      /\ n.users = h.users /\ n.local = h.local
      /\ n.payer = (IF h.local THEN NoOne ELSE h.payer) /\ n.group = (h.group /\ ~ h.local)
  BY DEF Normalized
<1> HIDE DEF n
<1>2. n.local => ~ n.group BY <1>1
<1>3. n.group \in BOOLEAN BY <1>1 DEF Household
<1>4. Household(n) BY <1>1, <1>3 DEF Household
<1> QED BY <1>2, <1>4 DEF n

\* Whoever owes a charge is a member, and somebody does.
LEMMA WeightsAreWeights ==
    ASSUME NEW h, Household(h), NEW charge \in Charge, HasOwner(charge, h)
    PROVE  /\ AreWeights(Weights(charge, h))
           /\ DOMAIN Weights(charge, h) \subseteq h.members
<1>1. /\ h.members # {} /\ h.members \subseteq Nat /\ IsFiniteSet(h.members)
      /\ h.weights \in [h.members -> Weight]
      /\ \A s \in DOMAIN h.owners : h.owners[s] \in h.members
  BY HouseholdType
<1>2. CASE charge.scope = "line"
  <2> DEFINE owner == h.owners[charge.service]
             weights == [p \in {owner} |-> 1]
  <2>1. owner \in h.members BY <1>1, <1>2 DEF HasOwner
  <2>2. IsFiniteSet({owner}) BY FS_Singleton
  <2>3. DOMAIN weights = {owner} /\ weights \in [{owner} -> Weight] BY DEF Weight
  <2>4. Weights(charge, h) = weights BY <1>2 DEF Weights
  <2> QED BY <1>1, <2>1, <2>2, <2>3, <2>4 DEF AreWeights
<1>3. CASE charge.scope # "line"
  <2>1. Weights(charge, h) = h.weights BY <1>3 DEF Weights
  <2> QED BY <1>1, <2>1 DEF AreWeights
<1> QED BY <1>2, <1>3

\* The running totals grow by the shares.
LEMMA AddedShares ==
    ASSUME NEW t, NEW s, IsFiniteSet(DOMAIN t), IsFiniteSet(DOMAIN s),
           \A p \in DOMAIN t : t[p] \in Int, \A p \in DOMAIN s : s[p] \in Int
    PROVE  SumFunction(AddShares(t, s)) = SumFunction(t) + SumFunction(s)
<1> DEFINE D == DOMAIN t \cup DOMAIN s
           f == [p \in D |-> IF p \in DOMAIN t THEN t[p] ELSE 0]
           g == [p \in D |-> IF p \in DOMAIN s THEN s[p] ELSE 0]
           h == AddShares(t, s)
           T == DOMAIN t
           S == DOMAIN s
<1>1. IsFiniteSet(D) BY FS_Union
<1>2. DOMAIN h = D BY DEF AddShares
<1>3. \A p \in D : f[p] \in Int /\ g[p] \in Int /\ h[p] = f[p] + g[p] BY DEF AddShares
<1>4. /\ T \in SUBSET D /\ S \in SUBSET D
      /\ \A p \in T : f[p] \in Int /\ t[p] \in Int /\ f[p] = t[p]
      /\ \A p \in D \ T : f[p] = 0
      /\ \A p \in S : g[p] \in Int /\ s[p] \in Int /\ g[p] = s[p]
      /\ \A p \in D \ S : g[p] = 0
  OBVIOUS
<1>5. IsFiniteSet(T) /\ IsFiniteSet(S) OBVIOUS
<1>6. /\ SumFunction(h) = SumFunctionOnSet(h, D)
      /\ SumFunction(t) = SumFunctionOnSet(t, T) /\ SumFunction(s) = SumFunctionOnSet(s, S)
  BY <1>2 DEF SumFunction
<1> HIDE DEF D, f, g, h, T, S
<1>7. SumFunctionOnSet(h, D) = SumFunctionOnSet(f, D) + SumFunctionOnSet(g, D)
  BY <1>1, <1>3, SumPlus
<1>8. SumFunctionOnSet(f, D) = SumFunctionOnSet(f, T) BY <1>1, <1>4, SumOfMore
<1>9. SumFunctionOnSet(f, T) = SumFunctionOnSet(t, T) BY <1>4, <1>5, SumSame
<1>10. SumFunctionOnSet(g, D) = SumFunctionOnSet(g, S) BY <1>1, <1>4, SumOfMore
<1>11. SumFunctionOnSet(g, S) = SumFunctionOnSet(s, S) BY <1>4, <1>5, SumSame
<1> QED BY <1>6, <1>7, <1>8, <1>9, <1>10, <1>11 DEF h

LEMMA SumOfOne ==
    ASSUME NEW f, NEW x, f[x] \in Int
    PROVE  SumFunctionOnSet(f, {x}) = f[x]
<1>1. IsFiniteSet({x}) BY FS_Singleton
<1>2. \A y \in {x} : f[y] \in Int OBVIOUS
<1>3. {} \in SUBSET {x} /\ x \in {x} \ {} /\ {} \cup {x} = {x} OBVIOUS
<1>4. SumFunctionOnSet(f, {} \cup {x}) = f[x] + SumFunctionOnSet(f, {})
  BY <1>1, <1>2, <1>3, SumInsert
<1> QED BY <1>3, <1>4, EmptySum


LEMMA BillType ==
    ASSUME NEW b \in Bill
    PROVE  /\ b.charges \in Seq(Charge) /\ Len(b.charges) \in Nat
           /\ DOMAIN b.charges = 1 .. Len(b.charges) /\ IsFiniteSet(DOMAIN b.charges)
           /\ \A i \in DOMAIN b.charges :
                 /\ b.charges[i] \in Charge
                 /\ Amounts(b)[i] = b.charges[i].amount
                 /\ b.charges[i].amount \in Money /\ b.charges[i].amount \in Int
           /\ ItemizedTotal(b.charges) = SumFunctionOnSet(Amounts(b), DOMAIN b.charges)
<1>1. b.charges \in Seq(Charge) BY DEF Bill
<1>2. /\ Len(b.charges) \in Nat /\ DOMAIN b.charges = 1 .. Len(b.charges)
      /\ \A i \in DOMAIN b.charges : b.charges[i] \in Charge
  BY <1>1
<1>3. IsFiniteSet(DOMAIN b.charges) BY <1>2, FS_Interval
<1>4. \A c \in Charge : c.amount \in Money BY DEF Charge
<1>5. Money \subseteq Int BY DEF Money
<1>6. \A i \in DOMAIN b.charges : Amounts(b)[i] = b.charges[i].amount BY DEF Amounts
<1>7. ItemizedTotal(b.charges) = SumFunctionOnSet(Amounts(b), DOMAIN b.charges)
  BY DEF ItemizedTotal, Amounts, SumFunction
<1> QED BY <1>1, <1>2, <1>3, <1>4, <1>5, <1>6, <1>7

LEMMA RepairedBill ==
    ASSUME NEW b \in Bill
    PROVE  Repair(b) \in Bill /\ Repair(b).charges = b.charges
<1>1. 0 \in Money BY LimitIsPositive DEF Money
<1> QED BY <1>1 DEF Repair, Bill

LEMMA InitPreview == Init => PreviewInv
<1> SUFFICES ASSUME Init PROVE PreviewInv OBVIOUS
<1>1. bill \in Bill /\ reviewed \in Bills /\ ~ ReconcileRaises(bill)
  BY BillsAreBills DEF Init
<1>2. Household(household) /\ (household.local => ~ household.group)
  BY HouseholdsAreHouseholds, NormalizedHousehold DEF Init
<1>3. /\ stage = "requested" /\ shares = << >> /\ totals = << >> /\ plan = NoPlan
      /\ payload = << >> /\ DOMAIN shares = {} /\ DOMAIN totals = {} /\ Len(shares) = 0
      /\ DOMAIN payload = {}
  BY DEF Init
<1>4. SumFunction(totals) = SumFunctionOnSet(Amounts(bill), DOMAIN shares)
  BY <1>3, EmptySum DEF SumFunction
<1>5. SharesInv BY <1>1, <1>3, <1>4, BillType DEF SharesInv, SplitsAreFair
<1> QED BY <1>1, <1>2, <1>3, <1>5 DEF PreviewInv, RequestInv, PlanInv

-----------------------------------------------------------------------------
(* The steps *)

LEMMA EvaluateKeeps == ASSUME PreviewInv, Evaluate PROVE PreviewInv'
<1>1. /\ stage = "requested" /\ stage' \in {"error", "allocating", "unresolved"}
      /\ reviewed' = reviewed /\ household' = household /\ shares' = shares
      /\ totals' = totals /\ plan' = plan /\ payload' = payload
  BY DEF Evaluate
<1>2. RequestInv /\ SharesInv /\ PlanInv /\ bill \in Bill /\ ~ ReconcileRaises(bill)
  BY DEF PreviewInv, RequestInv
<1>3. bill' \in {bill, Repair(bill)} /\ bill' \in Bill /\ bill'.charges = bill.charges
  BY <1>2, RepairedBill DEF Evaluate
<1>4. ~ ReconcileRaises(bill') BY <1>2 DEF Evaluate
<1>5. /\ stage' = "error" => ReconcileRaises(Repair(bill'))
      /\ stage' = "allocating" =>
            \A i \in DOMAIN bill.charges : HasOwner(bill.charges[i], household)
  BY DEF Evaluate
<1>6. RequestInv' BY <1>1, <1>2, <1>3, <1>4, <1>5 DEF RequestInv
<1>7. shares = << >> /\ DOMAIN shares = {} BY <1>1, <1>2 DEF SharesInv
<1>8. NoCredits(bill)' <=> NoCredits(bill) BY <1>3 DEF NoCredits
<1>9. SumFunction(totals)' = SumFunctionOnSet(Amounts(bill), DOMAIN shares)'
  <2>1. SumFunction(totals) = 0 BY <1>2, <1>7, EmptySum DEF SharesInv
  <2> QED BY <1>1, <1>7, <2>1, EmptySum
<1>10. SharesInv' BY <1>1, <1>2, <1>3, <1>7, <1>8, <1>9 DEF SharesInv, SplitsAreFair
<1>11. PlanInv' BY <1>1, <1>2 DEF PlanInv
<1> QED BY <1>6, <1>10, <1>11 DEF PreviewInv

\* The charge that is next, how it is split, and that it cannot fail.
LEMMA NextSplit ==
    ASSUME PreviewInv, stage = "allocating", Len(shares) < Len(bill.charges)
    PROVE  LET n == Len(shares) + 1
               charge == bill.charges[n]
               weights == Weights(charge, household)
               split == LargestRemainder(charge.amount, weights)
           IN  /\ n \in DOMAIN bill.charges /\ charge.amount \in Int
               /\ IsFairSplit(split, charge.amount, weights)
               /\ SumFunction(split) = charge.amount
               /\ DOMAIN split \subseteq household.members /\ IsFiniteSet(DOMAIN split)
               /\ split \in [DOMAIN split -> Money]
               /\ \A p \in DOMAIN split :
                     split[p] \in Int /\ (charge.amount >= 0 => split[p] >= 0)
<1> DEFINE n == Len(shares) + 1
           charge == bill.charges[n]
           weights == Weights(charge, household)
           split == LargestRemainder(charge.amount, weights)
<1>1. /\ RequestInv /\ SharesInv /\ bill \in Bill /\ Household(household)
  BY DEF PreviewInv, RequestInv
<1>2. Len(shares) \in Nat /\ Len(bill.charges) \in Nat BY <1>1, BillType DEF SharesInv
<1>3. n \in DOMAIN bill.charges BY <1>1, <1>2, BillType
<1>4. charge \in Charge /\ charge.amount \in Money /\ charge.amount \in Int
  BY <1>1, <1>3, BillType
<1>5. HasOwner(charge, household) BY <1>1, <1>3 DEF RequestInv
<1>6. AreWeights(weights) /\ DOMAIN weights \subseteq household.members
  BY <1>1, <1>4, <1>5, WeightsAreWeights
<1>7. DOMAIN split = DOMAIN weights BY DEF LargestRemainder
<1>8. IsFiniteSet(DOMAIN weights) BY <1>6 DEF AreWeights
<1>9. split = [p \in DOMAIN split |-> split[p]] BY <1>7 DEF LargestRemainder
<1> HIDE DEF n, charge, weights, split
<1>10. /\ IsFairSplit(split, charge.amount, weights)
       /\ \A p \in DOMAIN weights :
             IF charge.amount < 0 THEN split[p] \in charge.amount .. 0
                                  ELSE split[p] \in 0 .. charge.amount
  BY <1>4, <1>6, SplitIsFair DEF split
<1>11. SumFunction(split) = charge.amount BY <1>10 DEF IsFairSplit
<1>12. \A p \in DOMAIN split :
          /\ split[p] \in Money /\ split[p] \in Int
          /\ charge.amount >= 0 => split[p] >= 0
  BY <1>4, <1>7, <1>10, LimitIsPositive DEF Money
<1>13. split \in [DOMAIN split -> Money] BY <1>9, <1>12
<1> QED BY <1>3, <1>4, <1>6, <1>7, <1>8, <1>10, <1>11, <1>12, <1>13
        DEF n, charge, weights, split

LEMMA AllocateChargeKeeps == ASSUME PreviewInv, AllocateCharge PROVE PreviewInv'
<1> DEFINE n == Len(shares) + 1
           charge == bill.charges[n]
           weights == Weights(charge, household)
           split == LargestRemainder(charge.amount, weights)
           Splits == UNION {[S -> Money] : S \in SUBSET Participants}
<1>1. /\ stage = "allocating" /\ Len(shares) < Len(bill.charges)
      /\ reviewed' = reviewed /\ bill' = bill /\ household' = household
      /\ plan' = plan /\ payload' = payload
  BY DEF AllocateCharge
<1>2. RequestInv /\ SharesInv /\ PlanInv /\ bill \in Bill /\ Household(household)
  BY DEF PreviewInv, RequestInv
<1>3. /\ n \in DOMAIN bill.charges /\ charge.amount \in Int
      /\ IsFairSplit(split, charge.amount, weights)
      /\ SumFunction(split) = charge.amount
      /\ DOMAIN split \subseteq household.members /\ IsFiniteSet(DOMAIN split)
      /\ split \in [DOMAIN split -> Money]
      /\ \A p \in DOMAIN split : split[p] \in Int /\ (charge.amount >= 0 => split[p] >= 0)
  BY <1>1, NextSplit
<1>4. shares' = Append(shares, split) /\ totals' = AddShares(totals, split) /\ stage' = stage
  BY <1>3 DEF AllocateCharge
<1>5. /\ household.members \subseteq Participants /\ IsFiniteSet(household.members)
  BY <1>2, HouseholdType
<1>6. shares \in Seq(Splits) /\ Len(shares) \in Nat /\ DOMAIN shares = 1 .. Len(shares)
  BY <1>2 DEF SharesInv
<1>7. split \in Splits BY <1>3, <1>5
<1>8. n = Len(shares) + 1 /\ charge = bill.charges[n] /\ weights = Weights(charge, household)
  OBVIOUS
<1> HIDE DEF n, charge, weights, split, Splits
<1>9. /\ shares' \in Seq(Splits) /\ Len(shares') = n /\ DOMAIN shares' = 1 .. n
      /\ \A i \in 1 .. Len(shares) : shares'[i] = shares[i]
      /\ shares'[n] = split
  <2>1. /\ shares' \in Seq(Splits) /\ Len(shares') = n
        /\ \A i \in 1 .. Len(shares) : shares'[i] = shares[i]
        /\ shares'[n] = split
    BY <1>4, <1>6, <1>7, <1>8, AppendProperties
  <2> QED BY <2>1
<1>10. DOMAIN shares' = DOMAIN shares \cup {n} /\ n \notin DOMAIN shares /\ n \in Nat
  BY <1>6, <1>8, <1>9
<1>11. SplitsAreFair'
  <2> SUFFICES ASSUME NEW i \in DOMAIN shares'
               PROVE  IsFairSplit(shares'[i], bill.charges[i].amount,
                                  Weights(bill.charges[i], household))
    BY <1>1 DEF SplitsAreFair
  <2>1. CASE i = n BY <1>3, <1>8, <1>9, <2>1
  <2>2. CASE i # n
    <3>1. i \in DOMAIN shares /\ shares'[i] = shares[i] BY <1>6, <1>9, <1>10, <2>2
    <3> QED BY <1>2, <3>1 DEF SharesInv, SplitsAreFair
  <2> QED BY <2>1, <2>2
<1>12. /\ DOMAIN totals \subseteq household.members /\ IsFiniteSet(DOMAIN totals)
       /\ \A p \in DOMAIN totals : totals[p] \in Int
       /\ SumFunction(totals) = SumFunctionOnSet(Amounts(bill), DOMAIN shares)
       /\ NoCredits(bill) => \A p \in DOMAIN totals : totals[p] >= 0
  BY <1>2, <1>5, FS_Subset DEF SharesInv
<1>13. /\ DOMAIN totals' = DOMAIN totals \cup DOMAIN split
       /\ \A p \in DOMAIN totals' :
             totals'[p] = (IF p \in DOMAIN totals THEN totals[p] ELSE 0)
                            + (IF p \in DOMAIN split THEN split[p] ELSE 0)
  BY <1>4 DEF AddShares
<1>14. SumFunction(totals)' = SumFunctionOnSet(Amounts(bill), DOMAIN shares)'
  <2> DEFINE A == Amounts(bill)
             D == DOMAIN bill.charges
             T == DOMAIN shares
  <2>1. SumFunction(totals') = SumFunction(totals) + SumFunction(split)
    BY <1>3, <1>4, <1>12, AddedShares
  <2>2. IsFiniteSet(D) /\ (\A i \in D : A[i] \in Int) /\ D = 1 .. Len(bill.charges)
        /\ A[n] = charge.amount /\ Len(bill.charges) \in Nat
    BY <1>2, <1>3, <1>8, BillType
  <2>3. T \in SUBSET D /\ n \in D \ T BY <1>1, <1>3, <1>6, <1>10, <2>2
  <2> HIDE DEF A, D, T
  <2>4. /\ SumFunctionOnSet(A, T) \in Int
        /\ SumFunctionOnSet(A, T \cup {n}) = A[n] + SumFunctionOnSet(A, T)
    BY <2>2, <2>3, SumInsert
  <2>5. SumFunction(totals') = SumFunctionOnSet(A, T \cup {n})
    BY <1>3, <1>12, <2>1, <2>2, <2>4 DEF A, T
  <2> QED BY <1>1, <1>10, <2>5 DEF A, T, Amounts
<1>15. /\ DOMAIN totals' \subseteq household.members
       /\ \A p \in DOMAIN totals' : totals'[p] \in Int
  BY <1>3, <1>12, <1>13
<1>16. NoCredits(bill) => \A p \in DOMAIN totals' : totals'[p] >= 0
  <2>1. NoCredits(bill) => charge.amount >= 0 BY <1>3, <1>8 DEF NoCredits
  <2> QED BY <1>3, <1>12, <1>13, <2>1
<1>17. Len(shares') <= Len(bill.charges)
  BY <1>1, <1>2, <1>6, <1>8, <1>9, BillType
<1>18. RequestInv' BY <1>1, <1>2, <1>4 DEF RequestInv, NoCredits
<1>19. SharesInv'
  BY <1>1, <1>4, <1>9, <1>11, <1>14, <1>15, <1>16, <1>17 DEF SharesInv, Splits, NoCredits
<1>20. PlanInv' BY <1>1, <1>2, <1>4 DEF PlanInv
<1> QED BY <1>18, <1>19, <1>20 DEF PreviewInv

\* When every charge is split the totals are those of the bill.  Without a credit no
\* total is out of range, since their sum is not.
LEMMA AllocatedBill ==
    ASSUME PreviewInv, Len(shares) = Len(bill.charges)
    PROVE  /\ SumFunction(totals) = ItemizedTotal(bill.charges)
           /\ ItemizedTotal(bill.charges) \in Money
           /\ NoCredits(bill) => Consistent
<1>1. RequestInv /\ SharesInv /\ bill \in Bill /\ Household(household) /\ ~ ReconcileRaises(bill)
  BY DEF PreviewInv, RequestInv
<1>2. DOMAIN shares = 1 .. Len(shares) BY <1>1 DEF SharesInv
<1>3. DOMAIN shares = DOMAIN bill.charges BY <1>1, <1>2, BillType
<1>4. SumFunction(totals) = ItemizedTotal(bill.charges) BY <1>1, <1>3, BillType DEF SharesInv
<1>5. ItemizedTotal(bill.charges) \in Money BY <1>1 DEF ReconcileRaises
<1>6. ASSUME NoCredits(bill), NEW p \in DOMAIN totals PROVE totals[p] \in Money
  <2>1. IsFiniteSet(DOMAIN totals) BY <1>1, HouseholdType, FS_Subset DEF SharesInv
  <2>2. \A q \in DOMAIN totals : totals[q] \in Nat BY <1>1, <1>6 DEF SharesInv
  <2>3. totals[p] <= SumFunctionOnSet(totals, DOMAIN totals) BY <2>1, <2>2, SumOfNaturals
  <2>4. SumFunctionOnSet(totals, DOMAIN totals) \in Money BY <1>4, <1>5 DEF SumFunction
  <2>5. totals[p] \in Nat BY <2>2
  <2> QED BY <2>3, <2>4, <2>5, LimitIsPositive DEF Money
<1> QED BY <1>4, <1>5, <1>6 DEF Consistent

LEMMA CompleteAllocationKeeps == ASSUME PreviewInv, CompleteAllocation PROVE PreviewInv'
<1>1. /\ stage = "allocating" /\ Len(shares) = Len(bill.charges)
      /\ stage' = (IF Consistent THEN "allocated" ELSE "error")
      /\ reviewed' = reviewed /\ bill' = bill /\ household' = household
      /\ shares' = shares /\ totals' = totals /\ plan' = plan /\ payload' = payload
  BY DEF CompleteAllocation
<1>2. RequestInv /\ SharesInv /\ PlanInv BY DEF PreviewInv
<1>3. NoCredits(bill) => Consistent BY <1>1, AllocatedBill
<1>4. RequestInv' BY <1>1, <1>2, <1>3 DEF RequestInv, NoCredits
<1>5. SharesInv' BY <1>1, <1>2 DEF SharesInv, SplitsAreFair, NoCredits, Amounts
<1>6. stage' = "allocated" => Consistent BY <1>1
<1>7. Consistent' <=> Consistent BY <1>1 DEF Consistent
<1>8. PlanInv' BY <1>1, <1>2, <1>6, <1>7 DEF PlanInv
<1> QED BY <1>4, <1>5, <1>8 DEF PreviewInv

LEMMA BuildPreviewKeeps == ASSUME PreviewInv, BuildPreview PROVE PreviewInv'
<1>1. /\ stage = "allocated" /\ stage' = "planned"
      /\ reviewed' = reviewed /\ bill' = bill /\ household' = household
      /\ shares' = shares /\ totals' = totals /\ payload' = payload
      /\ plan' = [cost |-> ItemizedTotal(bill.charges),
                  owed |-> [p \in household.members |-> Owed(p)],
                  paid |-> [p \in household.members |-> Paid(p)],
                  blocked |-> GateBlocks(bill) \/ HasBlocker]
  BY DEF BuildPreview
<1>2. RequestInv /\ SharesInv /\ PlanInv BY DEF PreviewInv
<1>3. RequestInv' BY <1>1, <1>2 DEF RequestInv, NoCredits
<1>4. SharesInv' BY <1>1, <1>2 DEF SharesInv, SplitsAreFair, NoCredits, Amounts
<1>5. Len(shares) = Len(bill.charges) /\ Consistent BY <1>1, <1>2 DEF PlanInv
<1>6. Consistent' <=> Consistent BY <1>1 DEF Consistent
<1>7. /\ [p \in household.members |-> Owed(p)]' = [p \in household.members |-> Owed(p)]
      /\ [p \in household.members |-> Paid(p)]' = [p \in household.members |-> Paid(p)]
      /\ HasBlocker' = HasBlocker
  BY <1>1 DEF Owed, Paid, HasBlocker, DestinationBlocks
<1>8. PlanInv' BY <1>1, <1>2, <1>5, <1>6, <1>7 DEF PlanInv
<1> QED BY <1>3, <1>4, <1>8 DEF PreviewInv

LEMMA BuildCreatePayloadKeeps == ASSUME PreviewInv, BuildCreatePayload PROVE PreviewInv'
<1>1. /\ stage = "planned" /\ ~ plan.blocked
      /\ reviewed' = reviewed /\ bill' = bill /\ household' = household
      /\ shares' = shares /\ totals' = totals /\ plan' = plan
      /\ \/ Payable /\ stage' = "targeted" /\ DOMAIN payload' = Included
         \/ ~ Payable /\ stage' = "refused" /\ payload' = payload
  BY DEF BuildCreatePayload
<1>2. RequestInv /\ SharesInv /\ PlanInv BY DEF PreviewInv
<1>3. RequestInv' BY <1>1, <1>2 DEF RequestInv, NoCredits
<1>4. SharesInv' BY <1>1, <1>2 DEF SharesInv, SplitsAreFair, NoCredits, Amounts
<1>5. (Consistent' <=> Consistent) /\ Included' = Included /\ (Payable' <=> Payable)
  BY <1>1 DEF Consistent, Payable, Included
<1>6. /\ [p \in household.members |-> Owed(p)]' = [p \in household.members |-> Owed(p)]
      /\ [p \in household.members |-> Paid(p)]' = [p \in household.members |-> Paid(p)]
      /\ HasBlocker' = HasBlocker
  BY <1>1 DEF Owed, Paid, HasBlocker, DestinationBlocks
<1>7. Included \subseteq household.members BY DEF Included
<1>8. PlanInv' BY <1>1, <1>2, <1>5, <1>6, <1>7 DEF PlanInv
<1> QED BY <1>3, <1>4, <1>8 DEF PreviewInv

\* The invariant of the request: what was split is fair, the totals are the sum of it,
\* and the plan is made of the totals.
THEOREM PreviewInvariant == Spec => []PreviewInv
<1>1. ASSUME PreviewInv, [Next]_vars PROVE PreviewInv'
  <2>1. CASE Evaluate BY <1>1, <2>1, EvaluateKeeps
  <2>2. CASE AllocateCharge BY <1>1, <2>2, AllocateChargeKeeps
  <2>3. CASE CompleteAllocation BY <1>1, <2>3, CompleteAllocationKeeps
  <2>4. CASE BuildPreview BY <1>1, <2>4, BuildPreviewKeeps
  <2>5. CASE BuildCreatePayload BY <1>1, <2>5, BuildCreatePayloadKeeps
  <2>6. CASE UNCHANGED vars
    BY <1>1, <2>6 DEF vars, PreviewInv, RequestInv, SharesInv, PlanInv, SplitsAreFair,
       NoCredits, Amounts, Consistent, Owed, Paid, HasBlocker, DestinationBlocks,
       Payable, Included
  <2> QED BY <1>1, <2>1, <2>2, <2>3, <2>4, <2>5, <2>6 DEF Next
<1> QED BY <1>1, InitPreview, PTL DEF Spec

-----------------------------------------------------------------------------
(* What the invariant says of the properties *)

\* The plan of a request, as sums.
LEMMA PlanSums ==
    ASSUME PreviewInv, stage \in {"planned", "targeted", "refused"}
    PROVE  /\ DOMAIN plan.owed = household.members /\ DOMAIN plan.paid = household.members
           /\ plan.cost = ItemizedTotal(bill.charges) /\ plan.cost \in Money
           /\ \A p \in household.members :
                 /\ plan.owed[p] = Owed(p) /\ plan.owed[p] \in Money
                 /\ plan.paid[p] = Paid(p) /\ plan.paid[p] \in Money
           /\ SumFunctionOnSet(plan.owed, household.members) = plan.cost
<1>1. /\ RequestInv /\ SharesInv /\ Household(household)
      /\ Consistent
      /\ plan.cost = ItemizedTotal(bill.charges)
      /\ plan.owed = [p \in household.members |-> Owed(p)]
      /\ plan.paid = [p \in household.members |-> Paid(p)]
  BY DEF PreviewInv, RequestInv, PlanInv
<1>2. plan.cost \in Money BY <1>1 DEF Consistent
<1>3. 0 \in Money /\ Money \subseteq Int BY LimitIsPositive DEF Money
<1>4. /\ DOMAIN plan.owed = household.members /\ DOMAIN plan.paid = household.members
      /\ \A p \in household.members : plan.owed[p] = Owed(p) /\ plan.paid[p] = Paid(p)
  BY <1>1
<1>5. \A p \in household.members : Owed(p) \in Money /\ Paid(p) \in Money
  BY <1>1, <1>2, <1>3 DEF Consistent, Owed, Paid
<1>6. SumFunctionOnSet(plan.owed, household.members) = plan.cost
  <2> DEFINE f == plan.owed
             M == household.members
             T == DOMAIN totals
  <2>1. IsFiniteSet(M) /\ T \in SUBSET M /\ IsFiniteSet(T)
    BY <1>1, HouseholdType, FS_Subset DEF SharesInv
  <2>2. \A p \in T : f[p] \in Int /\ totals[p] \in Int /\ f[p] = totals[p]
    BY <1>3, <1>4, <1>5, <2>1 DEF Owed
  <2>3. \A p \in M \ T : f[p] = 0 BY <1>4 DEF Owed
  <2>4. SumFunctionOnSet(totals, T) = plan.cost BY <1>1 DEF Consistent, SumFunction
  <2> HIDE DEF f, M, T
  <2>5. SumFunctionOnSet(f, M) = SumFunctionOnSet(f, T) BY <2>1, <2>2, <2>3, SumOfMore
  <2>6. SumFunctionOnSet(f, T) = SumFunctionOnSet(totals, T) BY <2>1, <2>2, SumSame
  <2> QED BY <2>4, <2>5, <2>6 DEF f, M
<1> QED BY <1>1, <1>2, <1>4, <1>5, <1>6

LEMMA TypeFromInv == PreviewInv => TypeOK
<1> SUFFICES ASSUME PreviewInv PROVE TypeOK OBVIOUS
<1>1. RequestInv /\ SharesInv /\ PlanInv BY DEF PreviewInv
<1>2. ASSUME plan # NoPlan
      PROVE  /\ plan.cost \in Money /\ plan.blocked \in BOOLEAN
             /\ plan.owed \in [household.members -> Money]
             /\ plan.paid \in [household.members -> Money]
  <2>1. stage \in {"planned", "targeted", "refused"} BY <1>1, <1>2 DEF PlanInv
  <2>2. /\ plan.owed = [p \in household.members |-> plan.owed[p]]
        /\ plan.paid = [p \in household.members |-> plan.paid[p]]
    BY <1>1, <2>1, PlanSums DEF PlanInv
  <2>3. \A p \in household.members : plan.owed[p] \in Money /\ plan.paid[p] \in Money
    BY <2>1, PlanSums
  <2>4. plan.blocked \in BOOLEAN BY <1>1, <2>1 DEF PlanInv
  <2> QED BY <2>1, <2>2, <2>3, <2>4, PlanSums
<1> QED BY <1>1, <1>2 DEF TypeOK, RequestInv, SharesInv, PlanInv

\* The type invariant.
THEOREM PreviewTypeCorrect == Spec => []TypeOK
BY PreviewInvariant, TypeFromInv, PTL

\* Every charge of every request is split to the cent and as proportionally as cents
\* allow.
THEOREM ChargesAreSplitFairly == Spec => []SplitsAreFair
<1>1. PreviewInv => SplitsAreFair BY DEF PreviewInv, SharesInv
<1> QED BY <1>1, PreviewInvariant, PTL

\* The plan that can be confirmed divides the current charges of a statement that
\* reconciles, all of them and nothing else, and nobody owes less than nothing.
THEOREM ReadyPlansMatch == Spec => []ReadyPlanMatchesStatement
<1>1. ASSUME PreviewInv, stage \in {"planned", "targeted", "refused"}, ~ plan.blocked
      PROVE  /\ plan.cost = bill.current /\ SumFunction(plan.owed) = bill.current
             /\ \A p \in household.members : plan.owed[p] >= 0
             /\ AmountDue(bill) = bill.due
  <2>1. ~ GateBlocks(bill) /\ ~ HasBlocker BY <1>1 DEF PreviewInv, PlanInv
  <2>2. /\ plan.cost = ItemizedTotal(bill.charges) /\ SumFunction(plan.owed) = plan.cost
        /\ \A p \in household.members : plan.owed[p] = Owed(p) /\ plan.owed[p] \in Int
    BY <1>1, PlanSums DEF SumFunction, Money
  <2>3. ItemizedTotal(bill.charges) = bill.current /\ AmountDue(bill) = bill.due
    BY <2>1 DEF GateBlocks, LineItemsPass, BalancePasses
  <2>4. ASSUME NEW p \in household.members PROVE plan.owed[p] >= 0
    <3>1. ~ (Owed(p) < 0) BY <2>1 DEF HasBlocker
    <3> QED BY <2>2, <3>1
  <2> QED BY <2>2, <2>3, <2>4
<1>2. PreviewInv => ReadyPlanMatchesStatement BY <1>1 DEF ReadyPlanMatchesStatement
<1> QED BY <1>2, PreviewInvariant, PTL

\* A ready plan for Splitwise passes every test of build_create_payload.
LEMMA ReadyPlanIsPayable ==
    ASSUME PreviewInv, stage \in {"planned", "targeted", "refused"}, ~ plan.blocked,
           ~ household.local
    PROVE  Payable
<1> DEFINE M == household.members
           payer == household.payer
           cost == plan.cost
<1>1. ~ HasBlocker BY DEF PreviewInv, PlanInv
<1>2. /\ payer # NoOne /\ household.group
      /\ \A p \in M \ household.users : Owed(p) = 0 /\ Paid(p) = 0
  BY <1>1 DEF HasBlocker, DestinationBlocks
<1>3. Household(household) BY DEF PreviewInv, RequestInv
<1>4. IsFiniteSet(M) /\ payer \in M BY <1>2, <1>3, HouseholdType
<1>5. /\ cost = ItemizedTotal(bill.charges) /\ cost \in Int
      /\ \A p \in M : /\ plan.owed[p] = Owed(p) /\ plan.owed[p] \in Int
                      /\ plan.paid[p] = Paid(p) /\ plan.paid[p] \in Int
      /\ SumFunctionOnSet(plan.owed, M) = cost
  BY PlanSums DEF Money
<1>6. Included \subseteq household.users BY <1>2, <1>5 DEF Included
<1>7. /\ Included \in SUBSET M
      /\ \A p \in M \ Included : plan.owed[p] = 0 /\ plan.paid[p] = 0
  BY DEF Included
<1>8. SumFunctionOnSet(plan.paid, M) = cost
  <2> DEFINE f == plan.paid
  <2>1. f[payer] = cost /\ \A p \in M \ {payer} : f[p] = 0 BY <1>4, <1>5 DEF Paid
  <2>2. {payer} \in SUBSET M BY <1>4
  <2> HIDE DEF f, M, payer, cost
  <2>3. \A p \in {payer} : f[p] \in Int BY <1>5, <2>1
  <2>4. SumFunctionOnSet(f, M) = SumFunctionOnSet(f, {payer})
    BY <1>4, <2>1, <2>2, <2>3, SumOfMore
  <2>5. SumFunctionOnSet(f, {payer}) = f[payer] BY <2>3, SumOfOne
  <2> QED BY <2>1, <2>4, <2>5 DEF f
<1> HIDE DEF M, cost, payer
<1>9. /\ \A p \in Included : plan.owed[p] \in Int
      /\ \A p \in Included : plan.paid[p] \in Int
      /\ \A p \in M \ Included : plan.owed[p] = 0
      /\ \A p \in M \ Included : plan.paid[p] = 0
  BY <1>5, <1>7
<1>10. SumFunctionOnSet(plan.owed, M) = SumFunctionOnSet(plan.owed, Included)
  BY <1>4, <1>7, <1>9, SumOfMore
<1>11. SumFunctionOnSet(plan.paid, M) = SumFunctionOnSet(plan.paid, Included)
  BY <1>4, <1>7, <1>9, SumOfMore
<1> QED BY <1>2, <1>5, <1>6, <1>8, <1>10, <1>11 DEF Payable, cost

\* The blockers of a preview foresee every refusal of build_create_payload.
THEOREM BlockersForeseeRefusals == Spec => []ReadyPlansArePayable
<1>1. ASSUME PreviewInv, stage = "targeted" PROVE ~ household.local
  BY <1>1 DEF PreviewInv, RequestInv, PlanInv, Payable
<1>2. ASSUME PreviewInv, stage = "refused" PROVE household.local
  <2>1. ~ plan.blocked /\ ~ Payable BY <1>2 DEF PreviewInv, PlanInv
  <2>2. CASE ~ household.local BY <1>2, <2>1, <2>2, ReadyPlanIsPayable
  <2> QED BY <2>2
<1>3. PreviewInv => ReadyPlansArePayable BY <1>1, <1>2 DEF ReadyPlansArePayable
<1> QED BY <1>3, PreviewInvariant, PTL

\* Allocation never raises for a bill without credits that reconciliation could evaluate.
THEOREM OrdinaryBillsPass == Spec => []OrdinaryBillsAreAllocated
<1>1. PreviewInv => OrdinaryBillsAreAllocated
  <2> SUFFICES ASSUME PreviewInv, stage = "error", ~ ReconcileRaises(Repair(bill))
               PROVE  \E i \in DOMAIN bill.charges : bill.charges[i].amount < 0
    BY DEF OrdinaryBillsAreAllocated
  <2>1. bill \in Bill /\ ~ NoCredits(bill) BY DEF PreviewInv, RequestInv
  <2>2. PICK i \in DOMAIN bill.charges : ~ (bill.charges[i].amount >= 0)
    BY <2>1 DEF NoCredits
  <2>3. bill.charges[i].amount \in Int BY <2>1, BillType
  <2> QED BY <2>2, <2>3
<1> QED BY <1>1, PreviewInvariant, PTL
=============================================================================
