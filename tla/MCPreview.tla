----------------------------- MODULE MCPreview -----------------------------
(***************************************************************************)
(* Statements with up to two charges (or three, with credits), shared, of  *)
(* a known or an unknown line or of none; totals that agree with them and  *)
(* totals that do not; amounts up to the limit.  Households of one to      *)
(* three members.                                                          *)
(***************************************************************************)
EXTENDS Preview

CONSTANTS s1, s2

MCAmounts == {-MaxMoney, -2, 1, 5, MaxMoney}

MCCharges ==
    [amount: MCAmounts, scope: {"account"}, service: {NoOne}, trusted: {TRUE}]
    \cup [amount: {-2, 5, MaxMoney}, scope: {"line"}, service: {s1}, trusted: {TRUE}]
    \cup [amount: {5}, scope: {"line"}, service: {s2, NoOne}, trusted: {TRUE}]
    \cup [amount: {5}, scope: {"account"}, service: {s1}, trusted: {FALSE}]

\* Credits of one line that keep the total small while another line exceeds the limit.
MCLines ==
    LET Line(n, s) == [amount |-> n, scope |-> "line", service |-> s, trusted |-> TRUE]
    IN  {<<Line(MaxMoney, s1), Line(-MaxMoney, s2), Line(n, s1)>> : n \in {-2, 5}}

\* The totals of a statement on charges cs: off by wrong in the line items, by owed in
\* the amount due.
MCBill(cs, forward, payments, other, wrong, owed) ==
    LET current == ItemizedTotal(cs) + wrong
    IN  [forward |-> forward, payments |-> payments, current |-> current, other |-> other,
         due |-> forward + payments + current + other + owed, charges |-> cs]

MCBills ==
    {MCBill(cs, t[1], t[2], t[3], t[4], t[5]) :
        cs \in {<< >>} \cup {<<c>> : c \in MCCharges} \cup (MCCharges \X MCCharges) \cup MCLines,
        t \in {<<0, 0, 0, 0, 0>>, <<0, 0, 0, 1, 0>>, <<1, 0, 0, 0, 1>>, <<1, -1, 0, 0, 0>>,
               <<0, -1, 0, 0, 1>>, <<0, -1, 1, 0, 0>>, <<0, 0, 1, 0, 0>>}}
    \cap Bill

\* Service s1 is the first member's, s2 the second's if there are three.
MCHousehold(members, weights, payer, users, group, local) ==
    [members |-> members, weights |-> weights,
     owners |-> IF 3 \in members THEN [s \in {s1, s2} |-> IF s = s1 THEN 1 ELSE 2]
                ELSE [s \in {s1} |-> 1],
     payer |-> payer, users |-> users, group |-> group, local |-> local]

MCHouseholds ==
    {MCHousehold({1}, [p \in {1} |-> 3], 1, {1}, TRUE, FALSE),
     MCHousehold({1, 2}, [p \in {1, 2} |-> p], 2, {1, 2}, TRUE, FALSE),
     MCHousehold({1, 2}, [p \in {1, 2} |-> 1], NoOne, {1, 2}, TRUE, FALSE),
     MCHousehold({1, 2}, [p \in {1, 2} |-> 1], 1, {1}, TRUE, FALSE),
     MCHousehold({1, 2}, [p \in {1, 2} |-> 2], 1, {1, 2}, FALSE, FALSE),
     MCHousehold({1, 2}, [p \in {1, 2} |-> 1], 1, {1, 2}, TRUE, TRUE),
     MCHousehold({1, 2, 3}, [p \in {1, 2, 3} |-> 1], 3, {1, 2, 3}, TRUE, FALSE),
     MCHousehold({1, 2, 3}, [p \in {1, 2, 3} |-> IF p = 2 THEN 5 ELSE 2], 1, {1, 2, 3},
                 TRUE, FALSE)}
=============================================================================
