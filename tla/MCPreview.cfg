SPECIFICATION Spec
CHECK_DEADLOCK FALSE
CONSTANTS
    MaxMoney = 7
    Participants = {1, 2, 3}
    s1 = s1
    s2 = s2
    Services = {s1, s2}
    NoOne = NoOne
    Bills <- MCBills
    Households <- MCHouseholds
INVARIANTS SplitsAreFair ReadyPlanMatchesStatement ReadyPlansArePayable OrdinaryBillsAreAllocated
