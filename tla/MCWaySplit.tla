----------------------------- MODULE MCWaySplit -----------------------------
(***************************************************************************)
(* Two uploads of one statement: b1 passes the gate, b2 is the same         *)
(* statement extracted with too little confidence, b3 is another one.       *)
(***************************************************************************)
EXTENDS WaySplit, TLC

CONSTANTS b1, b2, b3

MCFingerprint == [b \in Bills |-> IF b = b3 THEN 3 ELSE 1]
MCApproved    == Bills \ {b2}
MCRepair      == [b \in Bills |-> b]
MCPairs       == Bills \X Households

Symmetry == Permutations(Tokens) \cup Permutations(Expenses)
            \cup Permutations(Runs) \cup Permutations(Sources)
=============================================================================
