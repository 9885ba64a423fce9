----------------------------- MODULE MCPosting -----------------------------
(***************************************************************************)
(* Small instances of Posting.  Bill b0 is b1 before the repair of a       *)
(* prior-cycle payment (the repair changes its fingerprint), b2 does not   *)
(* pass the gate; household h1 is complete, h2 keeps a local summary, h3   *)
(* has no owner for some line, h4 lacks a Splitwise id.                    *)
(***************************************************************************)
EXTENDS PostingPromise, TLC

CONSTANTS b0, b1, b2, h1, h2, h3, h4

MCFingerprint == [b \in Bills |-> CASE b = b0 -> 0 [] b = b1 -> 1 [] OTHER -> 2]
MCApproved    == Bills \ {b0, b2}
MCRepair      == [b \in Bills |-> IF b = b0 THEN b1 ELSE b]
MCResolved    == Bills \X (Households \ {h3})
MCPostable    == Bills \X (Households \ {h4})
MCLocalOnly   == Households \cap {h2}

Symmetry == Permutations(Tokens) \cup Permutations(Expenses)
=============================================================================
