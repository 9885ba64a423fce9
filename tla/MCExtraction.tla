---------------------------- MODULE MCExtraction ----------------------------
(***************************************************************************)
(* Small instances of Extraction: b1 passes the gate; b2 is the same        *)
(* statement extracted with too little confidence, so it has the same       *)
(* fingerprint and is blocked; b3 is another statement.                     *)
(***************************************************************************)
EXTENDS Extraction

CONSTANTS b1, b2, b3, h1

MCFingerprint == [b \in Bills |-> IF b = b3 THEN 3 ELSE 1]
MCApproved    == Bills \ {b2}
MCRepair      == [b \in Bills |-> b]
MCPairs       == Bills \X Households
=============================================================================
