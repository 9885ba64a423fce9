----------------------------- MODULE MCBrowser -----------------------------
(* One run with one bill, another one, and one page of the browser. *)
EXTENDS Browser

MCFingerprint == [b \in Bills |-> 1]
MCRepair      == [b \in Bills |-> b]
MCPairs       == Bills \X Households
=============================================================================
