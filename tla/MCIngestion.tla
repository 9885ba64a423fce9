---------------------------- MODULE MCIngestion ----------------------------
(***************************************************************************)
(* A small instance of Ingestion: sizes around every limit, which both the *)
(* bytes and the characters of two images reach.                           *)
(***************************************************************************)
EXTENDS Ingestion

MCTexts   == {0, 2, 3}
MCImages  == {1, 3, 4, 7}
MCRasters == {1, 3, 4}
=============================================================================
