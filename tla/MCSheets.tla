------------------------------- MODULE MCSheets -------------------------------
(***************************************************************************)
(* A small instance of Sheets: three tabs and a history of five entries.   *)
(***************************************************************************)
EXTENDS Sheets

MCPages == {"home", "qr", "activity"}
===============================================================================
