--------------------------- MODULE MCSdkPayments ----------------------------
(***************************************************************************)
(* SdkPayments for TLC: an invoice, a second spelling of it, and one the   *)
(* SDK cannot parse.                                                       *)
(***************************************************************************)
EXTENDS SdkPayments

CONSTANTS i1, I1, broken

Bolt11 == [i \in Invoices |-> IF i = broken THEN None ELSE i1]
=============================================================================
