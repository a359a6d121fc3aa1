--------------------------- MODULE MCInvoiceMatch ---------------------------
(* Two interchangeable invoices compete for one order line.                   *)
EXTENDS InvoiceMatch, TLC

Symmetry == Permutations(Invoices)
=============================================================================
