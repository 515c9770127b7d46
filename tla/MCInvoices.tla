------------------------------ MODULE MCInvoices ------------------------------
(* Small instances of Invoices for TLC. *)
EXTENDS Invoices
=============================================================================
