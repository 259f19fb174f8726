------------------------------ MODULE MCPayments ------------------------------
(* Constants for model-checking one customer's account.  Keys and Workers are  *)
(* interchangeable; an invoice of 200 takes a payment of 100 in part, of 200   *)
(* in full and of 300 with an excess.                                          *)
EXTENDS Payments, TLC

Symmetry == Permutations(Keys) \cup Permutations(Workers) \cup Permutations(Invoices)
===============================================================================
