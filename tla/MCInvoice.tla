------------------------------ MODULE MCInvoice ------------------------------
(* The invoice contract on a small instance. *)
EXTENDS Invoice

MCIds == 1 .. 2
MCAmounts == {1, 2}
MCDueOffsets == {1}
MCGrace == {0, 1}
=============================================================================
