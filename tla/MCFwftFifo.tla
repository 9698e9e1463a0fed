----------------------------- MODULE MCFwftFifo -----------------------------
(* The FIFO with four words of RAM, the size tb_fifo_fwft.v simulates. The *)
(* FIFO never looks at a word, so words are interchangeable.               *)
EXTENDS FwftFifo, TLC

DataSymmetry == Permutations(Data)
=============================================================================
