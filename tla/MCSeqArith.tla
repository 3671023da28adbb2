------------------------------ MODULE MCSeqArith ------------------------------
(* Sequence numbers of five bits; steps of one, of about half the range and of *)
(* all but one of it.                                                        *)
EXTENDS SeqArith
=============================================================================
