----------------------- MODULE MCTransferVerification -----------------------
(* TransferVerification with model values; pictures and requests are       *)
(* interchangeable.                                                        *)
EXTENDS TransferVerification, TLC

Symmetry == Permutations(Image) \cup Permutations(VerifyRequest)
=============================================================================
