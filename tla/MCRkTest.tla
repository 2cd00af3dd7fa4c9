------------------------------ MODULE MCRkTest ------------------------------
(* RkTest for TLC: lengths whose filter is and is not a multiple of 8 bits,  *)
(* equal lengths, and words that end at, before and past the document's end. *)
EXTENDS RkTest

MCLengths == {<<2, 4>>, <<3, 8>>, <<2, 5>>, <<4, 4>>}

\* The primes and lengths of the run do not let a wrong hash agree.
ASSUME InstanceNoAccident == NoAccident
=============================================================================
