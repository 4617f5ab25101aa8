------------------------------ MODULE MCReview ------------------------------
(***************************************************************************)
(* Small instances of Review.                                              *)
(***************************************************************************)
EXTENDS Review

MCContents == {0, 1}

=============================================================================
