--------------------------- MODULE MCTableScanner ---------------------------
(***************************************************************************)
(* Three tokens over two threads; the tablet filter drops the middle one.  *)
(***************************************************************************)
EXTENDS TableScanner

\* Row counts of each token's batches: one empty tablet, one of two batches.
MCTokenBatches == << <<1>>, << >>, <<1, 1>> >>

\* The copied tables: two ordinary columns and the auto-incrementing one in
\* any position, or none.
MCCopySchemas ==
  { << "a", "b" >>, << AutoCol, "a", "b" >>, << "a", AutoCol, "b" >>,
    << "a", "b", AutoCol >>, << AutoCol >> }
=============================================================================
