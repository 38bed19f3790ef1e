-------------------------- MODULE MCCreateDstTable --------------------------
(***************************************************************************)
(* Source schemas of up to three columns whose ids start at 0 (the master *)
(* numbers a new table's columns from 0) and lie in 0..4, with and        *)
(* without two hash dimensions of two buckets over two ranges; hash       *)
(* bucket flags as their comma-split pieces: "" is << >>, "," is          *)
(* <<"", "">>, "3,,3" is <<"3", "", "3">>.                                *)
(***************************************************************************)
EXTENDS CreateDstTable, SequencesExt

MCSrcSchemas == {s \in BoundedSeq(0..4, 3) : s # << >> /\ s[1] = 0}

MCSrcHashes == {<< >>, <<2, 2>>}

MCHashFlags == {<< >>, <<"", "">>, <<"3", "3">>, <<"3", "", "3">>,
                <<"3">>, <<"1", "3">>, <<"x", "3">>}
=============================================================================
