----------------------------- MODULE MCGenerate -----------------------------
(* Seed lists for the runs of Generate: random seeds are one of two lists. *)
EXTENDS Generate

RowOnly   == {TRUE}
CliOnly   == {FALSE}
RowOrCli  == {TRUE, FALSE}

OneSeed  == {<<7>>}
TwoSeeds == {<<7, 8>>, <<9, 6>>}
=============================================================================
