--------------------------- MODULE MCMigrationRunner ---------------------------
(* The plans for TLC: every kind of statement behind another one, both places of *)
(* an index, a batch of two rows' changes, and two files.                        *)
EXTENDS MigrationRunner

MCPlans == {
    << <<"dml", "index", "dml">> >>,
    << <<"dml", "dml", "validate">>, <<"unnamed">> >>,
    << <<"ddl", "dml", "index">> >>,
    << <<"index", "ddl">> >> }
===============================================================================
