------------------------- MODULE MCSchemaMigration -------------------------
(* An instance of SchemaMigration for TLC: two migrations of any database    *)
(* the code tells apart, on either backend, two of which may be killed.      *)
EXTENDS SchemaMigration
=============================================================================
