------------------------------ MODULE MCMigration ------------------------------
(* The shape of the migration from version 1 to 2 on fewer columns, and the   *)
(* files it may find: none, one of the first release, one with a part of the  *)
(* migration (as tests/test_storage_migration.py makes it), a current one.    *)
EXTENDS Migration

Tables == <<"schema_version", "events">>

Columns == <<"det_verdict", "det_score", "classifier_cache">>

File(v, o) == [versions |-> v, objects |-> o]

Files == { File({}, {}),
           File({1}, Range(Tables)),
           File({1}, Range(Tables) \cup {"det_verdict"}),
           File({1, 2}, Range(Tables) \cup Created) }
===============================================================================
