---------------------------- MODULE MCMigrations ----------------------------
(* Instances of Migrations for TLC: the 13 .sql migrations and one or two   *)
(* .py ones after them.                                                     *)
EXTENDS Migrations

Transactional == <<"transactional">>
OneOfEach == <<"transactional", "autocommit">>
=============================================================================
