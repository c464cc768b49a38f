-------------------------- MODULE MCDatabaseContents --------------------------
(* An instance of DatabaseContents for TLC.                                 *)
EXTENDS DatabaseContents
=============================================================================
