--------------------------- MODULE MCMapperSessions ---------------------------
(* A small instance of MapperSessions for TLC.                             *)
EXTENDS MapperSessions

CONSTANTS r1, r2, r3, r4
=============================================================================
