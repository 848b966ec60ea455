------------------------------ MODULE MCStartup ------------------------------
(***************************************************************************)
(* A small instance of Startup: lists of one or two successors, files of   *)
(* up to two spaces, of two names.                                         *)
(***************************************************************************)
EXTENDS Startup

MCLengths == {1, 2}
=============================================================================
