------------------------------ MODULE MCHistory ------------------------------
(* The instances of MCCommands for CommandHistory. *)
EXTENDS MCCommands, CommandHistory
=============================================================================
