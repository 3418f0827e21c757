------------------------------ MODULE MCPregen ------------------------------
(* Model values for Pregen: the two commands the controller sends. *)
EXTENDS Pregen

MCCommands == {"continue", "pause"}
MCNoFaults == {}
MCLateAnswers == {"late"}
MCAllFaults == {"late", "reset"}
=============================================================================
