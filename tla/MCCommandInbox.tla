--------------------------- MODULE MCCommandInbox ---------------------------
(* Instances of CommandInbox for TLC: two processes; a run command, an     *)
(* automation command and a revision with the answer it derives.           *)
EXTENDS CommandInbox, TLC

CONSTANTS p1, p2, runCmd, autoCmd, reviseCmd, answerCmd

AnswerOf == reviseCmd :> answerCmd
=============================================================================
