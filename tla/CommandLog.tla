----------------------------- MODULE CommandLog -----------------------------
(***************************************************************************)
(* What the command inbox promises: an append-only log of accepted         *)
(* commands, each taken up at least once, for the first time in the order  *)
(* of acceptance, and a cursor that never runs ahead of what was taken up. *)
(***************************************************************************)
EXTENDS Naturals, Sequences

CONSTANT Cmd       \* command ids

VARIABLES log,     \* accepted commands, in order
          taken    \* positions of the log taken up at least once

logVars == <<log, taken>>

LogInit == log = <<>> /\ taken = {}

\* A command id enters the log once: a repeated submission changes nothing.
Accept(c) ==
    /\ \A i \in 1..Len(log) : log[i] # c
    /\ log' = Append(log, c)
    /\ UNCHANGED taken

TakeUp(i) ==
    /\ i \in 1..Len(log) \ taken
    /\ 1..(i - 1) \subseteq taken
    /\ taken' = taken \cup {i}
    /\ UNCHANGED log

LogNext == \/ \E c \in Cmd : Accept(c)
           \/ \E i \in 1..Len(log) : TakeUp(i)

LogSpec == LogInit /\ [][LogNext]_logVars
=============================================================================
