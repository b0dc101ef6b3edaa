---------------------------- MODULE MCAdvisorTurn ----------------------------
(* Small instances of AdvisorTurn for TLC. *)
EXTENDS AdvisorTurnProperties

(* Threads are named for their process: 11 and 12 are web threads, 21 is   *)
(* the Telegram worker.                                                    *)
ProcessOf == [c \in Callers |-> c \div 10]
=============================================================================
