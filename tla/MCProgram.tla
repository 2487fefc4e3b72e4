------------------------------ MODULE MCProgram ------------------------------
(* The program for TLC. *)
EXTENDS Program

(* Two of the six globals. *)
MCFields == <<"place_id", "user_id">>
=============================================================================
