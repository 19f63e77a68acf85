------------------------------ MODULE MCRequests ------------------------------
(***************************************************************************)
(* Two goroutines that make two requests, two peers of which one lacks a *)
(* block, and a third peer that makes more peers than may be asked.        *)
(***************************************************************************)
EXTENDS Requests

CONSTANTS c1, c2, full, half, late, h1, h2

MCConnected == {{}, {full, half}, {full, half, late}}
MCHolds == [p \in {full, half, late} |-> IF p = half THEN {h1} ELSE {h1, h2}]
===============================================================================
