------------------------------ MODULE MCRates -------------------------------
(* Constants for checking module Rates with TLC. *)
EXTENDS Rates
=============================================================================
