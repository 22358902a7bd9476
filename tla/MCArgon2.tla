------------------------------ MODULE MCArgon2 ------------------------------
(* Constants for checking module Argon2Hash with TLC. *)
EXTENDS Argon2Hash
=============================================================================
