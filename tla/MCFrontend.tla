------------------------------ MODULE MCFrontend -----------------------------
(***************************************************************************)
(* A small server for TLC, with and without a tokenizer of its own.         *)
(***************************************************************************)
EXTENDS Frontend

OneOfEach ==
  {[kind |-> "generate", length |-> 1], [kind |-> "chat", length |-> 2],
   [kind |-> "whole", length |-> 1]}
=============================================================================
