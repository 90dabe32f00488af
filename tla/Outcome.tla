------------------------------- MODULE Outcome -------------------------------
(* Rust's Option and Result: None, an error by its variant, or a value. *)

CONSTANT None

Failure(error) == [error |-> error]
Answer(value) == [error |-> "none", value |-> value]
==============================================================================
