---------------------------- MODULE MCHTTPReporter ----------------------------
(***************************************************************************)
(* An instance of HTTPReporter for TLC: batches of two spans, one of the   *)
(* spans unencodable.                                                      *)
(***************************************************************************)
EXTENDS HTTPReporter

CONSTANTS a, b, c, d, e, bad

===============================================================================
