-------------------------- MODULE MCCandlePipeline --------------------------
(***************************************************************************)
(* Small instances of CandlePipeline: a stream queue of two updates and a  *)
(* closed queue of one close, so that both overflow; and two connections,  *)
(* so that a close arrives twice and in between others.                    *)
(***************************************************************************)
EXTENDS CandlePipeline
=============================================================================
