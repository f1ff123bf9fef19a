---------------------------- MODULE MCRestClient ----------------------------
(***************************************************************************)
(* A small instance of RestClient: two views and two lists, so that views  *)
(* share a fetch and a view comes back to a list it has left.              *)
(***************************************************************************)
EXTENDS RestClient
=============================================================================
