---------------------------- MODULE MCController ----------------------------
(***************************************************************************)
(* An instance of Controller for TLC: two callers that may share a state   *)
(* server, one of whose handlers may hang; or the second one asks for a    *)
(* probe, or for an endpoint that no client can be made for.               *)
(***************************************************************************)
EXTENDS Controller

MCKeysOf == [a |-> {"east"}, b |-> {"east", "probe", "odd"}]

MCFlags ==
  { <<"">>, <<" ">>, <<"east", "">>, <<"east", "east">> }
=============================================================================
