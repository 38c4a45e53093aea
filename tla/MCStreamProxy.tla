---------------------------- MODULE MCStreamProxy ----------------------------
(* StreamProxy with the retry limits the code has, one at each layer.      *)
EXTENDS StreamProxy

=============================================================================
