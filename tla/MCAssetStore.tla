---------------------------- MODULE MCAssetStore -----------------------------
(* Two writers, an asset and an edge; observations that differ in everything. *)
EXTENDS AssetStore

MCWriter == {"w1", "w2"}
MCObservation ==
  {[scalar |-> "yes", list |-> {"a"}, conf |-> 1, scope |-> TRUE],
   [scalar |-> NoScalar, list |-> {"b"}, conf |-> 2, scope |-> FALSE]}
==============================================================================
