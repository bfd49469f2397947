---------------------------- MODULE MCNodeInbox ----------------------------
(* Instances of NodeInbox for TLC.                                         *)
EXTENDS NodeInbox

\* Two instances' messages: "lineA" and "lineX" share an inbox key and differ
\* in src_layer, which only the filter sees; "muB" has a key of its own, one
\* layer up.
MCKinds == {"lineA", "lineX", "muB"}
MCBuckets == {"A", "B"}
MCBucketOf == [kd \in MCKinds |-> IF kd = "muB" THEN "B" ELSE "A"]
MCLayerOf == [b \in MCBuckets |-> IF b = "A" THEN 0 ELSE 1]
MCInstanceOf == [b \in MCBuckets |-> IF b = "A" THEN "vss" ELSE "rs"]

\* An indexed call, a scanning call that competes with it for "lineA", and
\* an indexed call on the other key.
MCReceivers == {"indexed", "scan", "other"}
MCWanted == [r \in MCReceivers |->
  CASE r = "indexed" -> {"lineA"}
    [] r = "scan" -> {"lineA", "lineX"}
    [] r = "other" -> {"muB"}]
MCIndex == [r \in MCReceivers |->
  CASE r = "indexed" -> "A" [] r = "scan" -> NoBucket [] r = "other" -> "B"]
MCNeed == [r \in MCReceivers |-> IF r = "other" THEN 1 ELSE 2]
=============================================================================
