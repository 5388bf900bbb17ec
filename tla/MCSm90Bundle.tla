---------------------------- MODULE MCSm90Bundle ----------------------------
(* Two of the four configurations, one of them measured for one shape.       *)
EXTENDS Sm90Bundle
MCConfigurations == {"control", "value64"}
MCOrder == <<"control", "value64">>
MCRows == [s \in {"measured"} |-> "value64"]
=============================================================================
