--------------------------- MODULE MCConfigStore ---------------------------
(* Small instance of ConfigStore: the blobs the host has, and the rule that *)
(* refuses one pair of geometries.                                          *)
EXTENDS ConfigStore

B(x, z, buf, rest) == [x |-> x, z |-> z, buf |-> buf, rest |-> rest]

MCPushes    == {B("g1", "g1", "b1", "r1"), B("g2", "g1", "b1", "r2"), B("g2", "g2", "b1", "r1"),
                B("g1", "g1", "b1", "r3")}
MCMalformed == {b \in Blob : b.rest = "r3"}
MCRefused   == {b \in Blob : b.x = "g2" /\ b.z = "g2"}

============================================================================
