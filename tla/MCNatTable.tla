----------------------------- MODULE MCNatTable -----------------------------
(* NatTable for TLC: connections that meet in one chain or in two, some in  *)
(* one table only.  With 16 base entries the hash values 15 and 16 meet.    *)
EXTENDS NatTable, TLC

Scene(flows, dst, src, asked) ==
  [flows |-> flows, dst |-> dst, src |-> src, asked |-> asked]
By(a, b, c, d) == ("f1" :> a @@ "f2" :> b @@ "f3" :> c @@ "f4" :> d)

MCFlows == {"f1", "f2", "f3", "f4"}
Three == {"f1", "f2", "f3"}
MCScenes ==
  "one"   :> Scene(Three, By(15, 16, 31, 1), By(7, 7, 7, 7), FALSE) @@
  "two"   :> Scene(Three, By(15, 16, 1, 1), By(2, 3, 3, 3), FALSE) @@
  "nat"   :> Scene(MCFlows, By(1, 1, 1, 1), By(1, 2, 3, 4), FALSE) @@
  "index" :> Scene(MCFlows, By(1, 2, 3, 4), By(1, 1, 1, 2), FALSE) @@
  "asked" :> Scene({"f1", "f2"}, By(1, 1, 1, 1), By(1, 1, 1, 1), TRUE)
=============================================================================
