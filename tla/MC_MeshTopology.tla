---------------------------- MODULE MC_MeshTopology ----------------------------
(* Model-checking instance of MeshTopology: three nodes on a line, so that   *)
(* radius 1 reaches the neighbours and radius 2 everybody; batches that name *)
(* every pair, in either order, and each way for a batch to be refused.      *)
EXTENDS MeshTopology

Line == [n \in 0 .. MaxNode - 1 |-> n]

Batches ==
    {<<>>, <<<<0, 1>>>>, <<<<2, 0>>>>, <<<<1, 2>>, <<0, 1>>>>, <<<<0, 2>>, <<2, 1>>>>,
     <<<<1, 1>>>>, <<<<0, 3>>>>, <<<<0, 1>>, <<1, 0>>>>, <<<<1, 2>>, <<1, 2>>>>,
     <<<<0, 2>>, <<1, 1>>>>}
=============================================================================
