---------------------------- MODULE MCGpuKernel ----------------------------
(* Kernels to run: every small shape *)
EXTENDS GpuKernel

CONSTANTS MaxColumns, MaxWork

Shape(kind, m, n, k) == [kind |-> kind, m |-> m, n |-> n, k |-> k]

(* One tile or several, of one column or of many, and empty matrices.  MaxWork
   bounds the steps of all threads. *)
SmallKernels ==
  {x \in [kind : {"matmul"}, m : 0 .. 3, n : 0 .. MaxColumns, k : 0 .. 2] :
     x.m * x.n * (x.k + 1) <= MaxWork}
  \cup [kind : {"add", "relu"}, m : 0 .. 3, n : 0 .. MaxColumns \div 2, k : {0}]

Wide == {Shape("relu", 1, n, 0) : n \in {0, MaxThreads + 1}}
=============================================================================
