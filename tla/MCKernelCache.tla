---------------------------- MODULE MCKernelCache ----------------------------
(***************************************************************************)
(* The caches of kernels on a small instance: two threads, in one process  *)
(* or in two that share a directory, of one version or of two.             *)
(***************************************************************************)
EXTENDS KernelCache

Together == [t \in Threads |-> 1]
Apart == [t \in Threads |-> t]

Mode(process, version, specs, texts, engine, directory) ==
  [process |-> process, version |-> version, specs_collide |-> specs,
   texts_collide |-> texts, per_engine |-> engine, disk |-> directory]

SmallModes ==
  {Mode(Together, <<1, 1>>, specs, texts, engine, FALSE) :
     specs \in BOOLEAN, texts \in BOOLEAN, engine \in BOOLEAN}
  \cup {Mode(Together, <<1, 1>>, FALSE, FALSE, engine, TRUE) : engine \in BOOLEAN}
  \cup {Mode(Apart, version, FALSE, FALSE, FALSE, TRUE) : version \in {<<1, 1>>, <<1, 2>>}}
=============================================================================
