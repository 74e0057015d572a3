------------------------- MODULE MCContainerExecutor -------------------------
(* Three requests, so that a runner can outlive two later ones.            *)
EXTENDS ContainerExecutor
=============================================================================
