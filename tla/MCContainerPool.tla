-------------------------- MODULE MCContainerPool --------------------------
(* Instances of ContainerPool for TLC; the cfg files give the constants.     *)
EXTENDS ContainerPool
=============================================================================
