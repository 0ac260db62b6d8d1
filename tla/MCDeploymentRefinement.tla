----------------------- MODULE MCDeploymentRefinement -----------------------
(* Instances of DeploymentRefinement for TLC.                              *)
EXTENDS MCDeployment, DeploymentRefinement, DeploymentInvariant
=============================================================================
