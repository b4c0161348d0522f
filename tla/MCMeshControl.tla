---------------------------- MODULE MCMeshControl ----------------------------
\* The mesh control plane for TLC.
EXTENDS MeshControl
=============================================================================
