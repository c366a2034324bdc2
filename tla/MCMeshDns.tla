------------------------------ MODULE MCMeshDns ------------------------------
\* Instances of MeshDns with two namespaces.
EXTENDS MeshDns

TwoGateways == <<"prod", "stage">>
==============================================================================
