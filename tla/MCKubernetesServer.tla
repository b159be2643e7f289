------------------------- MODULE MCKubernetesServer -------------------------
\* The Kubernetes tool server with the constants of MCKubernetes.cfg.
EXTENDS KubernetesServer
============================================================================
