-------------------------- MODULE MCRedfishServer --------------------------
\* The Redfish tool server with the constants of MCRedfish*.cfg.
EXTENDS RedfishServer

============================================================================
