-------------------------- MODULE MCApprovalFiles --------------------------
\* The web approval bridge with the constants of MCApprovalFiles.cfg.
EXTENDS ApprovalFiles

============================================================================
