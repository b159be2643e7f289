----------------------------- MODULE MCChaosLab -----------------------------
\* The demo lab with the constants of MCChaosLab.cfg.
EXTENDS ChaosLab
============================================================================
