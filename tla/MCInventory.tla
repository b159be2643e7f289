----------------------------- MODULE MCInventory -----------------------------
\* The inventory with the constants of MCInventory.cfg.
EXTENDS Inventory
============================================================================
