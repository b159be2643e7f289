---------------------------- MODULE MCStormWatch ----------------------------
\* The storm watch with the constants of MCStormWatch.cfg.
EXTENDS StormWatch

\* A rack whose cooling failed, what it drags behind it, and alerts that say
\* nothing of their rack.
MCKinds == {<<"R4", "facility">>, <<"R4", "app">>, <<"unknown", "bmc">>}
============================================================================
