----------------------------- MODULE MCDrivers -----------------------------
\* Model-checking instance of Drivers: FairSpec over a set of drivers.
EXTENDS Drivers
=============================================================================
