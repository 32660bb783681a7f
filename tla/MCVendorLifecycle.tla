-------------------------- MODULE MCVendorLifecycle --------------------------
EXTENDS VendorLifecycle

CONSTANTS t1, t2, n1, p1
==============================================================================
