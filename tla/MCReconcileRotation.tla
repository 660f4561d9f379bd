------------------------- MODULE MCReconcileRotation -------------------------
EXTENDS ReconcileRotation
CONSTANTS i1, i2, i3
ThreeInvoices == {i1, i2, i3}
OnePoisoned == {i1}
=============================================================================
