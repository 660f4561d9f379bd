SPECIFICATION FairSpec
CONSTANTS
    i1 = i1
    i2 = i2
    i3 = i3
    Invoices <- ThreeInvoices
    Limit = 2
    Poisoned <- OnePoisoned
PROPERTY TurnComes
