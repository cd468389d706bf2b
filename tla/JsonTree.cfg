CONSTANTS
    Node = {n1, n2, n3, n4}
    Key = {k1, k2}
    NULL = NULL
SYMMETRY Symmetric
SPECIFICATION Spec
INVARIANTS TypeOK LinksAgree CheckAccepts
PROPERTIES ImplementsForest
