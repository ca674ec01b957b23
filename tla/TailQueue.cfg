CONSTANTS
    Node = {n1, n2, n3, n4}
    HEAD = HEAD
    NULL = NULL
SPECIFICATION Spec
INVARIANT TypeOK
INVARIANT Linked
INVARIANT BackwardWorks
