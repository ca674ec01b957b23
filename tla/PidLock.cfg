CONSTANTS
    Proc = {p1, p2, p3, p4}
    None = None
SPECIFICATION FairSpec
INVARIANT OneInstance
INVARIANT PidfileNames
PROPERTY RunningUndisturbed
PROPERTY StartsDecided
