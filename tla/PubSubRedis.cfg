SPECIFICATION PubSubSpec
CONSTANTS
    Subs = {s1, s2, s3, s4}
    NoSet = NoSet
SYMMETRY SubSymmetry
INVARIANTS NoLeak NoStrayHandler OrphansAreCreators
