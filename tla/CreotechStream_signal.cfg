\* A signal during NEXT_STREAM.
SPECIFICATION Spec
CONSTANTS
    Counts <- One
    Calls <- StreamOnly
INVARIANT NextComplete
