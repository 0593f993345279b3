\* NEXT_STREAM after END_STREAM.
SPECIFICATION Spec
CONSTANTS
    Counts <- One
    Calls <- StreamOnly
INVARIANT NextRefilled
