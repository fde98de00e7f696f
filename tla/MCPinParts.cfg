SPECIFICATION Spec
CONSTANT None = None
INVARIANTS
    
    StoreSound
    CascadeSound
PROPERTIES
    PolicyConverges
CHECK_DEADLOCK FALSE
