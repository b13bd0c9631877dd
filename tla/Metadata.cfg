SPECIFICATION Spec
CONSTANTS
    Guests = {g1, g2}
    Procs = {p1, p2}
    Nobody = Nobody
    MaxAttempts = 2
PROPERTIES
    MetadataIsServed
