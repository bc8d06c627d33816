SPECIFICATION Spec
CONSTANTS
    Devices = {1, 2}
    SessionIDs = {s1, s2}
    MaxHellos = 4
    MaxSends = 2
SYMMETRY Symmetry
INVARIANTS
    TypeOK
    ReadyAgreement
    DeliveryNeedsBothReady
    NonceUnique
    OpenedAtMostOnce
