CONSTANTS
    Half = 16
    Steps = {1, 7, 15, 16, 31}
SPECIFICATION SeqSpec
INVARIANTS
    SeqTypeOK
    OrderAgrees
