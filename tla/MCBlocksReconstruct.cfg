SPECIFICATION Spec
CONSTANTS Texts <- ShortTexts
INVARIANTS BlocksReconstruct
CHECK_DEADLOCK FALSE
