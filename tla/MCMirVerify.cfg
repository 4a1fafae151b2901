SPECIFICATION Spec
CONSTANTS
    Word <- MCWord
    Slot <- MCSlot
    SlotMin <- MCSlotMin
    MaybeSize <- MCMaybeSize
    FrameAlign <- MCFrameAlign
    Functions <- MCFunctions
INVARIANTS
    FrameSound
    LoweredFramesAccepted
    StoresStayInside
    UsesAreWritable
PROPERTY VerifierEnds
CHECK_DEADLOCK FALSE
