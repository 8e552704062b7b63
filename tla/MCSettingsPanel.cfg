SPECIFICATION Spec
CONSTANTS
  Cards = {"PCH", "USB"}
  Nameless = {}
  Numbers = {0, 1}
  Free = "free"
  Slots <- MCSlots
  playback <- MCplayback
  Fixed = {"rate"}
  Toggles = {"realtime"}
  options <- MCoptions
  fallback <- MCfallback
  Unset = "0"
  Sizes = {"256", "1024"}
  Saved <- MCSaved
  Nobody = Nobody
INVARIANTS
  IInv
  NothingUnderPopup
  InEffect
PROPERTIES
  SavedDeviceShown
  ChoiceKept
  SavedIfAccepted
