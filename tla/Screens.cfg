SPECIFICATION ScreensSpec
CONSTANT
  Slots = {s1, s2}
SYMMETRY TwoSlots
INVARIANTS
  
  SecondPaymentOnlyAfterReset
