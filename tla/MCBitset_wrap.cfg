\* num_bits within 31 of the largest size_t (8 bits wide here).
CONSTANTS
  NumBitsChoices = {240}
  Bits = {0}
  SizeMod = 256
SPECIFICATION Spec
INVARIANT InBounds
