\* Sets within one word, across a word boundary and filling two words; the
\* bits at both ends of words 0 and 32.  size_t is 8 bits wide, too wide
\* for DWORDS_NEEDED to wrap at these sizes.
CONSTANTS
  NumBitsChoices = {2, 33, 64}
  Bits = {0, 1, 31, 32, 33, 63}
  SizeMod = 256
SPECIFICATION Spec
INVARIANTS TypeOK InBounds BitsAgree
