CONSTANTS
    Width = 16
SPECIFICATION Spec
INVARIANT NetmaskDecodeCorrect
INVARIANT PrefixRoundTrip
