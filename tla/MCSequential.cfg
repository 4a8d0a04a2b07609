\* Each sequential component over its bounded inputs.
SPECIFICATION Spec
INVARIANT CodecTypeOK
INVARIANT PaddingFillsBlock
INVARIANT DecodeMatchesContract
INVARIANT MergeTypeOK
INVARIANT MergePolicy
INVARIANT ChainTypeOK
INVARIANT IPLiteralNeverResolved
INVARIANT InnerSeesASCII
INVARIANT InnerErrorsClassifiedOnce
INVARIANT DBTypeOK
INVARIANT ReportNeverLost
INVARIANT ResultOrError
INVARIANT AnomalyIffBlocked
INVARIANT FrameRoundTrips
INVARIANT SessionHandedOutOnce
\* Each component makes its calls and then stops.
CHECK_DEADLOCK FALSE
