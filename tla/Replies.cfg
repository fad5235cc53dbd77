SPECIFICATION Spec
INVARIANTS FramesAgree CanonicalForm GeneratedWithinLimits RecordExact FaultsAsAsked
