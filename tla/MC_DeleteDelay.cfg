\* The deletion delay against the spec's "clamped to 7 days".
CONSTANT Inputs <- MCInputs
SPECIFICATION Spec
INVARIANT DelayIsClampedSeconds
