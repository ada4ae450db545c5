SPECIFICATION Spec
CONSTANT Networks <- DoubleLink
INVARIANT GuaranteeHolds
