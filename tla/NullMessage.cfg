SPECIFICATION FairSpec
CONSTANT Networks <- SingleLinks
INVARIANTS GuaranteeHolds NoStraggler
PROPERTIES SafeTimeForward AllStop
