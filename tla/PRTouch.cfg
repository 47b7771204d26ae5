SPECIFICATION Spec
CONSTANTS
  Commands = {"G28", "PRTOUCH_HOME", "SCAN", "TWIST", "SCRUB"}
  Heights = {0, 2, 6}
  Samples = 2
  MaxNoisy = 1
  MaxSamples = 4
  Tolerance = 2
  Retries = 1
  MaxFaults = 3
  MaxLate = 2
INVARIANTS TypeOK MotionArmed DisarmedAtRest SeedNeverKept ZeroAgreed
