SPECIFICATION Spec
CONSTANTS
  Sensors = {"imx219", "imx477", "imx519", "imx708"}
  Available = {"imx219", "imx477", "imx708"}
  Listed = {"imx219", "imx219,cam0", "imx477", "imx519"}
  Values = {"0", "1", "vc4-kms-v3d", "imx219", "imx219,cam0", "imx477", "imx519", "imx708", "arm_64bit", "all"}
  Configs <- Files
  MaxRuns = 3
\* The runs are bounded.
CHECK_DEADLOCK FALSE
INVARIANTS
  ConfiguredRight
  OthersKept
  OriginalRecoverable
