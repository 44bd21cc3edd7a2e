\* Four hosts, two virtual IPs, two failures, a second version of the image.
SPECIFICATION Spec
CONSTANTS
  N = 4
  Vips = {v1, v2}
  MaxVersion = 2
  MaxFaults = 2
INVARIANTS ServicesSurvive UpdatedIsCurrent
