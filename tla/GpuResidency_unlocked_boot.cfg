SPECIFICATION Spec
CONSTANTS
  shipped = shipped
  fallback = fallback
  special = special
  ocr = ocr
  Texts = {shipped, fallback, special}
  Ocr = ocr
  Shipped = shipped
  Fallback = fallback
  Flaky = {}
  Slow = {}
  Crashing = {}
  Faults = {"manager restart"}
INVARIANTS
  OneHeavy
