SPECIFICATION Spec
CONSTANTS
  shipped = shipped
  fallback = fallback
  special = special
  ocr = ocr
  Texts = {shipped, fallback, special}
  Ocr = ocr
  Shipped = shipped
  Fallback = fallback
  Flaky = {shipped, special, ocr}
  Slow = {ocr}
  Crashing = {shipped, fallback, special, ocr}
  Faults = {}
INVARIANTS
  ActiveIsResident
