SPECIFICATION Spec
CONSTANTS
  shipped = shipped
  fallback = fallback
  special = special
  ocr = ocr
  Texts = {shipped, fallback, special}
  Ocr = ocr
  Shipped = shipped
  Fallback = fallback
  Flaky = {shipped, fallback, special, ocr}
  Slow = {shipped, fallback, special, ocr}
  Crashing = {shipped, fallback, special, ocr}
  Faults = {"graphics restart", "inference never idle"}
INVARIANTS
  TypeOK
  OneHeavy
