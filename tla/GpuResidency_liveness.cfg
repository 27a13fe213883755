SPECIFICATION FairSpec
CONSTANTS
  shipped = shipped
  fallback = fallback
  special = special
  ocr = ocr
  Texts = {shipped, fallback, special}
  Ocr = ocr
  Shipped = shipped
  Fallback = fallback
  Flaky = {shipped, special, ocr}
  Slow = {ocr}
  Crashing = {fallback}
  Faults = {"manager restart", "inference never idle"}
INVARIANTS
  OcrConfined
PROPERTIES
  TextComesBack
