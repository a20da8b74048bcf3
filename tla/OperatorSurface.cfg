\* One family of each kind: ordered, text, storage only, without a leaf in JSON, documents.
SPECIFICATION Spec
CONSTANTS
  CatalogFamilies = {"integer", "text", "boolean", "date", "json"}
  Plaintexts <- ThreeTexts
  Coarse <- CoarseTerm
  Grams <- TextGrams
  Unknown = Unknown
  None = None
INVARIANTS
  LoadsCleanly
  NativeSignatureBlocked
  LiteralsReachJsonb
  SeamClosed
  AnswerExact
  TermGuaranteed
PROPERTY PlannerRewritesAgree
CHECK_DEADLOCK FALSE
