\* One family of each kind: ordered, text, storage only, documents.
SPECIFICATION Spec
CONSTANTS
  CatalogFamilies = {"integer", "text", "boolean", "json"}
  Plaintexts <- ThreeTexts
  Coarse <- CoarseTerm
  Grams <- TextGrams
  Position <- BitOfGram
  Names <- TargetNames
  None = None
INVARIANTS
  AdmittedByCheck
  ConvertsWhatClientsEmit
  AnswersAsPlaintext
  RefusedAgain
CHECK_DEADLOCK FALSE
