SPECIFICATION Spec
INVARIANTS
  FiltersAdmitTheProtocol
  DecodingIdentifiesTheSender
  CommandsAreNotAnswers
