\* lilo ends when the configuration is read.
CHECK_DEADLOCK FALSE

CONSTANTS
    MaxItems = 5
    MaxLayouts = 3
    MaxToken = 6
    Environment <- MCEnvironment
    Vocabularies <- MCVocabularies
    CommandLines <- MCCommandLines
    Questions <- MCQuestions

SPECIFICATION Spec

INVARIANTS
    SectionsAsWritten
    AcceptsTheWellFormed
    IdentifiesTheImage
PROPERTIES
    ParsingEnds
