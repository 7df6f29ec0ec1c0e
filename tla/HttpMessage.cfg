SPECIFICATION Spec
CONSTANTS
    Names <- MCNames
    Values <- MCValues
    Lower <- MCLower
    Fields <- MCFields
    FieldValues <- MCFieldValues
    Lengths = {0}
    MethodTexts = {"A B"}
    Targets = {"/p"}
    Versions = {11}
    Bodies <- MCBodies
    Phrases = {""}
    Codes = {200}
    OwnVerbs = {"put"}
    OwnStatuses = {418}
    OwnFields = {"content_length", "a_im"}
    RequestTexts <- MCRequestTexts
    ResponseTexts <- MCResponseTexts
    RequestMessages <- MCRequestMessages
    ResponseMessages <- MCResponseMessages
    MaxEntries = 3
INVARIANTS
    TypeOK
    RoundTrip
PROPERTIES
    ImplementsFields
    CallsAreKept
    BodyCounted
