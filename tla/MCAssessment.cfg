\* One assessment, one control, two requests of one page at a time; failures and crashes, fair.
SPECIFICATION Spec
CONSTANTS
    Null = Null
    Assessments = {a1}
    Controls = {ctrl}
    Patches = {}
    ControlPatches = {}
    Requests = {r1, r2}
    Texts = {""}
    FieldEdits <- MCFieldEdits
    Slides <- MCSlides
    StatusChoices <- MCChoices
INVARIANTS
    TypeOK
    ResultsMatchAnswers
    GapsPrioritised
    ShownIsStored
PROPERTIES
    SerialSavesExact
    PanelSettles
