SPECIFICATION Spec
CONSTANTS
    Numbers <- MCNumbers
    Places <- MCPlaces
    Gaps <- MCGaps
    StrangeTexts <- MCStrangeTexts
    TemplateQueries <- MCTemplateQueries
    Variables = {"agent_name", "first_name", "product_name"}
CHECK_DEADLOCK FALSE
INVARIANTS
    FormsAgree
    NormalizedIsDialable
    StrictRenderExactly
    RepositoryTemplatesValid
