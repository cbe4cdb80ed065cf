\* Lists, exact match maps and nested matchers over one input that arrives in
\* parts and one that arrives whole.
CONSTANTS
    Inputs = {"foo", "bar"}
    Values = {"f", "fo", "x"}
    NoData = "nil"
    Grows <- MCGrows
    Growing = {"foo"}
    InputExtensions = {"foo", "bar"}
    ActionExtensions = {"A", "B", "C", "D"}
    Configs <- MCConfigs
SPECIFICATION Spec
INVARIANTS TypeOK FinalResult Conclusive
CHECK_DEADLOCK FALSE
