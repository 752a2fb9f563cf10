SPECIFICATION Spec
CONSTANTS
    a = a
    b = b
    c = c
    Phones <- MCPhones
    DemoPhone = 1
    Demo = 2
    Amounts = {1, 2}
    Flows <- MCFlows
    MaxCalls = 5
CHECK_DEADLOCK FALSE
SYMMETRY Symmetry
INVARIANTS
    TypeOK
    BooksAgree
    OneAccountPerPhone
    ShowsOwnMoney
    ReportIsTrue
