SPECIFICATION TreeSpec
CONSTANTS
    Values = {1, 2, 3}
    MaxSize = 4
    MaxBalance = 2
INVARIANTS
    TreeTypeOK
    LinksAgree
    SearchOrder
    LookupsFindTheirValue
    HeadersStayWithValues
PROPERTIES
    TreeIsABag
\* Nothing is followed once a subtree has been cut off.
CHECK_DEADLOCK FALSE
