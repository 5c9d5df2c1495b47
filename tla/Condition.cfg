SPECIFICATION Spec
CONSTANTS
    Chars <- MCChars
    Lower <- MCLower
    Star = "*"
    One = "?"
    Dot = "."
    NewLine = "nl"
    Texts <- MCTexts
    Numbers = {3, 7}
    Numeral <- MCNumeral
    Networks <- MCNetworks
    Addresses <- MCAddresses
    Refused <- MCRefused
    LongPatterns <- MCLongPatterns
    MaxList = 2
    Payloads <- MCPayloads
INVARIANTS TypeOK TextOperatorsAgree CaseNeverMatters NegationsComplement ThresholdsCompareNumbers
CHECK_DEADLOCK FALSE
