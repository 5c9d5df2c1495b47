------------------------------- MODULE Condition -------------------------------
(***************************************************************************)
(* One condition of a rule, from the request that carries it to the answer *)
(* it gives for a field of an event.  The model validates it               *)
(* (models/rule.py), publishing compiles it to a VRL expression            *)
(* (compiler/compiler.py) whose literals pass through the encoder          *)
(* (compiler/encoder.py), and Vector evaluates the expression.             *)
(*                                                                         *)
(* A text is a sequence over a small alphabet, because "starts with" and   *)
(* glob patterns are about positions; numbers, networks and what the       *)
(* encoder refuses are given as sets.                                      *)
(***************************************************************************)
EXTENDS Integers, Sequences, SequencesExt

CONSTANTS
    Chars,        \* the characters of texts and patterns
    Lower,        \* case folding, a function on Chars
    Star, One,    \* the wildcards * and ?
    Dot,          \* the full stop, which a regular expression reads as One
    NewLine,      \* the character that a full stop does not match
    Texts,        \* the texts a field may hold
    Numbers,      \* the numbers considered
    Numeral,      \* how a number is written, a function from Numbers
    Networks,     \* the texts that are networks
    Addresses,    \* the texts inside each network, a function from Networks
    Refused,      \* the literals encode() refuses: too long, out of range
    LongPatterns, \* the texts too long for a glob pattern
    MaxList,      \* MAX_LIST_LEN
    Payloads      \* the values a condition may come with

VARIABLES
    cond,         \* the condition
    stage,        \* how far it has come
    code,         \* the expression it was compiled to
    field,        \* the value of its field in an event
    answer        \* what the expression gives for that value

vars == <<cond, stage, code, field, answer>>

-----------------------------------------------------------------------------
\* Values.  A text, a number, a truth value, or null for a missing field.

Text(t) == [type |-> "text", text |-> t, number |-> 0]
Number(n) == [type |-> "number", text |-> <<>>, number |-> n]
Bool(b) == [type |-> "bool", text |-> <<>>, number |-> IF b THEN 1 ELSE 0]
Null == [type |-> "null", text |-> <<>>, number |-> 0]

\* What the parsers leave in a field.
Fields == {Text(t) : t \in Texts} \cup {Number(n) : n \in Numbers} \cup {Null}

Value ==
    [type : {"text"}, text : Seq(Chars), number : {0}]
        \cup [type : {"number"}, text : {<<>>}, number : Int]
        \cup [type : {"bool"}, text : {<<>>}, number : {0, 1}]

\* The literal of a threshold, which the encoder writes as a float whatever it
\* was given as; its limit is another than that of an integer.
Float(n) == [type |-> "float", text |-> <<>>, number |-> n]
Floats == [type : {"float"}, text : {<<>>}, number : Int]

\* The value of a condition: none, one, or a list.
Payload == [shape : {"none", "one", "list"}, items : Seq(Value)]

Folded(t) == [i \in DOMAIN t |-> Lower[t[i]]]

ConditionAssumption ==
    /\ {Star, One, Dot, NewLine} \subseteq Chars
    /\ Star # One /\ One # Dot /\ Dot # Star
    /\ Lower \in [Chars -> Chars]
    /\ \A c \in Chars : Lower[c] = Lower[NewLine] => c = NewLine
    /\ Texts \subseteq Seq(Chars)
    /\ Numbers \subseteq Int
    /\ Numeral \in [Numbers -> Texts]
    /\ \A m, n \in Numbers : Numeral[m] = Numeral[n] => m = n
    /\ Networks \subseteq Seq(Chars)
    /\ Addresses \in [Networks -> SUBSET Texts]
    \* Numerals have no letters, and an address is one in either case.
    /\ \A n \in Numbers, t \in Texts :
        Folded(t) = Folded(Numeral[n]) => t = Numeral[n]
    /\ \A n \in Networks : \A s, t \in Texts :
        Folded(s) = Folded(t) => (s \in Addresses[n] <=> t \in Addresses[n])
    /\ MaxList \in Nat
    /\ Payloads \subseteq Payload
    /\ \A p \in Payloads :
        p.shape = "one" => p.items # <<>>

ASSUME ConditionAssumption

NULLARY_OPERATORS == {"exists", "not_exists"}
LIST_OPERATORS == {"in", "not_in"}
NUMERIC_OPERATORS == {"lt", "lte", "gt", "gte"}
PART_OPERATORS == {"contains", "starts_with", "ends_with"}
STRING_OPERATORS == PART_OPERATORS \cup {"glob"}

Operators ==
    {"eq", "ne", "cidr"} \cup NULLARY_OPERATORS \cup LIST_OPERATORS
        \cup NUMERIC_OPERATORS \cup STRING_OPERATORS

Conditions ==
    [operator : Operators, value : Payloads, case_sensitive : BOOLEAN]

Operand(c) == Head(c.value.items)

-----------------------------------------------------------------------------
\* Validation.

\* _check_value_shape.  A threshold may not be a text; that it is a number is
\* not checked.
WellShaped(c) ==
    /\ c.operator \in NULLARY_OPERATORS <=> c.value.shape = "none"
    /\ c.operator \in LIST_OPERATORS <=> c.value.shape = "list"
    /\ c.value.shape = "list" => c.value.items # <<>>
    /\ c.operator \in NUMERIC_OPERATORS => Operand(c).type # "text"
    /\ c.operator \in STRING_OPERATORS => Operand(c).type = "text"
    /\ c.operator = "cidr" =>
        Operand(c).type = "text" /\ Operand(c).text \in Networks
    /\ c.operator = "glob" => Operand(c).text \notin LongPatterns

-----------------------------------------------------------------------------
\* Compilation.  An expression applies a test to a reading of the field, the
\* left side, and the literals on the right; "folds" is the flag or prefix by
\* which contains() and a regular expression ignore case.

Expression(test, left, right) ==
    [test |-> test, left |-> left, right |-> right, folds |-> FALSE,
     regex |-> <<>>]

\* contains() and a regular expression read the field as it is written and
\* ignore case by themselves.
CaseExpression(c, test, right, regex) ==
    [test |-> test, left |-> "text", right |-> right,
     folds |-> ~c.case_sensitive, regex |-> regex]

NoCode == Expression("none", "value", <<>>)

Token == [kind : {"many", "any", "escaped", "bare"}, char : Chars]

Code ==
    [test : {"none", "match"} \cup (Operators \ {"glob"}),
     left : {"value", "text", "folded", "number"},
     right : Seq((Value \cup Floats) \ Refused),
     folds : BOOLEAN, regex : Seq(Token)]

\* Mistake: the compared field keeps its case.
RawOperand(c) == "text"

\* _string_operand
StringOperand(c) == IF c.case_sensitive THEN "text" ELSE "folded"

\* _literal_operand
Literal(c, v) ==
    IF ~c.case_sensitive /\ v.type = "text" THEN Text(Folded(v.text)) ELSE v

\* Mistake: only eq has the branch for texts, ne compares what is there.
EqualityOfEq(c) ==
    IF Operand(c).type = "text" /\ c.operator = "eq"
    THEN Expression(c.operator, StringOperand(c), <<Literal(c, Operand(c))>>)
    ELSE Expression(c.operator, "value", <<Operand(c)>>)

\* A text is compared with the field as a text, anything else with the field
\* as it is.
Equality(c) ==
    IF Operand(c).type = "text"
    THEN Expression(c.operator, StringOperand(c), <<Literal(c, Operand(c))>>)
    ELSE Expression(c.operator, "value", <<Operand(c)>>)

AllTexts(c) ==
    \A i \in DOMAIN c.value.items : c.value.items[i].type = "text"

Membership(c) ==
    LET items == c.value.items
    IN  IF AllTexts(c)
        THEN Expression(c.operator, StringOperand(c),
                        [i \in DOMAIN items |-> Literal(c, items[i])])
        ELSE Expression(c.operator, "value", items)

PartOfText(c) == CaseExpression(c, c.operator, <<Operand(c)>>, <<>>)

\* Mistake: the full stop is not escaped.
TokenDotBare(char) ==
    [kind |-> CASE char = Star -> "many"
                [] char = One  -> "any"
                [] OTHER       -> "bare",
     char |-> char]

\* glob_to_regex for one character; of the others in _REGEX_META the full stop
\* stands for all.
RegexToken(char) ==
    [kind |-> CASE char = Star -> "many"
                [] char = One  -> "any"
                [] char = Dot  -> "escaped"
                [] OTHER       -> "bare",
     char |-> char]

Glob(c) ==
    LET pattern == Operand(c).text
    IN  CaseExpression(c, "match", <<>>,
                       [i \in DOMAIN pattern |-> RegexToken(pattern[i])])

\* compile_condition, for a condition that compiles.
Compiled(c) ==
    CASE c.operator \in {"eq", "ne"}       -> Equality(c)
      [] c.operator \in LIST_OPERATORS     -> Membership(c)
      [] c.operator \in PART_OPERATORS     -> PartOfText(c)
      [] c.operator = "glob"               -> Glob(c)
      [] c.operator = "cidr"               ->
            Expression("cidr", "text", <<Operand(c)>>)
      [] c.operator \in NUMERIC_OPERATORS  ->
            Expression(c.operator, "number", <<Float(Operand(c).number)>>)
      [] c.operator \in NULLARY_OPERATORS  ->
            Expression(c.operator, "value", <<>>)

\* Mistake: the encoder's limits are checked for lists only.
CompilesUnencoded(c) ==
    /\ c.operator \in LIST_OPERATORS /\ ~AllTexts(c) =>
        Len(c.value.items) <= MaxList
    /\ c.operator \in NUMERIC_OPERATORS => Operand(c).type = "number"

\* The encoder takes every literal, a list of mixed types is short enough, and
\* a threshold is a number, which True is not.
Compiles(c) ==
    /\ LET right == Compiled(c).right
       IN  \A i \in DOMAIN right : right[i] \notin Refused
    /\ c.operator \in LIST_OPERATORS /\ ~AllTexts(c) =>
        Len(c.value.items) <= MaxList
    /\ c.operator \in NUMERIC_OPERATORS => Operand(c).type = "number"

-----------------------------------------------------------------------------
\* Evaluation, as the compiler relies on it.

\* to_string(value) ?? ""
TextOf(v) ==
    CASE v.type = "text"   -> v.text
      [] v.type = "number" -> Numeral[v.number]
      [] OTHER             -> <<>>

\* The number a value is read as, if it is: to_float() parses a text and gives
\* 0.0 for null without an error.
ToFloat(v) ==
    {n \in Numbers : v = Number(n) \/ v = Text(Numeral[n])}
        \cup {n \in {0} : v = Null}

\* Mistake: what is not a number counts as zero.
NumbersOrZero(v) == IF ToFloat(v) = {} THEN {0} ELSE ToFloat(v)

\* to_float(value) ?? null: a comparison with that null fails, and is false by
\* its own ??.
NumbersOf(v) == ToFloat(v)

LeftValue(e, v) ==
    CASE e.left = "text"   -> Text(TextOf(v))
      [] e.left = "folded" -> Text(Folded(TextOf(v)))
      [] OTHER             -> v

HasPart(test, text, part) ==
    \/ test = "starts_with" /\ IsPrefix(part, text)
    \/ test = "ends_with" /\ IsSuffix(part, text)
    \/ /\ test = "contains"
       /\ \E i \in 0..Len(text) :
            IsPrefix(part, SubSeq(text, i + 1, Len(text)))

\* A token of a regular expression takes a character.
Takes(token, char, folds) ==
    \/ /\ char # NewLine
       /\ \/ token.kind \in {"many", "any"}
          \/ token.kind = "bare" /\ token.char = Dot
    \/ /\ token.kind \in {"escaped", "bare"}
       /\ IF folds THEN Lower[char] = Lower[token.char] ELSE char = token.char

\* An anchored regular expression matches a text: the tokens take it, piece by
\* piece, and only "many" takes other than one character.
RegexMatches(regex, text, folds) ==
    \E cut \in [0..Len(regex) -> 0..Len(text)] :
        /\ cut[0] = 0 /\ cut[Len(regex)] = Len(text)
        /\ \A i \in DOMAIN regex :
            /\ cut[i - 1] <= cut[i]
            /\ regex[i].kind # "many" => cut[i] = cut[i - 1] + 1
            /\ \A j \in (cut[i - 1] + 1)..cut[i] :
                Takes(regex[i], text[j], folds)

Compares(test, n, k) ==
    \/ test = "lt" /\ n < k
    \/ test = "lte" /\ n <= k
    \/ test = "gt" /\ n > k
    \/ test = "gte" /\ n >= k

InCase(t, folds) == IF folds THEN Folded(t) ELSE t

\* What an expression gives for the value of the field.
Evaluated(e, v) ==
    LET left == LeftValue(e, v)
        right == Head(e.right)
        Listed == \E i \in DOMAIN e.right : e.right[i] = left
    IN  \/ e.test = "exists" /\ v # Null
        \/ e.test = "not_exists" /\ v = Null
        \/ e.test = "eq" /\ left = right
        \/ e.test = "ne" /\ left # right
        \/ e.test = "in" /\ Listed
        \/ e.test = "not_in" /\ ~Listed
        \/ /\ e.test \in PART_OPERATORS
           /\ HasPart(e.test, InCase(left.text, e.folds),
                      InCase(right.text, e.folds))
        \/ e.test = "match" /\ RegexMatches(e.regex, left.text, e.folds)
        \/ e.test = "cidr" /\ left.text \in Addresses[right.text]
        \/ /\ e.test \in NUMERIC_OPERATORS
           /\ \E n \in NumbersOf(v) : Compares(e.test, n, right.number)

-----------------------------------------------------------------------------

Init ==
    /\ cond \in Conditions
    /\ stage = "posted"
    /\ code = NoCode
    /\ field = Null
    /\ answer = FALSE

\* The request that brings the condition is answered 201 or 422.
Validate ==
    /\ stage = "posted"
    /\ stage' = IF WellShaped(cond) THEN "accepted" ELSE "rejected"
    /\ UNCHANGED <<cond, code, field, answer>>

\* A publish compiles it, ...
Compile ==
    /\ stage = "accepted" /\ Compiles(cond)
    /\ stage' = "compiled"
    /\ code' = Compiled(cond)
    /\ UNCHANGED <<cond, field, answer>>

\* ... or fails with a CompileError, an EncodeError or, for a threshold that is
\* too large for float(), an OverflowError: the publish stores nothing.
CompileFails ==
    /\ stage = "accepted" /\ ~Compiles(cond)
    /\ stage' = "failed"
    /\ UNCHANGED <<cond, code, field, answer>>

\* An event comes whose field has the value v.
Evaluate(v) ==
    /\ stage = "compiled"
    /\ stage' = "answered"
    /\ field' = v
    /\ answer' = Evaluated(code, v)
    /\ UNCHANGED <<cond, code>>

Next ==
    \/ Validate
    \/ Compile
    \/ CompileFails
    \/ \E v \in Fields : Evaluate(v)

Spec == Init /\ [][Next]_vars

-----------------------------------------------------------------------------

\* Every variable has its type.
TypeOK ==
    /\ cond \in Conditions
    /\ stage \in {"posted", "accepted", "rejected", "compiled", "failed",
                  "answered"}
    /\ code \in Code
    /\ field \in Fields
    /\ answer \in BOOLEAN

\* What the text operators mean, without a compiler: D-06 of the decision
\* register, with D-07 for case.
SameChar(c, a, b) ==
    IF c.case_sensitive THEN a = b ELSE Lower[a] = Lower[b]

SameText(c, s, t) ==
    Len(s) = Len(t) /\ \A i \in DOMAIN s : SameChar(c, s[i], t[i])

\* The text can be cut into one piece for each character of the pattern.
Fits(c, pattern, text) ==
    \E cut \in [0..Len(pattern) -> 0..Len(text)] :
        /\ cut[0] = 0 /\ cut[Len(pattern)] = Len(text)
        /\ \A i \in DOMAIN pattern :
            /\ cut[i - 1] <= cut[i]
            /\ pattern[i] # Star =>
                /\ cut[i] = cut[i - 1] + 1
                /\ pattern[i] # One => SameChar(c, pattern[i], text[cut[i]])

Means(c, text) ==
    LET x == Operand(c).text
        Piece(i) == SubSeq(text, i + 1, i + Len(x))
        items == c.value.items
    IN  \/ c.operator = "eq" /\ SameText(c, text, x)
        \/ c.operator = "ne" /\ ~SameText(c, text, x)
        \/ /\ c.operator = "in"
           /\ \E i \in DOMAIN items : SameText(c, text, items[i].text)
        \/ /\ c.operator = "not_in"
           /\ \A i \in DOMAIN items : ~SameText(c, text, items[i].text)
        \/ /\ c.operator = "contains"
           /\ \E i \in 0..(Len(text) - Len(x)) : SameText(c, Piece(i), x)
        \/ /\ c.operator = "starts_with"
           /\ Len(x) <= Len(text) /\ SameText(c, Piece(0), x)
        \/ /\ c.operator = "ends_with"
           /\ Len(x) <= Len(text)
           /\ SameText(c, Piece(Len(text) - Len(x)), x)
        \/ c.operator = "glob" /\ Fits(c, x, text)

\* The compiled program gives for a text what the operator means, whichever of
\* the compiler, the encoder and Vector folds the case and however the pattern
\* is escaped.  A glob does not match across lines, since a full stop does not.
TextOperatorsAgree ==
    /\ stage = "answered" /\ AllTexts(cond)
    /\ cond.operator \in
            {"eq", "ne"} \cup LIST_OPERATORS \cup STRING_OPERATORS
    /\ cond.operator = "glob" => NewLine \notin Range(TextOf(field))
    => answer = Means(cond, TextOf(field))

\* "Ignore case by default for strings" (D-07 in ai_artifacts/decisions.md): a
\* condition that is not case sensitive answers alike for texts that differ
\* only in case.
CaseIgnored ==
    stage = "answered" /\ ~cond.case_sensitive =>
        \A v \in Fields :
            /\ v.type = "text" /\ field.type = "text"
            /\ Folded(v.text) = Folded(field.text)
            => Evaluated(code, v) = answer

MixedList(c) == c.operator \in LIST_OPERATORS /\ ~AllTexts(c)

\* So it does, for every operator and value but a list that is not all texts,
\* which compile_condition compares as it stands.
CaseNeverMatters == ~MixedList(cond) => CaseIgnored

Opposite ==
    [ eq |-> "ne", ne |-> "eq", in |-> "not_in", not_in |-> "in",
      exists |-> "not_exists", not_exists |-> "exists",
      lt |-> "gte", gte |-> "lt", lte |-> "gt", gt |-> "lte" ]

OppositeAnswer ==
    Evaluated(Compiled([cond EXCEPT !.operator = Opposite[cond.operator]]),
              field)

\* An operator and its negation never agree, for any value and also when the
\* field is missing: no event slips past both "in" and "not in".
NegationsComplement ==
    /\ stage = "answered"
    /\ cond.operator \in
            {"eq", "ne"} \cup LIST_OPERATORS \cup NULLARY_OPERATORS
    => answer = ~OppositeAnswer

Numeric == {Number(n) : n \in Numbers} \cup {Text(Numeral[n]) : n \in Numbers}

\* A number is on one side of every threshold and not on the other, and "7" is
\* where 7 is (compiler.py:141); a text that is no number satisfies none,
\* whichever of the two ?? of the expression catches the failure.  A missing
\* field is where 0 is.
ThresholdsCompareNumbers ==
    stage = "answered" /\ cond.operator \in NUMERIC_OPERATORS =>
        IF field \in Numeric \cup {Null}
        THEN /\ answer = ~OppositeAnswer
             /\ \A n \in Numbers :
                    field = Text(Numeral[n]) =>
                        answer = Evaluated(code, Number(n))
             /\ field = Null =>
                    answer = Compares(cond.operator, 0, Operand(cond).number)
        ELSE ~answer

\* "A missing or non-numeric field must never satisfy a threshold rule"
\* (tests/test_golden_path.py:39).
ThresholdsNeedNumbers ==
    /\ stage = "answered" /\ cond.operator \in NUMERIC_OPERATORS /\ answer
    => field \in Numeric
=============================================================================
