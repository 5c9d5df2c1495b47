---------------------------- MODULE ConditionProofs ----------------------------
(***************************************************************************)
(* What Condition guarantees for every alphabet, every text and every      *)
(* value a condition may come with.                                        *)
(***************************************************************************)
EXTENDS Condition, TLAPS

\* A condition on its way: the expression of an accepted condition is the one
\* compile_condition gives, and an answer is what the expression gives.
IInv ==
    /\ TypeOK
    /\ stage \in {"accepted", "compiled", "failed", "answered"} =>
        WellShaped(cond)
    /\ stage \in {"compiled", "answered"} =>
        Compiles(cond) /\ code = Compiled(cond)
    /\ stage = "answered" => answer = Evaluated(code, field)

-----------------------------------------------------------------------------
\* Texts and values.

\* Folding a text gives a text of the same length.
LEMMA FoldedText ==
    ASSUME NEW t \in Seq(Chars)
    PROVE  /\ Folded(t) \in Seq(Chars)
           /\ Len(Folded(t)) = Len(t)
           /\ \A i \in 1..Len(t) : Folded(t)[i] = Lower[t[i]]
BY ConditionAssumption DEF ConditionAssumption, Folded

\* The literal of a value is a value.
LEMMA LiteralValue ==
    ASSUME NEW c \in Conditions, NEW v \in Value
    PROVE  Literal(c, v) \in Value
<1>1. CASE v.type = "text" /\ ~c.case_sensitive
    <2>1. v.text \in Seq(Chars)
        BY <1>1 DEF Value
    <2>. QED  BY <1>1, <2>1, FoldedText DEF Literal, Text, Value
<1>. QED  BY <1>1 DEF Literal

\* Of a condition that is well shaped, what the compiler looks at.
LEMMA Shapes ==
    ASSUME NEW c \in Conditions, WellShaped(c)
    PROVE  /\ c.value.items \in Seq(Value)
           /\ c.operator \in Operators
           /\ c.case_sensitive \in BOOLEAN
           /\ c.operator \notin NULLARY_OPERATORS =>
                c.value.items # <<>> /\ Operand(c) \in Value
           /\ c.operator \in STRING_OPERATORS =>
                Operand(c).type = "text" /\ Operand(c).text \in Seq(Chars)
<1>1. c.value \in Payload /\ c.value \in Payloads
    BY ConditionAssumption DEF ConditionAssumption, Conditions
<1>2. c.operator \notin NULLARY_OPERATORS => c.value.items # <<>>
    <2>1. SUFFICES ASSUME c.operator \notin NULLARY_OPERATORS
                   PROVE  c.value.items # <<>>
        OBVIOUS
    <2>2. c.value.shape \in {"one", "list"}
        BY <1>1, <2>1 DEF WellShaped, Payload
    <2>3. CASE c.value.shape = "one"
        BY <1>1, <2>3, ConditionAssumption DEF ConditionAssumption
    <2>4. CASE c.value.shape = "list"
        BY <2>4 DEF WellShaped
    <2>. QED  BY <2>2, <2>3, <2>4
<1>3. c.operator \notin NULLARY_OPERATORS => Operand(c) \in Value
    BY <1>1, <1>2 DEF Operand, Payload
<1>4. c.operator \in STRING_OPERATORS => c.operator \notin NULLARY_OPERATORS
    BY DEF STRING_OPERATORS, PART_OPERATORS, NULLARY_OPERATORS
<1>. QED  BY <1>1, <1>2, <1>3, <1>4 DEF WellShaped, Payload, Conditions, Value

\* What a field holds as a text is one of the texts, or nothing.
LEMMA FieldText ==
    ASSUME NEW v \in Fields
    PROVE  TextOf(v) \in Seq(Chars)
BY ConditionAssumption
   DEF ConditionAssumption, Fields, TextOf, Text, Number, Null

-----------------------------------------------------------------------------
\* The expression of each family of operators.
LEMMA Families ==
    ASSUME NEW c \in Conditions, c.operator \in Operators
    PROVE  /\ c.operator \in {"eq", "ne"} => Compiled(c) = Equality(c)
           /\ c.operator \in LIST_OPERATORS => Compiled(c) = Membership(c)
           /\ c.operator \in PART_OPERATORS => Compiled(c) = PartOfText(c)
           /\ c.operator = "glob" => Compiled(c) = Glob(c)
           /\ c.operator = "cidr" =>
                Compiled(c) = Expression("cidr", "text", <<Operand(c)>>)
           /\ c.operator \in NUMERIC_OPERATORS =>
                Compiled(c) = Expression(c.operator, "number",
                                         <<Float(Operand(c).number)>>)
           /\ c.operator \in NULLARY_OPERATORS =>
                Compiled(c) = Expression(c.operator, "value", <<>>)
BY DEF Compiled, LIST_OPERATORS, PART_OPERATORS, NUMERIC_OPERATORS,
       NULLARY_OPERATORS

\* An expression whose parts have their types, and whose literals the encoder
\* takes, is well typed.
LEMMA CodeParts ==
    ASSUME NEW e, NEW c \in Conditions, c.case_sensitive \in BOOLEAN,
           NEW test \in (Operators \ {"glob"}) \cup {"match"},
           NEW left \in {"value", "text", "folded", "number"},
           NEW right \in Seq(Value \cup Floats), NEW regex \in Seq(Token),
           \A i \in DOMAIN e.right : e.right[i] \notin Refused,
           \/ e = Expression(test, left, right)
           \/ e = CaseExpression(c, test, right, regex)
    PROVE  e \in Code
<1>1. e.right = right
    BY DEF Expression, CaseExpression
<1>2. right \in Seq((Value \cup Floats) \ Refused)
    BY <1>1
<1>3. <<>> \in Seq(Token)
    OBVIOUS
<1>4. CASE e = Expression(test, left, right)
    <2>1. e = [test |-> test, left |-> left, right |-> right, folds |-> FALSE,
               regex |-> <<>>]
        BY <1>4 DEF Expression
    <2>. QED  BY <1>2, <1>3, <2>1 DEF Code
<1>5. CASE e = CaseExpression(c, test, right, regex)
    <2>1. (~c.case_sensitive) \in BOOLEAN
        OBVIOUS
    <2>2. e = [test |-> test, left |-> "text", right |-> right,
               folds |-> ~c.case_sensitive, regex |-> regex]
        BY <1>5 DEF CaseExpression
    <2>. QED  BY <1>2, <2>1, <2>2 DEF Code
<1>. QED  BY <1>4, <1>5

\* Compiling gives an expression with literals that the encoder takes.
LEMMA CodeTyped ==
    ASSUME NEW c \in Conditions, WellShaped(c), Compiles(c)
    PROVE  Compiled(c) \in Code
<1>. DEFINE items == c.value.items
            e == Compiled(c)
            Literals == Value \cup Floats
<1>1. /\ items \in Seq(Value) /\ c.operator \in Operators
      /\ c.case_sensitive \in BOOLEAN
      /\ c.operator \notin NULLARY_OPERATORS => Operand(c) \in Value
    BY Shapes
<1>2. \A i \in DOMAIN e.right : e.right[i] \notin Refused
    BY DEF Compiles
<1>3. <<>> \in Seq(Literals) /\ <<>> \in Seq(Token)
    OBVIOUS
<1>4. CASE c.operator \in {"eq", "ne"}
    <2>1. Operand(c) \in Value /\ Literal(c, Operand(c)) \in Value
        BY <1>1, <1>4, LiteralValue DEF NULLARY_OPERATORS
    <2>2. /\ <<Operand(c)>> \in Seq(Literals)
          /\ <<Literal(c, Operand(c))>> \in Seq(Literals)
        BY <2>1
    <2>3. e = Equality(c)
        BY <1>1, <1>4, Families
    <2>4. c.operator \in (Operators \ {"glob"}) \cup {"match"}
        BY <1>1, <1>4
    <2>. QED  BY <1>1, <1>2, <1>3, <2>2, <2>3, <2>4, CodeParts
              DEF Equality, StringOperand
<1>5. CASE c.operator \in LIST_OPERATORS
    <2>1. \A i \in DOMAIN items : Literal(c, items[i]) \in Value
        BY <1>1, LiteralValue
    <2>2. /\ items \in Seq(Literals)
          /\ [i \in DOMAIN items |-> Literal(c, items[i])] \in Seq(Literals)
        BY <1>1, <2>1
    <2>3. e = Membership(c)
        BY <1>1, <1>5, Families
    <2>4. c.operator \in (Operators \ {"glob"}) \cup {"match"}
        BY <1>1, <1>5 DEF LIST_OPERATORS
    <2>. QED  BY <1>1, <1>2, <1>3, <2>2, <2>3, <2>4, CodeParts
              DEF Membership, StringOperand
<1>6. CASE c.operator \in PART_OPERATORS
    <2>1. <<Operand(c)>> \in Seq(Literals)
        BY <1>1, <1>6 DEF NULLARY_OPERATORS, PART_OPERATORS
    <2>2. e = PartOfText(c)
        BY <1>1, <1>6, Families
    <2>3. c.operator \in (Operators \ {"glob"}) \cup {"match"}
        BY <1>1, <1>6 DEF PART_OPERATORS
    <2>. QED  BY <1>1, <1>2, <1>3, <2>1, <2>2, <2>3, CodeParts
              DEF PartOfText
<1>7. CASE c.operator = "glob"
    <2>. DEFINE pattern == Operand(c).text
    <2>1. pattern \in Seq(Chars)
        BY <1>7, Shapes DEF STRING_OPERATORS
    <2>2. \A i \in DOMAIN pattern : RegexToken(pattern[i]) \in Token
        BY <2>1 DEF RegexToken, Token
    <2>3. [i \in DOMAIN pattern |-> RegexToken(pattern[i])] \in Seq(Token)
        BY <2>1, <2>2
    <2>4. e = Glob(c)
        BY <1>1, <1>7, Families
    <2>. QED  BY <1>1, <1>2, <1>3, <2>3, <2>4, CodeParts DEF Glob
<1>8. CASE c.operator \in {"cidr"} \cup NUMERIC_OPERATORS
    <2>1. Operand(c) \in Value
        BY <1>1, <1>8 DEF NULLARY_OPERATORS, NUMERIC_OPERATORS
    <2>2. Float(Operand(c).number) \in Floats
        BY <2>1 DEF Value, Float, Floats
    <2>3. /\ <<Operand(c)>> \in Seq(Literals)
          /\ <<Float(Operand(c).number)>> \in Seq(Literals)
        BY <2>1, <2>2
    <2>4. c.operator \in (Operators \ {"glob"}) \cup {"match"}
        BY <1>1, <1>8 DEF NUMERIC_OPERATORS
    <2>5. \/ e = Expression(c.operator, "text", <<Operand(c)>>)
          \/ e = Expression(c.operator, "number",
                            <<Float(Operand(c).number)>>)
        BY <1>1, <1>8, Families
    <2>. QED  BY <1>1, <1>2, <1>3, <2>3, <2>4, <2>5, CodeParts
<1>9. CASE c.operator \in NULLARY_OPERATORS
    <2>1. c.operator \in (Operators \ {"glob"}) \cup {"match"}
        BY <1>1, <1>9 DEF NULLARY_OPERATORS
    <2>2. e = Expression(c.operator, "value", <<>>)
        BY <1>1, <1>9, Families
    <2>. QED  BY <1>1, <1>2, <1>3, <2>1, <2>2, CodeParts
<1>. QED  BY <1>1, <1>4, <1>5, <1>6, <1>7, <1>8, <1>9
          DEF Operators, STRING_OPERATORS

\* An expression answers yes or no.
LEMMA AnswerIsBoolean ==
    ASSUME NEW e, NEW v
    PROVE  Evaluated(e, v) \in BOOLEAN
BY DEF Evaluated

-----------------------------------------------------------------------------
\* The steps.

\* Every step keeps the invariant.
THEOREM Inductive == Spec => []IInv
<1>1. Init => IInv
    <2>. SUFFICES ASSUME Init PROVE IInv
        OBVIOUS
    <2>1. NoCode \in Code
        <3>. <<>> \in Seq((Value \cup Floats) \ Refused) /\ <<>> \in Seq(Token)
            OBVIOUS
        <3>. QED  BY DEF NoCode, Expression, Code
    <2>. QED  BY <2>1 DEF Init, IInv, TypeOK, Fields
<1>2. IInv /\ [Next]_vars => IInv'
    <2>. SUFFICES ASSUME IInv, [Next]_vars
                  PROVE  IInv'
        OBVIOUS
    <2>. USE DEF IInv, TypeOK
    <2>1. CASE Validate
        BY <2>1 DEF Validate
    <2>2. CASE Compile
        <3>1. Compiled(cond) \in Code
            BY <2>2, CodeTyped DEF Compile
        <3>. QED  BY <2>2, <3>1 DEF Compile
    <2>3. CASE CompileFails
        BY <2>3 DEF CompileFails
    <2>4. ASSUME NEW v \in Fields, Evaluate(v)
          PROVE  IInv'
        <3>1. Evaluated(code, v) \in BOOLEAN
            BY AnswerIsBoolean
        <3>. QED  BY <2>4, <3>1 DEF Evaluate
    <2>5. CASE UNCHANGED vars
        BY <2>5 DEF vars
    <2>. QED  BY <2>1, <2>2, <2>3, <2>4, <2>5 DEF Next
<1>. QED  BY <1>1, <1>2, PTL DEF Spec

\* Whatever a condition comes with, what is compiled of it has its type.
THEOREM TypeCorrect == Spec => []TypeOK
<1>1. IInv => TypeOK
    BY DEF IInv
<1>. QED  BY <1>1, Inductive, PTL

-----------------------------------------------------------------------------
\* Negations and thresholds.

\* The other condition: the opposite operator, the same value.
OppositeOf(c) == [c EXCEPT !.operator = Opposite[c.operator]]

LEMMA OppositeFields ==
    ASSUME NEW c \in Conditions, c.operator \in DOMAIN Opposite
    PROVE  /\ OppositeOf(c) \in Conditions
           /\ OppositeOf(c).operator = Opposite[c.operator]
           /\ OppositeOf(c).value = c.value
           /\ OppositeOf(c).case_sensitive = c.case_sensitive
<1>1. Opposite[c.operator] \in Operators
    BY DEF Opposite, Operators, NULLARY_OPERATORS, LIST_OPERATORS,
           NUMERIC_OPERATORS
<1>. QED  BY <1>1 DEF OppositeOf, Conditions

\* What an expression with a given test asks.
LEMMA Asks ==
    ASSUME NEW e, NEW v
    PROVE  /\ e.test = "exists" => (Evaluated(e, v) <=> v # Null)
           /\ e.test = "not_exists" => (Evaluated(e, v) <=> v = Null)
           /\ e.test = "eq" =>
                (Evaluated(e, v) <=> LeftValue(e, v) = Head(e.right))
           /\ e.test = "ne" =>
                (Evaluated(e, v) <=> LeftValue(e, v) # Head(e.right))
           /\ e.test = "in" =>
                (Evaluated(e, v) <=>
                    \E i \in DOMAIN e.right : e.right[i] = LeftValue(e, v))
           /\ e.test = "not_in" =>
                (Evaluated(e, v) <=>
                    \A i \in DOMAIN e.right : e.right[i] # LeftValue(e, v))
           /\ e.test \in NUMERIC_OPERATORS =>
                (Evaluated(e, v) <=>
                    \E n \in NumbersOf(v) :
                        Compares(e.test, n, Head(e.right).number))
BY DEF Evaluated, PART_OPERATORS, NUMERIC_OPERATORS

\* The test alone makes the difference between two expressions.
LEMMA OppositeTests ==
    ASSUME NEW a, NEW b, NEW v, a.left = b.left, a.right = b.right,
           \/ a.test = "eq" /\ b.test = "ne"
           \/ a.test = "in" /\ b.test = "not_in"
           \/ a.test = "exists" /\ b.test = "not_exists"
    PROVE  Evaluated(a, v) = ~Evaluated(b, v)
<1>1. LeftValue(a, v) = LeftValue(b, v)
    BY DEF LeftValue
<1>2. Evaluated(a, v) <=> ~Evaluated(b, v)
    BY <1>1, Asks
<1>. QED  BY <1>2, AnswerIsBoolean

\* "in" and "not_in", "eq" and "ne", "exists" and "not_exists" always differ.
LEMMA OppositesDiffer ==
    ASSUME NEW c \in Conditions, NEW v,
           c.operator \in
                {"eq", "ne"} \cup LIST_OPERATORS \cup NULLARY_OPERATORS
    PROVE  Evaluated(Compiled(c), v) = ~Evaluated(Compiled(OppositeOf(c)), v)
<1>. DEFINE d == OppositeOf(c)
<1>1. /\ d \in Conditions /\ d.operator = Opposite[c.operator]
      /\ d.value = c.value /\ d.case_sensitive = c.case_sensitive
    BY OppositeFields DEF Opposite, LIST_OPERATORS, NULLARY_OPERATORS
<1>2. c.operator \in Operators /\ d.operator \in Operators
    BY <1>1 DEF Conditions
<1>3. PICK left, right :
        /\ Compiled(c) = Expression(c.operator, left, right)
        /\ Compiled(d) = Expression(d.operator, left, right)
    <2>1. CASE c.operator \in {"eq", "ne"}
        <3>1. d.operator \in {"eq", "ne"}
            BY <1>1, <2>1 DEF Opposite
        <3>2. Compiled(c) = Equality(c) /\ Compiled(d) = Equality(d)
            BY <1>1, <1>2, <2>1, <3>1, Families
        <3>. QED  BY <1>1, <3>2 DEF Equality, StringOperand, Literal, Operand
    <2>2. CASE c.operator \in LIST_OPERATORS
        <3>1. d.operator \in LIST_OPERATORS
            BY <1>1, <2>2 DEF Opposite, LIST_OPERATORS
        <3>2. Compiled(c) = Membership(c) /\ Compiled(d) = Membership(d)
            BY <1>1, <1>2, <2>2, <3>1, Families
        <3>3. \A w : Literal(d, w) = Literal(c, w)
            BY <1>1 DEF Literal
        <3>. QED  BY <1>1, <3>2, <3>3
                  DEF Membership, StringOperand, AllTexts
    <2>3. CASE c.operator \in NULLARY_OPERATORS
        <3>1. d.operator \in NULLARY_OPERATORS
            BY <1>1, <2>3 DEF Opposite, NULLARY_OPERATORS
        <3>. QED  BY <1>1, <1>2, <2>3, <3>1, Families
    <2>. QED  BY <2>1, <2>2, <2>3
<1>4. \/ c.operator = "eq" /\ d.operator = "ne"
      \/ c.operator = "ne" /\ d.operator = "eq"
      \/ c.operator = "in" /\ d.operator = "not_in"
      \/ c.operator = "not_in" /\ d.operator = "in"
      \/ c.operator = "exists" /\ d.operator = "not_exists"
      \/ c.operator = "not_exists" /\ d.operator = "exists"
    BY <1>1 DEF Opposite, LIST_OPERATORS, NULLARY_OPERATORS
<1>5. /\ Evaluated(Compiled(c), v) \in BOOLEAN
      /\ Evaluated(Compiled(d), v) \in BOOLEAN
    BY AnswerIsBoolean
<1>6. /\ Compiled(c).left = Compiled(d).left
      /\ Compiled(c).right = Compiled(d).right
      /\ Compiled(c).test = c.operator /\ Compiled(d).test = d.operator
    BY <1>3 DEF Expression
<1>7. \/ Evaluated(Compiled(c), v) = ~Evaluated(Compiled(d), v)
      \/ Evaluated(Compiled(d), v) = ~Evaluated(Compiled(c), v)
    BY <1>4, <1>6, OppositeTests
<1>. QED  BY <1>5, <1>7

\* No value, and no missing field, slips past an operator and its negation.
THEOREM Negations == Spec => []NegationsComplement
<1>1. IInv => NegationsComplement
    BY OppositesDiffer
       DEF IInv, TypeOK, NegationsComplement, OppositeAnswer, OppositeOf
<1>. QED  BY <1>1, Inductive, PTL

\* A number is on one side of a threshold or on the other.
LEMMA OneSide ==
    ASSUME NEW c \in Conditions, c.operator \in NUMERIC_OPERATORS,
           NEW n \in Int, NEW k \in Int
    PROVE  Compares(c.operator, n, k) <=> ~Compares(Opposite[c.operator], n, k)
BY DEF Compares, Opposite, NUMERIC_OPERATORS

\* A value is read as one number at most: a missing field as 0, a text that is
\* no numeral as none.
LEMMA OneNumber ==
    ASSUME NEW v, NEW m \in NumbersOf(v), NEW n \in NumbersOf(v)
    PROVE  m = n /\ n \in Int
<1>1. Numbers \subseteq Int
      /\ \A j, k \in Numbers : Numeral[j] = Numeral[k] => j = k
    BY ConditionAssumption DEF ConditionAssumption
<1>2. CASE v = Null
    <2>1. m = 0 /\ n = 0
        BY <1>2 DEF NumbersOf, ToFloat, Number, Text, Null
    <2>. QED  BY <2>1
<1>3. CASE v # Null
    <2>1. /\ m \in Numbers /\ (v = Number(m) \/ v = Text(Numeral[m]))
          /\ n \in Numbers /\ (v = Number(n) \/ v = Text(Numeral[n]))
        BY <1>3 DEF NumbersOf, ToFloat
    <2>. QED  BY <1>1, <2>1 DEF Number, Text
<1>. QED  BY <1>2, <1>3

LEMMA MissingIsZero == NumbersOf(Null) = {0}
BY DEF NumbersOf, ToFloat, Number, Text, Null

\* Of an accepted threshold, the answer and that of the opposite.
LEMMA ThresholdAnswers ==
    ASSUME NEW c \in Conditions, c.operator \in NUMERIC_OPERATORS,
           WellShaped(c), NEW v
    PROVE  /\ Operand(c).number \in Int
           /\ Evaluated(Compiled(c), v) <=>
                \E n \in NumbersOf(v) :
                    Compares(c.operator, n, Operand(c).number)
           /\ Evaluated(Compiled(OppositeOf(c)), v) <=>
                \E n \in NumbersOf(v) :
                    Compares(Opposite[c.operator], n, Operand(c).number)
<1>. DEFINE d == OppositeOf(c)
<1>1. /\ d \in Conditions /\ d.operator = Opposite[c.operator]
      /\ d.value = c.value
    BY OppositeFields DEF Opposite, NUMERIC_OPERATORS
<1>2. c.operator \in Operators /\ d.operator \in Operators
    BY <1>1 DEF Conditions
<1>3. d.operator \in NUMERIC_OPERATORS
    BY <1>1 DEF Opposite, NUMERIC_OPERATORS
<1>4. /\ Compiled(c) = Expression(c.operator, "number",
                                  <<Float(Operand(c).number)>>)
      /\ Compiled(d) = Expression(d.operator, "number",
                                  <<Float(Operand(c).number)>>)
    BY <1>1, <1>2, <1>3, Families DEF Operand
<1>5. /\ Compiled(c).test = c.operator /\ Compiled(d).test = d.operator
      /\ Head(Compiled(c).right).number = Operand(c).number
      /\ Head(Compiled(d).right).number = Operand(c).number
    BY <1>4 DEF Expression, Float
<1>6. c.operator \notin NULLARY_OPERATORS
    BY DEF NULLARY_OPERATORS, NUMERIC_OPERATORS
<1>7. Operand(c).number \in Int
    BY <1>6, Shapes DEF Value
<1>. QED  BY <1>1, <1>3, <1>5, <1>7, Asks

\* A number is on one side of a threshold, in digits or not; a missing field is
\* where 0 is, and any other text satisfies no threshold.
THEOREM Thresholds == Spec => []ThresholdsCompareNumbers
<1>1. IInv => ThresholdsCompareNumbers
    <2>. SUFFICES ASSUME IInv, stage = "answered",
                         cond.operator \in NUMERIC_OPERATORS
                  PROVE  IF field \in Numeric \cup {Null}
                         THEN /\ answer = ~OppositeAnswer
                              /\ \A n \in Numbers :
                                    field = Text(Numeral[n]) =>
                                        answer = Evaluated(code, Number(n))
                              /\ field = Null =>
                                    answer = Compares(cond.operator, 0,
                                                      Operand(cond).number)
                         ELSE ~answer
        BY DEF ThresholdsCompareNumbers
    <2>. DEFINE k == Operand(cond).number
    <2>1. /\ cond \in Conditions /\ WellShaped(cond)
          /\ code = Compiled(cond)
          /\ answer = Evaluated(Compiled(cond), field)
        BY DEF IInv, TypeOK
    <2>2. /\ k \in Int
          /\ answer <=>
                \E n \in NumbersOf(field) : Compares(cond.operator, n, k)
          /\ OppositeAnswer <=>
                \E n \in NumbersOf(field) :
                    Compares(Opposite[cond.operator], n, k)
        BY <2>1, ThresholdAnswers DEF OppositeAnswer, OppositeOf
    <2>3. CASE field \in Numeric \cup {Null}
        <3>1. PICK n : n \in NumbersOf(field)
            BY <2>3 DEF Numeric, NumbersOf, ToFloat
        <3>2. n \in Int /\ \A m \in NumbersOf(field) : m = n
            BY <3>1, OneNumber
        <3>3. /\ answer <=> Compares(cond.operator, n, k)
              /\ OppositeAnswer <=> Compares(Opposite[cond.operator], n, k)
            BY <2>2, <3>1, <3>2
        <3>4. answer <=> ~OppositeAnswer
            BY <2>1, <2>2, <3>2, <3>3, OneSide
        <3>5. answer \in BOOLEAN /\ OppositeAnswer \in BOOLEAN
            BY <2>1, AnswerIsBoolean DEF OppositeAnswer
        <3>6. ASSUME NEW j \in Numbers, field = Text(Numeral[j])
              PROVE  answer = Evaluated(code, Number(j))
            <4>1. j \in NumbersOf(field) /\ j \in NumbersOf(Number(j))
                BY <3>6 DEF NumbersOf, ToFloat
            <4>2. j = n /\ \A m \in NumbersOf(Number(j)) : m = j
                BY <3>2, <4>1, OneNumber
            <4>3. Evaluated(code, Number(j)) <=>
                      \E m \in NumbersOf(Number(j)) :
                          Compares(cond.operator, m, k)
                BY <2>1, ThresholdAnswers
            <4>4. Evaluated(code, Number(j)) <=> Compares(cond.operator, j, k)
                BY <4>1, <4>2, <4>3
            <4>5. Evaluated(code, Number(j)) \in BOOLEAN
                BY AnswerIsBoolean
            <4>. QED  BY <3>3, <3>5, <4>2, <4>4, <4>5
        <3>7. ASSUME field = Null
              PROVE  answer = Compares(cond.operator, 0, k)
            <4>1. n = 0
                BY <3>1, <3>7, MissingIsZero
            <4>2. Compares(cond.operator, 0, k) \in BOOLEAN
                BY DEF Compares
            <4>. QED  BY <3>3, <3>5, <4>1, <4>2
        <3>. QED  BY <2>3, <3>4, <3>5, <3>6, <3>7
    <2>4. CASE field \notin Numeric \cup {Null}
        <3>1. NumbersOf(field) = {}
            BY <2>4 DEF Numeric, NumbersOf, ToFloat
        <3>. QED  BY <2>2, <2>4, <3>1
    <2>. QED  BY <2>3, <2>4
<1>. QED  BY <1>1, Inductive, PTL

-----------------------------------------------------------------------------
\* Case.

\* Texts that differ only in case have the same length, and a regular
\* expression that ignores case takes their characters alike.
LEMMA SameFold ==
    ASSUME NEW s \in Seq(Chars), NEW t \in Seq(Chars), Folded(s) = Folded(t)
    PROVE  /\ Len(s) = Len(t)
           /\ \A token : \A i \in 1..Len(s) :
                Takes(token, s[i], TRUE) <=> Takes(token, t[i], TRUE)
<1>1. Len(s) = Len(t) /\ \A i \in 1..Len(s) : Lower[s[i]] = Lower[t[i]]
    BY FoldedText
<1>2. ASSUME NEW token, NEW i \in 1..Len(s)
      PROVE  Takes(token, s[i], TRUE) <=> Takes(token, t[i], TRUE)
    <2>1. s[i] \in Chars /\ t[i] \in Chars /\ Lower[s[i]] = Lower[t[i]]
        BY <1>1
    <2>2. s[i] = NewLine <=> t[i] = NewLine
        BY <2>1, ConditionAssumption DEF ConditionAssumption
    <2>. QED  BY <2>1, <2>2 DEF Takes
<1>. QED  BY <1>1, <1>2

\* So it matches both or none.
LEMMA SameMatch ==
    ASSUME NEW s \in Seq(Chars), NEW t \in Seq(Chars), Folded(s) = Folded(t),
           NEW regex \in Seq(Token), RegexMatches(regex, s, TRUE)
    PROVE  RegexMatches(regex, t, TRUE)
<1>1. /\ Len(s) = Len(t)
      /\ \A token : \A i \in 1..Len(s) :
            Takes(token, s[i], TRUE) <=> Takes(token, t[i], TRUE)
    BY SameFold
<1>2. PICK cut \in [0..Len(regex) -> 0..Len(s)] :
        /\ cut[0] = 0 /\ cut[Len(regex)] = Len(s)
        /\ \A i \in DOMAIN regex :
            /\ cut[i - 1] <= cut[i]
            /\ regex[i].kind # "many" => cut[i] = cut[i - 1] + 1
            /\ \A j \in (cut[i - 1] + 1)..cut[i] :
                Takes(regex[i], s[j], TRUE)
    BY DEF RegexMatches
<1>3. ASSUME NEW i \in DOMAIN regex, NEW j \in (cut[i - 1] + 1)..cut[i]
      PROVE  Takes(regex[i], t[j], TRUE)
    <2>1. i \in 1..Len(regex) /\ Len(regex) \in Nat /\ Len(s) \in Nat
        OBVIOUS
    <2>2. cut[i - 1] \in 0..Len(s) /\ cut[i] \in 0..Len(s)
        BY <2>1
    <2>3. j \in 1..Len(s)
        BY <2>1, <2>2
    <2>. QED  BY <1>1, <1>2, <2>3
<1>4. cut \in [0..Len(regex) -> 0..Len(t)] /\ cut[Len(regex)] = Len(t)
    BY <1>1, <1>2
<1>. QED  BY <1>2, <1>3, <1>4 DEF RegexMatches

\* A condition that ignores case answers alike for two such texts.
LEMMA CaseAnswers ==
    ASSUME NEW c \in Conditions, WellShaped(c), ~c.case_sensitive,
           ~MixedList(c), NEW v \in Fields, NEW w \in Fields,
           v.type = "text", w.type = "text", Folded(v.text) = Folded(w.text),
           Evaluated(Compiled(c), v)
    PROVE  Evaluated(Compiled(c), w)
<1>. DEFINE e == Compiled(c)
<1>1. /\ c.operator \in Operators
      /\ c.operator \notin NULLARY_OPERATORS => Operand(c) \in Value
      /\ c.operator = "glob" => Operand(c).text \in Seq(Chars)
    BY Shapes DEF STRING_OPERATORS
<1>2. /\ v = Text(v.text) /\ w = Text(w.text)
      /\ v.text \in Texts /\ w.text \in Texts
      /\ v.text \in Seq(Chars) /\ w.text \in Seq(Chars)
    BY ConditionAssumption
       DEF ConditionAssumption, Fields, Text, Number, Null
<1>3. TextOf(v) = v.text /\ TextOf(w) = w.text
    BY DEF TextOf
<1>4. e.left = "folded" => LeftValue(e, v) = LeftValue(e, w)
    BY <1>3 DEF LeftValue
<1>0. \A test, right, regex :
        LET x == CaseExpression(c, test, right, regex)
        IN  /\ x.left = "text" /\ x.folds = TRUE
            /\ x.test = test /\ x.regex = regex
    <2>1. (~c.case_sensitive) = TRUE
        OBVIOUS
    <2>2. \A test, right, regex :
            CaseExpression(c, test, right, regex)
                = [test |-> test, left |-> "text", right |-> right,
                   folds |-> TRUE, regex |-> regex]
        BY <2>1, Zenon DEF CaseExpression
    <2>. QED  BY <2>2
<1>5. CASE c.operator \in {"eq", "ne"}
    <2>1. e = Equality(c)
        BY <1>1, <1>5, Families
    <2>2. CASE Operand(c).type = "text"
        <3>1. e.left = "folded" /\ e.test = c.operator
            BY <2>1, <2>2 DEF Equality, StringOperand, Expression
        <3>. QED  BY <1>4, <1>5, <3>1, Asks
    <2>3. CASE Operand(c).type # "text"
        <3>1. /\ e.left = "value" /\ e.test = c.operator
              /\ Head(e.right) = Operand(c)
            BY <2>1, <2>3 DEF Equality, Expression
        <3>2. LeftValue(e, v) # Operand(c) /\ LeftValue(e, w) # Operand(c)
            BY <2>3, <3>1 DEF LeftValue
        <3>. QED  BY <1>5, <3>1, <3>2, Asks
    <2>. QED  BY <2>2, <2>3
<1>6. CASE c.operator \in LIST_OPERATORS
    <2>1. e = Membership(c) /\ AllTexts(c)
        BY <1>1, <1>6, Families DEF MixedList
    <2>2. e.left = "folded" /\ e.test = c.operator
        BY <2>1 DEF Membership, StringOperand, Expression
    <2>. QED  BY <1>4, <1>6, <2>2, Asks DEF LIST_OPERATORS
<1>7. CASE c.operator \in PART_OPERATORS
    <2>1. e = PartOfText(c)
        BY <1>1, <1>7, Families
    <2>2. e.left = "text" /\ e.folds = TRUE /\ e.test = c.operator
        BY <1>0, <2>1 DEF PartOfText
    <2>3. InCase(LeftValue(e, v).text, e.folds)
            = InCase(LeftValue(e, w).text, e.folds)
        BY <1>3, <2>2 DEF LeftValue, InCase, Text
    <2>. QED  BY <1>7, <2>2, <2>3
              DEF Evaluated, PART_OPERATORS, NUMERIC_OPERATORS
<1>8. CASE c.operator = "glob"
    <2>1. e = Glob(c)
        BY <1>1, <1>8, Families
    <2>2. /\ e.left = "text" /\ e.folds = TRUE /\ e.test = "match"
          /\ e.regex \in Seq(Token)
        <3>. DEFINE p == Operand(c).text
        <3>1. e.regex = [i \in DOMAIN p |-> RegexToken(p[i])]
            BY <1>0, <2>1 DEF Glob
        <3>2. p \in Seq(Chars)
            BY <1>1, <1>8
        <3>3. \A i \in DOMAIN p : RegexToken(p[i]) \in Token
            BY <3>2 DEF RegexToken, Token
        <3>4. e.regex \in Seq(Token)
            BY <3>1, <3>2, <3>3
        <3>. QED  BY <1>0, <2>1, <3>4 DEF Glob
    <2>3. LeftValue(e, v).text = v.text /\ LeftValue(e, w).text = w.text
        BY <1>3, <2>2 DEF LeftValue, Text
    <2>4. RegexMatches(e.regex, v.text, TRUE)
        BY <2>2, <2>3 DEF Evaluated, PART_OPERATORS, NUMERIC_OPERATORS
    <2>5. RegexMatches(e.regex, w.text, TRUE)
        BY <1>2, <2>2, <2>4, SameMatch
    <2>. QED  BY <2>2, <2>3, <2>5 DEF Evaluated
<1>9. CASE c.operator = "cidr"
    <2>1. e = Expression("cidr", "text", <<Operand(c)>>)
        BY <1>1, <1>9, Families
    <2>2. e.test = "cidr" /\ e.left = "text" /\ Head(e.right) = Operand(c)
        BY <2>1 DEF Expression
    <2>3. LeftValue(e, v).text = v.text /\ LeftValue(e, w).text = w.text
        BY <1>3, <2>2 DEF LeftValue, Text
    <2>4. v.text \in Addresses[Operand(c).text]
        BY <2>2, <2>3 DEF Evaluated, PART_OPERATORS, NUMERIC_OPERATORS
    <2>5. Operand(c).text \in Networks
        BY <1>9 DEF WellShaped
    <2>6. w.text \in Addresses[Operand(c).text]
        BY <1>2, <2>4, <2>5, ConditionAssumption DEF ConditionAssumption
    <2>. QED  BY <2>2, <2>3, <2>6 DEF Evaluated
<1>10. CASE c.operator \in NUMERIC_OPERATORS
    <2>1. e.test = c.operator
        BY <1>1, <1>10, Families DEF Expression
    <2>2. PICK n \in NumbersOf(v) :
            Compares(c.operator, n, Head(e.right).number)
        BY <1>10, <2>1, Asks
    <2>3. n \in Numbers /\ v.text = Numeral[n]
        BY <1>2 DEF NumbersOf, ToFloat, Text, Number, Null
    <2>4. w.text = Numeral[n]
        BY <1>2, <2>3, ConditionAssumption DEF ConditionAssumption
    <2>5. n \in NumbersOf(w)
        BY <1>2, <2>3, <2>4 DEF NumbersOf, ToFloat
    <2>. QED  BY <1>10, <2>1, <2>2, <2>5, Asks
<1>11. CASE c.operator \in NULLARY_OPERATORS
    <2>1. e.test = c.operator
        BY <1>1, <1>11, Families DEF Expression
    <2>2. v # Null /\ w # Null
        BY DEF Null
    <2>. QED  BY <1>11, <2>1, <2>2, Asks DEF NULLARY_OPERATORS
<1>. QED  BY <1>1, <1>5, <1>6, <1>7, <1>8, <1>9, <1>10, <1>11
          DEF Operators, STRING_OPERATORS

\* Case matters to no condition that ignores it, but for a list of mixed types.
THEOREM CaseBlind == Spec => []CaseNeverMatters
<1>1. IInv => CaseNeverMatters
    <2>. SUFFICES ASSUME IInv, stage = "answered", ~cond.case_sensitive,
                         ~MixedList(cond), NEW v \in Fields,
                         v.type = "text", field.type = "text",
                         Folded(v.text) = Folded(field.text)
                  PROVE  Evaluated(code, v) = answer
        BY DEF CaseNeverMatters, CaseIgnored
    <2>1. /\ cond \in Conditions /\ WellShaped(cond) /\ field \in Fields
          /\ code = Compiled(cond) /\ answer = Evaluated(code, field)
        BY DEF IInv, TypeOK
    <2>2. Evaluated(code, v) <=> Evaluated(code, field)
        BY <2>1, CaseAnswers
    <2>. QED  BY <2>1, <2>2, AnswerIsBoolean
<1>. QED  BY <1>1, Inductive, PTL

-----------------------------------------------------------------------------
\* The text operators.

\* A text as a condition compares it.
Read(c, t) == InCase(t, ~c.case_sensitive)

LEMMA ReadText ==
    ASSUME NEW c \in Conditions, NEW t \in Seq(Chars)
    PROVE  /\ Read(c, t) \in Seq(Chars)
           /\ Len(Read(c, t)) = Len(t)
BY FoldedText DEF Read, InCase

\* Two characters are the same for it if they are the same in what it reads.
LEMMA SameCharRead ==
    ASSUME NEW c \in Conditions, NEW s \in Seq(Chars), NEW t \in Seq(Chars),
           NEW i \in 1..Len(s), NEW j \in 1..Len(t)
    PROVE  SameChar(c, s[i], t[j]) <=> Read(c, s)[i] = Read(c, t)[j]
BY FoldedText DEF Read, InCase, SameChar

LEMMA SameTextRead ==
    ASSUME NEW c \in Conditions, NEW s \in Seq(Chars), NEW t \in Seq(Chars)
    PROVE  SameText(c, s, t) <=> Read(c, s) = Read(c, t)
<1>1. /\ Read(c, s) \in Seq(Chars) /\ Len(Read(c, s)) = Len(s)
      /\ Read(c, t) \in Seq(Chars) /\ Len(Read(c, t)) = Len(t)
    BY ReadText
<1>2. ASSUME SameText(c, s, t) PROVE Read(c, s) = Read(c, t)
    <2>1. Len(s) = Len(t) /\ \A i \in 1..Len(s) : SameChar(c, s[i], t[i])
        BY <1>2 DEF SameText
    <2>2. \A i \in 1..Len(s) : Read(c, s)[i] = Read(c, t)[i]
        BY <2>1, SameCharRead
    <2>. QED  BY <1>1, <2>1, <2>2
<1>3. ASSUME Read(c, s) = Read(c, t) PROVE SameText(c, s, t)
    <2>1. Len(s) = Len(t)
        BY <1>1, <1>3
    <2>. QED  BY <1>3, <2>1, SameCharRead DEF SameText
<1>. QED  BY <1>2, <1>3

\* A text is a prefix of another if it has the same characters so far.
LEMMA PrefixOf ==
    ASSUME NEW s \in Seq(Chars), NEW t \in Seq(Chars)
    PROVE  IsPrefix(s, t) <=>
                Len(s) <= Len(t) /\ \A j \in 1..Len(s) : s[j] = t[j]
<1>1. ASSUME IsPrefix(s, t)
      PROVE  Len(s) <= Len(t) /\ \A j \in 1..Len(s) : s[j] = t[j]
    <2>1. Len(s) <= Len(t) /\ SubSeq(s, 1, Len(s)) = SubSeq(t, 1, Len(s))
        BY <1>1 DEF IsPrefix
    <2>2. \A j \in 1..Len(s) :
            /\ SubSeq(s, 1, Len(s))[j] = s[j]
            /\ SubSeq(t, 1, Len(s))[j] = t[j]
        BY <2>1
    <2>. QED  BY <2>1, <2>2
<1>2. ASSUME Len(s) <= Len(t), \A j \in 1..Len(s) : s[j] = t[j]
      PROVE  IsPrefix(s, t)
    BY <1>2 DEF IsPrefix
<1>. QED  BY <1>1, <1>2

\* A text is a prefix of the rest of another from a place on, if the piece of
\* its length at that place is the text.
LEMMA PrefixAt ==
    ASSUME NEW s \in Seq(Chars), NEW t \in Seq(Chars), NEW i \in 0..Len(t)
    PROVE  IsPrefix(s, SubSeq(t, i + 1, Len(t))) <=>
                /\ i + Len(s) <= Len(t)
                /\ \A j \in 1..Len(s) : s[j] = t[i + j]
<1>. DEFINE r == SubSeq(t, i + 1, Len(t))
<1>1. /\ r \in Seq(Chars) /\ Len(r) = Len(t) - i
      /\ \A j \in 1..(Len(t) - i) : r[j] = t[i + j]
    OBVIOUS
<1>. HIDE DEF r
<1>2. IsPrefix(s, r) <=> Len(s) <= Len(r) /\ \A j \in 1..Len(s) : s[j] = r[j]
    BY <1>1, PrefixOf
<1>. QED  BY <1>1, <1>2 DEF r

LEMMA SuffixAt ==
    ASSUME NEW s \in Seq(Chars), NEW t \in Seq(Chars)
    PROVE  IsSuffix(s, t) <=>
                /\ Len(s) <= Len(t)
                /\ \A j \in 1..Len(s) : s[j] = t[Len(t) - Len(s) + j]
<1>. DEFINE rs == Reverse(s)
            rt == Reverse(t)
<1>1. /\ rs \in Seq(Chars) /\ Len(rs) = Len(s)
      /\ \A j \in 1..Len(s) : rs[j] = s[Len(s) - j + 1]
      /\ rt \in Seq(Chars) /\ Len(rt) = Len(t)
      /\ \A j \in 1..Len(t) : rt[j] = t[Len(t) - j + 1]
    BY DEF Reverse
<1>. HIDE DEF rs, rt
<1>3. IsPrefix(rs, rt) <=>
        /\ Len(s) <= Len(t)
        /\ \A j \in 1..Len(s) : rs[j] = rt[j]
    BY <1>1, PrefixOf
<1>4. ASSUME Len(s) <= Len(t)
      PROVE  (\A j \in 1..Len(s) : rs[j] = rt[j]) <=>
                \A j \in 1..Len(s) : s[j] = t[Len(t) - Len(s) + j]
    <2>1. ASSUME \A j \in 1..Len(s) : rs[j] = rt[j], NEW j \in 1..Len(s)
          PROVE  s[j] = t[Len(t) - Len(s) + j]
        <3>. DEFINE k == Len(s) - j + 1
        <3>1. k \in 1..Len(s) /\ k \in 1..Len(t)
            BY <1>4
        <3>2. Len(s) - k + 1 = j /\ Len(t) - k + 1 = Len(t) - Len(s) + j
            OBVIOUS
        <3>. QED  BY <1>1, <2>1, <3>1, <3>2
    <2>2. ASSUME \A j \in 1..Len(s) : s[j] = t[Len(t) - Len(s) + j],
                 NEW j \in 1..Len(s)
          PROVE  rs[j] = rt[j]
        <3>. DEFINE k == Len(s) - j + 1
        <3>1. k \in 1..Len(s) /\ j \in 1..Len(t)
            BY <1>4
        <3>2. Len(t) - Len(s) + k = Len(t) - j + 1
            OBVIOUS
        <3>. QED  BY <1>1, <2>2, <3>1, <3>2
    <2>. QED  BY <2>1, <2>2
<1>. QED  BY <1>3, <1>4 DEF IsSuffix, rs, rt

\* Only * stands for many characters.
LEMMA TokenKind ==
    ASSUME NEW p \in Chars
    PROVE  /\ p = Star => RegexToken(p) = [kind |-> "many", char |-> p]
           /\ p = One => RegexToken(p) = [kind |-> "any", char |-> p]
           /\ p = Dot => RegexToken(p) = [kind |-> "escaped", char |-> p]
           /\ p \notin {Star, One, Dot} =>
                RegexToken(p) = [kind |-> "bare", char |-> p]
           /\ RegexToken(p).kind = "many" <=> p = Star
BY ConditionAssumption DEF ConditionAssumption, RegexToken

\* The token of a character takes what the character stands for.
LEMMA TokenTakes ==
    ASSUME NEW c \in Conditions, NEW p \in Chars, NEW a \in Chars \ {NewLine}
    PROVE  Takes(RegexToken(p), a, ~c.case_sensitive) <=>
                p = Star \/ p = One \/ SameChar(c, p, a)
<1>1. Star # One /\ One # Dot /\ Dot # Star
    BY ConditionAssumption DEF ConditionAssumption
<1>2. CASE p = Star
    BY <1>2, TokenKind DEF Takes
<1>3. CASE p = One
    BY <1>1, <1>3, TokenKind DEF Takes
<1>4. CASE p = Dot
    BY <1>1, <1>4, TokenKind DEF Takes, SameChar
<1>5. CASE p \notin {Star, One, Dot}
    BY <1>5, TokenKind DEF Takes, SameChar
<1>. QED  BY <1>2, <1>3, <1>4, <1>5

\* The regular expression of a pattern matches the texts of one line that the
\* pattern fits.
LEMMA GlobFits ==
    ASSUME NEW c \in Conditions, NEW p \in Seq(Chars), NEW t \in Seq(Chars),
           \A j \in 1..Len(t) : t[j] # NewLine
    PROVE  RegexMatches([i \in DOMAIN p |-> RegexToken(p[i])], t,
                        ~c.case_sensitive) <=> Fits(c, p, t)
<1>. DEFINE regex == [i \in DOMAIN p |-> RegexToken(p[i])]
            Cuts == [0..Len(p) -> 0..Len(t)]
            Piece(cut, i) ==
                /\ cut[i - 1] <= cut[i]
                /\ regex[i].kind # "many" => cut[i] = cut[i - 1] + 1
                /\ \A j \in (cut[i - 1] + 1)..cut[i] :
                    Takes(regex[i], t[j], ~c.case_sensitive)
            Part(cut, i) ==
                /\ cut[i - 1] <= cut[i]
                /\ p[i] # Star =>
                    /\ cut[i] = cut[i - 1] + 1
                    /\ p[i] # One => SameChar(c, p[i], t[cut[i]])
<1>1. /\ DOMAIN regex = 1..Len(p) /\ DOMAIN p = 1..Len(p)
      /\ Len(regex) = Len(p) /\ Len(p) \in Nat /\ Len(t) \in Nat
      /\ \A i \in 1..Len(p) : regex[i] = RegexToken(p[i]) /\ p[i] \in Chars
    OBVIOUS
<1>. HIDE DEF regex
<1>2. ASSUME NEW cut \in Cuts, NEW i \in 1..Len(p)
      PROVE  Piece(cut, i) <=> Part(cut, i)
    <2>1. cut[i - 1] \in 0..Len(t) /\ cut[i] \in 0..Len(t)
        BY <1>1
    <2>2. regex[i].kind = "many" <=> p[i] = Star
        BY <1>1, TokenKind
    <2>3. \A j \in (cut[i - 1] + 1)..cut[i] :
            Takes(regex[i], t[j], ~c.case_sensitive) <=>
                p[i] = Star \/ p[i] = One \/ SameChar(c, p[i], t[j])
        <3>1. ASSUME NEW j \in (cut[i - 1] + 1)..cut[i]
              PROVE  j \in 1..Len(t) /\ t[j] \in Chars \ {NewLine}
            BY <2>1
        <3>. QED  BY <1>1, <3>1, TokenTakes
    <2>4. CASE p[i] = Star
        BY <2>2, <2>3, <2>4
    <2>5. CASE p[i] # Star
        <3>1. cut[i] = cut[i - 1] + 1 =>
                (cut[i - 1] + 1)..cut[i] = {cut[i]}
            BY <2>1
        <3>. QED  BY <2>1, <2>2, <2>3, <2>5, <3>1
    <2>. QED  BY <2>4, <2>5
<1>3. RegexMatches(regex, t, ~c.case_sensitive) <=>
        \E cut \in Cuts : /\ cut[0] = 0 /\ cut[Len(p)] = Len(t)
                          /\ \A i \in 1..Len(p) : Piece(cut, i)
    BY <1>1 DEF RegexMatches
<1>4. Fits(c, p, t) <=>
        \E cut \in Cuts : /\ cut[0] = 0 /\ cut[Len(p)] = Len(t)
                          /\ \A i \in 1..Len(p) : Part(cut, i)
    BY <1>1 DEF Fits
<1>. HIDE DEF Piece, Part, Cuts
<1>5. RegexMatches(regex, t, ~c.case_sensitive) <=> Fits(c, p, t)
    BY <1>2, <1>3, <1>4
<1>. QED  BY <1>5 DEF regex

\* What the compiler makes of a text and what it compares the text with.
LEMMA TextLiteral ==
    ASSUME NEW c \in Conditions, NEW x \in Value, x.type = "text"
    PROVE  /\ x.text \in Seq(Chars)
           /\ Literal(c, x) = Text(Read(c, x.text))
<1>1. x.text \in Seq(Chars) /\ x = Text(x.text)
    BY DEF Value, Text
<1>2. c.case_sensitive \in BOOLEAN
    BY DEF Conditions
<1>. QED  BY <1>1, <1>2 DEF Literal, Read, InCase

LEMMA TextLeft ==
    ASSUME NEW c \in Conditions, NEW e, NEW v, e.left = StringOperand(c)
    PROVE  LeftValue(e, v) = Text(Read(c, TextOf(v)))
<1>1. c.case_sensitive \in BOOLEAN
    BY DEF Conditions
<1>. QED  BY <1>1 DEF LeftValue, StringOperand, Read, InCase

LEMMA TextEqual ==
    ASSUME NEW c \in Conditions, NEW x \in Value, x.type = "text",
           NEW t \in Seq(Chars)
    PROVE  Text(Read(c, t)) = Literal(c, x) <=> SameText(c, t, x.text)
<1>1. Text(Read(c, t)) = Text(Read(c, x.text)) <=>
        Read(c, t) = Read(c, x.text)
    BY DEF Text
<1>. QED  BY <1>1, TextLiteral, SameTextRead

\* The expression of a text operator gives what the operator means.
LEMMA TextAnswers ==
    ASSUME NEW c \in Conditions, WellShaped(c), AllTexts(c),
           c.operator \in
                {"eq", "ne"} \cup LIST_OPERATORS \cup STRING_OPERATORS,
           NEW v \in Fields,
           c.operator = "glob" => NewLine \notin Range(TextOf(v))
    PROVE  Evaluated(Compiled(c), v) <=> Means(c, TextOf(v))
<1>. DEFINE e == Compiled(c)
            t == TextOf(v)
            items == c.value.items
            x == Operand(c).text
<1>1. /\ t \in Seq(Chars)
      /\ items \in Seq(Value)
      /\ \A i \in DOMAIN items : items[i] \in Value /\ items[i].type = "text"
      /\ c.operator \in Operators
    BY Shapes, FieldText DEF AllTexts
<1>2. /\ Operand(c) \in Value /\ Operand(c).type = "text"
      /\ x \in Seq(Chars)
    <2>1. c.operator \notin NULLARY_OPERATORS
        BY DEF NULLARY_OPERATORS, LIST_OPERATORS, STRING_OPERATORS,
               PART_OPERATORS
    <2>2. items # <<>> /\ Operand(c) \in Value
        BY <2>1, Shapes
    <2>3. 1 \in DOMAIN items /\ Operand(c) = items[1]
        BY <1>1, <2>2 DEF Operand
    <2>. QED  BY <1>1, <2>2, <2>3, TextLiteral
<1>. HIDE DEF t, x
<1>3. CASE c.operator \in {"eq", "ne"}
    <2>1. e = Equality(c)
        BY <1>1, <1>3, Families
    <2>2. /\ e.test = c.operator /\ e.left = StringOperand(c)
          /\ Head(e.right) = Literal(c, Operand(c))
        BY <1>2, <2>1 DEF Equality, Expression
    <2>3. LeftValue(e, v) = Head(e.right) <=> SameText(c, t, x)
        BY <1>1, <1>2, <2>2, TextLeft, TextEqual DEF t, x
    <2>4. Means(c, TextOf(v)) <=>
            IF c.operator = "eq" THEN SameText(c, t, x) ELSE ~SameText(c, t, x)
        BY <1>3 DEF Means, t, x
    <2>. QED  BY <1>3, <2>2, <2>3, <2>4, Asks
<1>4. CASE c.operator \in LIST_OPERATORS
    <2>1. e = Membership(c)
        BY <1>1, <1>4, Families
    <2>2. /\ e.test = c.operator /\ e.left = StringOperand(c)
          /\ e.right = [i \in DOMAIN items |-> Literal(c, items[i])]
        BY <2>1 DEF Membership, Expression
    <2>3. \A i \in DOMAIN items :
            e.right[i] = LeftValue(e, v) <=> SameText(c, t, items[i].text)
        BY <1>1, <2>2, TextLeft, TextEqual DEF t
    <2>4. DOMAIN e.right = DOMAIN items
        BY <2>2
    <2>5. Means(c, TextOf(v)) <=>
            IF c.operator = "in"
            THEN \E i \in DOMAIN items : SameText(c, t, items[i].text)
            ELSE \A i \in DOMAIN items : ~SameText(c, t, items[i].text)
        BY <1>4 DEF Means, t, LIST_OPERATORS
    <2>. QED  BY <1>4, <2>2, <2>3, <2>4, <2>5, Asks DEF LIST_OPERATORS
<1>5. CASE c.operator \in PART_OPERATORS
    <2>1. e = PartOfText(c)
        BY <1>1, <1>5, Families
    <2>2. /\ e.test = c.operator /\ e.left = "text"
          /\ e.folds = ~c.case_sensitive /\ Head(e.right) = Operand(c)
        BY <2>1 DEF PartOfText, CaseExpression
    <2>3. LeftValue(e, v).text = t
        BY <2>2 DEF LeftValue, Text, t
    <2>4. Evaluated(e, v) <=> HasPart(c.operator, Read(c, t), Read(c, x))
        BY <1>5, <2>2, <2>3
           DEF Evaluated, PART_OPERATORS, NUMERIC_OPERATORS, Read, x
    <2>. DEFINE Piece(i) == SubSeq(t, i + 1, i + Len(x))
    <2>5. /\ Read(c, t) \in Seq(Chars) /\ Len(Read(c, t)) = Len(t)
          /\ Read(c, x) \in Seq(Chars) /\ Len(Read(c, x)) = Len(x)
        BY <1>1, <1>2, ReadText
    <2>6. ASSUME NEW i \in 0..Len(t), i + Len(x) <= Len(t)
          PROVE  SameText(c, Piece(i), x) <=>
                    \A j \in 1..Len(x) : Read(c, x)[j] = Read(c, t)[i + j]
        <3>1. /\ Len(Piece(i)) = Len(x) /\ DOMAIN Piece(i) = 1..Len(x)
              /\ \A j \in 1..Len(x) : Piece(i)[j] = t[i + j]
            BY <1>1, <1>2, <2>6
        <3>2. \A j \in 1..Len(x) :
                SameChar(c, t[i + j], x[j]) <=>
                    Read(c, t)[i + j] = Read(c, x)[j]
            <4>1. \A j \in 1..Len(x) : i + j \in 1..Len(t)
                BY <1>1, <1>2, <2>6
            <4>. QED  BY <1>1, <1>2, <4>1, SameCharRead
        <3>. QED  BY <3>1, <3>2 DEF SameText
    <2>. HIDE DEF Piece
    <2>7. CASE c.operator = "starts_with"
        <3>1. Evaluated(e, v) <=> IsPrefix(Read(c, x), Read(c, t))
            BY <2>4, <2>7 DEF HasPart
        <3>2. Evaluated(e, v) <=> Len(x) <= Len(t) /\ SameText(c, Piece(0), x)
            BY <1>1, <1>2, <2>5, <2>6, <3>1, PrefixOf
        <3>. QED  BY <2>7, <3>2 DEF Means, t, x, Piece
    <2>8. CASE c.operator = "ends_with"
        <3>1. Evaluated(e, v) <=> IsSuffix(Read(c, x), Read(c, t))
            BY <2>4, <2>8 DEF HasPart
        <3>. DEFINE i == Len(t) - Len(x)
        <3>2. Evaluated(e, v) <=>
                /\ Len(x) <= Len(t)
                /\ \A j \in 1..Len(x) : Read(c, x)[j] = Read(c, t)[i + j]
            BY <2>5, <3>1, SuffixAt
        <3>3. Len(x) <= Len(t) => i \in 0..Len(t) /\ i + Len(x) <= Len(t)
            BY <1>1, <1>2
        <3>. HIDE DEF i
        <3>4. Evaluated(e, v) <=>
                Len(x) <= Len(t) /\ SameText(c, Piece(i), x)
            BY <2>6, <3>2, <3>3
        <3>. QED  BY <2>8, <3>4 DEF Means, t, x, Piece, i
    <2>9. CASE c.operator = "contains"
        <3>1. Evaluated(e, v) <=>
                \E i \in 0..Len(t) :
                    IsPrefix(Read(c, x),
                             SubSeq(Read(c, t), i + 1, Len(Read(c, t))))
            BY <2>4, <2>5, <2>9 DEF HasPart
        <3>2. \A i \in 0..Len(t) :
                IsPrefix(Read(c, x),
                         SubSeq(Read(c, t), i + 1, Len(Read(c, t)))) <=>
                    i + Len(x) <= Len(t) /\ SameText(c, Piece(i), x)
            <4>1. TAKE i \in 0..Len(t)
            <4>2. IsPrefix(Read(c, x),
                           SubSeq(Read(c, t), i + 1, Len(Read(c, t)))) <=>
                    /\ i + Len(x) <= Len(t)
                    /\ \A j \in 1..Len(x) : Read(c, x)[j] = Read(c, t)[i + j]
                <5>1. ASSUME NEW a \in Seq(Chars), NEW b \in Seq(Chars),
                             Len(a) = Len(x), Len(b) = Len(t)
                      PROVE  IsPrefix(a, SubSeq(b, i + 1, Len(b))) <=>
                                /\ i + Len(x) <= Len(t)
                                /\ \A j \in 1..Len(x) : a[j] = b[i + j]
                    <6>1. i \in 0..Len(b)
                        BY <5>1
                    <6>. QED  BY <5>1, <6>1, PrefixAt
                <5>. QED  BY <2>5, <5>1
            <4>. QED  BY <2>6, <4>2
        <3>3. \A i : i \in 0..(Len(t) - Len(x)) <=>
                        i \in 0..Len(t) /\ i + Len(x) <= Len(t)
            BY <1>1, <1>2
        <3>4. Evaluated(e, v) <=>
                \E i \in 0..(Len(t) - Len(x)) : SameText(c, Piece(i), x)
            BY <3>1, <3>2, <3>3
        <3>. QED  BY <2>9, <3>4 DEF Means, t, x, Piece
    <2>. QED  BY <1>5, <2>7, <2>8, <2>9 DEF PART_OPERATORS
<1>6. CASE c.operator = "glob"
    <2>1. e = Glob(c)
        BY <1>1, <1>6, Families
    <2>2. /\ e.test = "match" /\ e.left = "text"
          /\ e.folds = ~c.case_sensitive
          /\ e.regex = [i \in DOMAIN x |-> RegexToken(x[i])]
        BY <2>1 DEF Glob, CaseExpression, x
    <2>3. LeftValue(e, v).text = t
        BY <2>2 DEF LeftValue, Text, t
    <2>4. Evaluated(e, v) <=> RegexMatches(e.regex, t, ~c.case_sensitive)
        BY <2>2, <2>3 DEF Evaluated, PART_OPERATORS, NUMERIC_OPERATORS
    <2>5. \A j \in 1..Len(t) : t[j] # NewLine
        BY <1>1, <1>6 DEF Range, t
    <2>6. Evaluated(e, v) <=> Fits(c, x, t)
        BY <1>1, <1>2, <2>2, <2>4, <2>5, GlobFits
    <2>. QED  BY <1>6, <2>6 DEF Means, t, x
<1>. QED  BY <1>3, <1>4, <1>5, <1>6 DEF STRING_OPERATORS

\* A compiled text operator agrees with what it means, for every pattern and
\* every text.
THEOREM TextsAgree == Spec => []TextOperatorsAgree
<1>1. IInv => TextOperatorsAgree
    <2>. SUFFICES ASSUME IInv, stage = "answered", AllTexts(cond),
                         cond.operator \in
                            {"eq", "ne"} \cup LIST_OPERATORS
                                \cup STRING_OPERATORS,
                         cond.operator = "glob" =>
                            NewLine \notin Range(TextOf(field))
                  PROVE  answer = Means(cond, TextOf(field))
        BY DEF TextOperatorsAgree
    <2>1. /\ cond \in Conditions /\ WellShaped(cond) /\ field \in Fields
          /\ answer = Evaluated(Compiled(cond), field)
        BY DEF IInv, TypeOK
    <2>2. answer <=> Means(cond, TextOf(field))
        BY <2>1, TextAnswers
    <2>3. answer \in BOOLEAN /\ Means(cond, TextOf(field)) \in BOOLEAN
        BY <2>1, AnswerIsBoolean DEF Means
    <2>. QED  BY <2>2, <2>3
<1>. QED  BY <1>1, Inductive, PTL

================================================================================
