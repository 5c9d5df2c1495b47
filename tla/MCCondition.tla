------------------------------ MODULE MCCondition ------------------------------
(* A small alphabet, the texts over it, and payloads for Condition. *)
EXTENDS Condition

MCChars == {"a", "A", ".", "*", "?", "3", "7", "nl"}

MCLower == [c \in MCChars |-> IF c = "A" THEN "a" ELSE c]

MCNumeral == (3 :> <<"3">>) @@ (7 :> <<"7">>)

\* Short texts, two numerals, and texts with a line break.
MCTexts ==
    BoundedSeq({"a", "A", "."}, 3)
        \cup {<<"3">>, <<"7">>, <<"nl">>, <<"a", "nl">>}

MCNetworks == {<<".", "?">>}

MCAddresses == [n \in MCNetworks |-> {<<"a">>, <<"A">>, <<"7">>}]

\* Too large an integer, even larger, and a text that is too long.
MCRefused == {Number(99), Number(999), Float(999), Text(<<"a", "7", "a", "7">>)}

MCLongPatterns == {<<"*", "*", "*">>, <<"a", "7", "a", "7">>}

Patterns ==
    BoundedSeq({"a", "A", ".", "*", "?"}, 2)
        \cup {<<"*", "a", "*">>, <<"?", "*", ".">>, <<"a", "*", "A">>,
              <<"*", "*", "*">>, <<"a", "7", "a", "7">>}

One1(v) == [shape |-> "one", items |-> <<v>>]

ListOf(items) == [shape |-> "list", items |-> items]

Scalars == {Text(t) : t \in Patterns}
    \cup {Number(n) : n \in {0, 3, 5, 7, 99, 999}} \cup {Bool(TRUE), Bool(FALSE)}

Listed == {Text(<<"a">>), Text(<<"A">>), Text(<<>>), Number(7), Bool(TRUE)}

MCPayloads ==
    {[shape |-> "none", items |-> <<>>]}
        \cup {One1(v) : v \in Scalars}
        \cup {ListOf(l) : l \in BoundedSeq(Listed, 2)}
        \cup {ListOf(<<Text(<<"a">>), Text(<<"A">>), v>>) : v \in Listed}
================================================================================
