----------------------------- MODULE MCRegistry ------------------------------
EXTENDS Registry

One == Leaf(<<"dsn">>)

\* With Second = 10 and Half = 512, "77" seconds overflow as a Duration, and "777"
\* and "7007" as an integer, too.
Periods == {<<>>, <<"0">>, <<"7">>, <<"0", "7">>, <<"7", "7">>, <<"7", "7", "7">>,
            <<"7", "0", "0", "7">>}

\* Composites of leaves, and composites of those, of one or two members.
Flat(P) == {Written(k, a, d) : k \in Keywords, a \in {<<One>>, <<One, One>>}, d \in P}
Members == Flat({<<>>, <<"7">>}) \cup {One}
SmallTrees ==
    {One} \cup {Written(k, a, d) : k \in Keywords, d \in Periods,
                a \in {<<m>> : m \in Members} \cup (Members \X Members)}
==============================================================================
