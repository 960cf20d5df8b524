--------------------------- MODULE MCMeteredData ----------------------------
(* Values for MeteredData: every kind of place an identity may be at, and  *)
(* small results and responses with every way a number may hide in them.   *)
EXTENDS MeteredData

MCPlaces == Place

Field(k, v, omitempty, embedded) ==
    [key |-> <<k>>, value |-> v, omitempty |-> omitempty, embedded |-> embedded]
Usage(n) == Struct({Field("total", Num(n), TRUE, FALSE),
                      Field("input", OddNum(n), FALSE, FALSE)})
Tokens(v) == Map({Key(<<"tokens">>, v)})
Dotted(n) == Key(<<"usage", "tokens">>, Num(n))

MCFunctions == {
    \* func() int, func() uint
    {<<Num(n)>> : n \in 0 .. 2}, {<<OddNum(2)>>}, {<<QuotedNum(2)>>},
    \* func() (*Reply, error)
    {<<Struct({Field("usage", Usage(n), TRUE, FALSE)}), Nil>> : n \in {0, 2}}
        \cup {<<NilPointer, Error>>, <<NilPointer, Nil>>,
              <<Struct({Field("usage", Usage(2), TRUE, FALSE)}), Error>>},
    \* func() (map[string]interface{}, error)
    {<<Tokens(Num(2)), Nil>>, <<Tokens(OddNum(2)), Nil>>,
     <<Tokens(Usage(2)), Nil>>, <<Tokens(Text), Nil>>, <<Nil, Nil>>},
    \* func() (Reply, bool), with an embedded struct
    {<<Struct({Field("Usage", Usage(2), FALSE, TRUE)}), Nil>>,
     <<Struct({Field("Usage", Usage(0), FALSE, TRUE)}), Text>>},
    \* func() Reply, with a field of type func(), float64 or int `json:",string"`,
    \* or with a MarshalJSON
    {<<Struct({Key(<<"total">>, Num(2)), Key(<<"retry">>, Func)})>>,
     <<Struct({Key(<<"total">>, Num(2)), Field("retry", Nil, TRUE, FALSE)})>>},
    {<<Struct({Key(<<"total">>, Num(2)), Key(<<"rate">>, v)})>> : v \in {Num(1), NotFinite}},
    {<<Struct({Key(<<"total">>, QuotedNum(2)), Key(<<"input">>, Num(2))})>>},
    {<<Map({Key(<<"cost">>, v), Key(<<"total">>, Num(2))})>> :
        v \in {TextStruct({Key(<<"cents">>, Num(2))}), Struct({Key(<<"cents">>, Num(2))}), NotFinite}},
    \* func() []Reply
    {<<Array(<<Usage(2), Usage(0)>>)>>, <<Array(<<>>)>>},
    \* func() map[string]interface{}, with an array and a key with a dot
    {<<Map({Key(<<"items">>, Array(<<Tokens(Num(2))>>)), Dotted(2)})>>,
     <<Map({Key(<<"usage">>, Tokens(Num(0))), Dotted(2)})>>} }

MCResponses == {
    Num(3),
    Array(<<Tokens(Num(2))>>),
    Map({Key(<<"tokens">>, Num(2)), Key(<<"length">>, Num(0))}),
    Map({Key(<<"usage">>, Tokens(Num(0)))}),
    Map({Dotted(2)}),
    Map({Dotted(2), Key(<<"usage">>, Tokens(Num(3)))}),
    Tokens(Text) }

MCTrackedFields ==
    {<<>>, <<"return">>, <<"length">>}
    \cup {l.path : l \in UNION {Advertised(r) : r \in MCResponses}}

\* A value with all that is inside it.
Parts(v) == {x.value : x \in UNION {Inside(v)[d] : d \in 0 .. SchemaMaxDepth}}
Embeds(v) == IF Object(v) THEN {w.value : w \in Embedded(v)} ELSE {}
WithParts(vs) ==
    LET parts == UNION {Parts(v) : v \in vs}
    IN  parts \cup UNION {Embeds(v) : v \in parts}

MCResultValues ==
    WithParts({Nil} \cup UNION {UNION {{rs[i] : i \in DOMAIN rs} : rs \in f} : f \in MCFunctions})
MCBodyValues ==
    WithParts(MCResponses \cup {Text} \cup {Response!Placeholder(n) : n \in 1 .. MaxCaptured})
=============================================================================
