----------------------------- MODULE MCNodeRpc -----------------------------
\* Lines for every way through the parser, one of which hides a keyword, and plans
\* that bring each of the world's disturbances together with them.
EXTENDS NodeRpc

Line(toks) == toks \o <<"cr", "lf">>
Get(path) == Line(<<"GET", " ", "/">> \o path)
Post(path) == Line(<<"POST", " ", "/">> \o path)

Read == Get(<<"grove", "/", "read">>)
Write == Post(<<"grove", "/", "set", "/", "1">>)
Empty == Post(<<"grove", "/", "set", "/">>)
Long == Get(<<"long", "/", "long">>)
Hidden == Get(<<"grove", "/", "happy">>)
Others == {Get(<<"grove">>), Get(<<"long">>), Get(<<".well-known">>), Line(<<"GET", " ", "?">>), Empty, Long, Write,
           Post(<<"grove", "/", "put", "/", "1", "/", "long">>), Get(<<"grove", "/", "read", "/", "1">>),
           Get(<<"grove", "/", "none">>), Get(<<"grove", "/", "none", "/", "1">>),
            Post(<<"grove", "/", "set">>), Post(<<"grove", "/", "put", "/", "1">>),
           Post(<<"grove", "/", "put", "/", "long", "/", "1">>)}
Ota == Line(<<"OTA">>)
App == Line(<<"APP">>)

Plan(data, cmd, events, pings, parts, losses) ==
    [data |-> data, cmd |-> cmd, events |-> events, pings |-> pings, parts |-> parts, losses |-> losses]

APlans ==
    {Plan(<<r, Read>>, <<>>, 0, 0, 0, 0) : r \in Others}
    \cup {Plan(<<Hidden, Read>>, <<App>>, 1, 0, 0, 0), Plan(<<Read>>, <<>>, 3, 0, 0, 0), Plan(<<Read>>, <<App>>, 0, 1, 0, 0), Plan(<<Hidden>>, <<>>, 0, 1, 0, 0),
          Plan(<<Long, Write>>, <<>>, 0, 0, 1, 0), Plan(<<Read, Empty>>, <<>>, 0, 0, 0, 1),
          Plan(<<Read>>, <<Ota, Ota>>, 0, 0, 0, 0), Plan(<<Write, Read, Write>>, <<>>, 0, 0, 0, 0)}

SixEvents == {Plan(<<>>, <<>>, 6, 0, 0, 0)}

AResources ==
    (<<"GET", "grove", "read">> :> <<>>) @@ (<<"POST", "grove", "set">> :> <<"num">>)
    @@ (<<"POST", "grove", "put">> :> <<"num", "str">>) @@ (<<"GET", "grove", "happy">> :> <<>>)

AEmbedded == "happy" :> "APP"
=============================================================================
