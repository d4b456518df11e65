----------------------------- MODULE MCGateway ------------------------------
(* Instances of Gateway for TLC.  Two entries share a token, and two of the *)
(* access tokens differ in whether they may stand in a header.              *)
EXTENDS Gateway

Alice == <<"alice-token">>
Bob == <<"bob-token">>
MCEntries == <<[name |-> "carol", token |-> Alice], [name |-> "bob", token |-> Bob],
               [name |-> "alice", token |-> Alice]>>

Other == ("host" :> <<<<"gateway">>>>) @@ ("user-agent" :> <<<<"curl">>, <<"wget">>>>)
         @@ ("x-forwarded-for" :> <<<<"1">>, <<"2">>>>) @@ ("content-length" :> <<<<"7">>>>)
Key(values) == "x-api-key" :> values
Proxy(values) == "proxy-authorization" :> values
Auth(values) == "authorization" :> values
Good == Auth(<<<<"Bearer">> \o Alice>>)
(* Clients known by each of the three headers, with others beside it that  *)
(* count for nothing; and strangers: every form of a wrong value, alone    *)
(* and, for the proxy's header, before a good one.                         *)
Known == {Key(<<Alice>>),
          Key(<<Bob, Alice>>) @@ Proxy(<<Opaque>>),
          Key(<<<<>>>>) @@ Proxy(<<<<"bearer">> \o Bob>>) @@ Auth(<<<<"Basic">> \o Alice>>),
          Key(<<<<"unknown">>>>) @@ Good,
          Key(<<Opaque>>) @@ Auth(<<<<"bearer">> \o Bob>>)}
WrongBearers == {<<<<"Bearer", "unknown">>>>, <<<<"Basic">> \o Alice>>,
                 <<<<"Bearer">> \o Alice \o Alice>>, <<Opaque>>}
Strangers == {Key(k) : k \in {<<<<>>>>, <<<<"unknown">>>>, <<Opaque>>}}
             \cup {Proxy(b) : b \in WrongBearers} \cup {Auth(b) : b \in WrongBearers}
             \cup {Proxy(b) @@ Good : b \in WrongBearers \cup {<<<<>>>>}}
HeaderSets == {Other @@ h : h \in Known \cup Strangers}

Message(route, method, headers, joins) ==
    [route |-> route, method |-> method, headers |-> headers, joins |-> joins]
KeyOnly == Key(<<Alice>>)
Unknown == Key(<<<<"unknown">>>>)
MCMessages ==
    {Message("proxy", "POST", h, TRUE) : h \in HeaderSets}
    \cup {Message(route, method, Unknown, TRUE) :
            route \in {"health", "verify", "proxy"}, method \in {"GET", "POST"}}
    \cup {Message("verify", "GET", KeyOnly, TRUE), Message("proxy", "POST", KeyOnly, FALSE)}
=============================================================================
