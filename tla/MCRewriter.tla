----------------------------- MODULE MCRewriter -----------------------------
(* Instances of Rewriter for TLC: the shapes of body that take different    *)
(* branches, under every policy.                                            *)
EXTENDS Rewriter

At(p, node) == p :> node

MCIndex == <<"0", "1", "2", "3">>
MCWorkingDir == <<"Users", "jack", "projects">>
(* "Canonical home directory path prefix" (config.example.yaml), literally. *)
HomeOnlyDir == <<"Users", "jack">>
(* The shipped ranges (config.example.yaml:79), in units of 50 MB. *)
ShippedRss == <<6, 8>>
ShippedHeapTotal == <<0, 1>>
ShippedHeapUsed == <<2, 4>>

ClientFact == Fact("Shell", "client", FALSE)
ClientDir == Dir(<<"home", "bob", "myproject">>, FALSE)
ClientPath == PathIn(<<"home", "bob", "cache">>, FALSE)
Billing == Version(ClientHash, TRUE)
Cr(line, n) == ("cr" :> n) @@ line
Prompt == <<ClientFact, ClientDir, ClientPath, Version(ClientHash, FALSE)>>
Reminder == <<Plain, Dir(<<"home", "bob", "myproject">>, TRUE), PathIn(<<"home", "bob", "x">>, FALSE)>>

(* metadata.user_id: an encoded object with or without an email, a string  *)
(* of an older client, or no metadata.                                     *)
Id(k) == At(<<k>>, Str("client"))
Users == {
    At(<<"metadata">>, Obj)
        @@ At(<<"metadata", "user_id">>, Enc("json", Leaf(Obj) @@ Id("device_id") @@ Id("session_id"))),
    At(<<"metadata">>, Obj)
        @@ At(<<"metadata", "user_id">>, Enc("json", Leaf(Obj) @@ Id("device_id") @@ Id("email"))),
    At(<<"metadata">>, Obj) @@ At(<<"metadata", "user_id">>, Str("client")),
    Leaf(Obj)}

Message(i, role) == At(<<"messages", i>>, Obj) @@ At(<<"messages", i, "role">>, Str(role))
Content(i) == <<"messages", i, "content">>
Messages == {
    Message("0", "user") @@ At(Content("0"), Text(Reminder)),
    Message("0", "assistant") @@ At(Content("0"), Text(<<Plain>>))
        @@ Message("1", "user") @@ At(Content("1"), Arr)
        @@ At(Content("1") \o <<"0">>, Obj) @@ At(Content("1") \o <<"0", "type">>, Str("image"))
        @@ At(Content("1") \o <<"1">>, Obj) @@ At(Content("1") \o <<"1", "type">>, Str("text"))
        @@ At(Content("1") \o <<"1", "text">>, Text(Reminder)),
    Message("0", "assistant") @@ At(Content("0"), Text(<<Plain>>))}

Item(i, text) == At(<<"system", i>>, Obj) @@ At(<<"system", i, "text">>, Text(text))
Systems == {
    At(System, Text(<<Billing>> \o Prompt)),
    At(System, Arr) @@ Item("0", <<Billing>>) @@ Item("1", Prompt),
    At(System, Arr) @@ Item("0", <<Plain, Billing>>) @@ Item("1", <<Billing>>)
        @@ At(<<"system", "2">>, Text(Prompt)) @@ Item("3", <<Billing>>),
    (* Line breaks at the end, white space, and carriage returns. *)
    At(System, Text(<<Cr(Billing, 1), Cr(Fact("OS Version", "client", FALSE), 1), Cr(Gap(""), 1),
                      Cr(ClientFact, 2), Gap(""), Gap("")>>)),
    At(System, Arr) @@ Item("0", <<Cr(Billing, 1), Cr(Gap(" "), 1), Gap("")>>)
        @@ Item("1", <<Gap(""), Cr(Plain, 3), Cr(ClientFact, 1)>>) @@ At(<<"system", "2">>, Text(<<Plain, Gap("")>>)),
    Leaf(Obj)}
SystemObject == At(System, Obj) @@ At(System \o <<"text">>, Text(<<Billing>> \o Prompt))

MessageBodies(systems) ==
    {Leaf(Obj) @@ At(<<"messages">>, Arr) @@ u @@ m @@ s : u \in Users, m \in Messages, s \in systems}

Data(i) == <<"events", i, "event_data">>
EventAt(i, fields) ==
    At(<<"events", i>>, Obj) @@ At(Data(i), Obj)
    @@ [p \in {Data(i) \o f : f \in DOMAIN fields} |-> fields[SubSeq(p, 4, Len(p))]]
Ids == Id("device_id") @@ Id("email") @@ At(<<"baseUrl">>, Str("gateway"))
Env == At(<<"env">>, Obj) @@ At(<<"env", "platform">>, Str("client"))
       @@ At(<<"env", "wsl_version">>, Str("client")) @@ At(<<"env", "created_at">>, Num(7))
Meta == At(<<"additional_metadata">>, Enc("base64",
            Leaf(Obj) @@ Id("email") @@ At(<<"gateway">>, Str("gateway"))
            @@ At(<<"list">>, Arr) @@ At(<<"list", "0">>, Obj)
            @@ At(<<"list", "0", "session_id">>, Str("client"))))
Process == Leaf(Obj) @@ At(<<"rss">>, Num(1)) @@ At(<<"uptime">>, Num(5))
Times == At(<<"timestamp">>, Str("client")) @@ At(<<"context">>, Obj)
         @@ At(<<"context", "created_at">>, Num(7))
Batches == {
    At(<<"events">>, Arr) @@ EventAt("0", Ids @@ Env @@ Meta @@ Times),
    At(<<"events">>, Arr) @@ EventAt("0", Ids @@ At(<<"process">>, Enc("base64", Process)))
        @@ EventAt("1", Times @@ [p \in {<<"process">> \o r : r \in DOMAIN Process} |->
                                    Process[SubSeq(p, 2, Len(p))]]),
    At(<<"events">>, Arr) @@ At(<<"events", "0">>, Obj)
        @@ At(<<"events", "0", "timestamp">>, Str("client"))
        @@ EventAt("1", Meta @@ Env),
    Times}

Request(path, body) == [path |-> path, body |-> body]
MessageRequests(systems) == {Request({"messages"}, b) : b \in MessageBodies(systems)}
BatchRequests ==
    {Request(path, Leaf(Obj) @@ b) : path \in {{"batch"}, {"batch", "generic"}}, b \in Batches}
MCRequests ==
    MessageRequests(Systems) \cup BatchRequests
    \cup {Request(path, Leaf(Obj) @@ Ids @@ Times) : path \in {{"generic"}, {}}}
    \cup {Request({"messages"}, <<>>)}
ObjectRequests == MessageRequests({SystemObject})

MCPolicies(paths) ==
    [mode : {None, "conservative", "passthrough"}, strip : {None, "false"},
     normalize : {None, "true"}, preserve : paths]
MCOptions ==
    {NoPolicy} \cup MCPolicies({<<>>, <<<<"metadata", "user_id">>>>,
        <<<<"events", "0", "event_data", "email">>, <<"events", "1", "event_data", "env">>>>})
MessageOptions == MCPolicies({<<<<"messages", "0", "content">>>>})
IndexOptions == MCPolicies({<<<<"system", "0", "text">>>>})
=============================================================================
