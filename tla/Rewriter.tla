------------------------------ MODULE Rewriter ------------------------------
(***************************************************************************)
(* The request rewriter of the Rust gateway: rewrite_request_body and what *)
(* it calls in crates/daemon/src/server.rs and crates/core/src/rewriter/.  *)
(*                                                                         *)
(* A JSON document is a function from paths (sequences of keys) to nodes,  *)
(* with a node for every object and array too.  What the code does by      *)
(* recursion is then a definition by cases on paths, and an insertion or a *)
(* removal changes the domain.  Array elements are named "0", "1", ...     *)
(* as in preserve_fields.  A body that is not JSON is the empty function.  *)
(*                                                                         *)
(* A text is what stands between its line breaks, in order, and "" is the  *)
(* empty sequence.  A line says what the patterns of prompt.rs can find in *)
(* it, whether it is blank and how many carriage returns it ends with; the *)
(* rest of its wording is left out.                                        *)
(***************************************************************************)
EXTENDS Naturals, SequencesExt, LineFilter

CONSTANTS
    WorkingDir,       \* prompt_env.working_dir, as a sequence of segments
    RssRange,         \* process.rss_range, <<min, max>>
    HeapTotalRange,   \* process.heap_total_range
    HeapUsedRange,    \* process.heap_used_range
    BuildMillis,      \* env.build_time in milliseconds, or 0 if it is no date
    Index,            \* the names of the elements of an array, "0", "1", ...
    ClientRequests,   \* what clients send: [path, body]
    Options           \* rewrite_policy of the profile, or NoPolicy

ASSUME RangeAssumption ==
    \A r \in {RssRange, HeapTotalRange, HeapUsedRange} : r \in Nat \X Nat
ASSUME WorkingDirAssumption == WorkingDir \in Seq(STRING) /\ WorkingDir # <<>>
(* Element names are numbers: different ones, and no key the rewriter knows. *)
ASSUME IndexAssumption ==
    /\ Index \in Seq(STRING) /\ IsInjective(Index)
    /\ Range(Index) \cap {"text", "user_id", "event_data", "env", "process", "additional_metadata",
                          "device_id", "email", "account_uuid", "session_id", "baseUrl", "base_url",
                          "gateway", "timestamp", "created_at", "client_timestamp"} = {}
(* A path has at least one segment: split('.') of the empty string is one. *)
ASSUME OptionsAssumption ==
    \A opt \in Options :
        opt = [mode |-> "none"] \/ opt.preserve \in Seq(Seq(STRING) \ {<<>>})

-----------------------------------------------------------------------------
(* Documents *)

Obj == [kind |-> "object"]
Arr == [kind |-> "array"]
Num(n) == [num |-> n]
Str(s) == [str |-> s]
Text(t) == [text |-> t]
(* A string that encodes a document: as JSON, or as base64 of JSON. *)
Enc(coding, d) == [coding |-> coding, doc |-> d]

IsObj(d, p) == p \in DOMAIN d /\ d[p] = Obj
IsArr(d, p) == p \in DOMAIN d /\ d[p] = Arr
IsText(d, p) == p \in DOMAIN d /\ "text" \in DOMAIN d[p]
IsNum(d, p) == p \in DOMAIN d /\ "num" \in DOMAIN d[p]
IsString(d, p) ==
    p \in DOMAIN d /\ DOMAIN d[p] \cap {"str", "text", "coding"} # {}
(* The node is a string that serde_json (after base64) reads; an object.   *)
Encodes(d, p, coding) == p \in DOMAIN d /\ "coding" \in DOMAIN d[p] /\ d[p].coding = coding
EncodesObj(d, p, coding) == Encodes(d, p, coding) /\ IsObj(d[p].doc, <<>>)

Below(d, p) == {q \in DOMAIN d : IsPrefix(p, q)}
Children(d, p) == {q \in Below(d, p) : Len(q) = Len(p) + 1}
Key(q) == q[Len(q)]
Rest(p, q) == SubSeq(q, Len(p) + 1, Len(q))
Sub(d, p) == [r \in {Rest(p, q) : q \in Below(d, p)} |-> d[p \o r]]
(* Documents put at several paths, none of which is below another. *)
PutAll(d, new) ==
    [q \in (DOMAIN d \ UNION {Below(d, p) : p \in DOMAIN new})
            \cup UNION {{p \o r : r \in DOMAIN new[p]} : p \in DOMAIN new} |->
        IF \E p \in DOMAIN new : IsPrefix(p, q)
        THEN LET p == CHOOSE p \in DOMAIN new : IsPrefix(p, q) IN new[p][Rest(p, q)]
        ELSE d[q]]
Put(d, p, v) == PutAll(d, [q \in {p} |-> v])
Leaf(node) == [q \in {<<>>} |-> node]
(* Map::insert of every key of fields, a function from keys to nodes. *)
Insert(d, p, fields) ==
    PutAll(d, [q \in {p \o <<key>> : key \in DOMAIN fields} |-> Leaf(fields[Key(q)])])
(* Apply Op to the texts at the paths of S. *)
MapTexts(d, S, Op(_)) ==
    [q \in DOMAIN d |-> IF q \in S /\ IsText(d, q) THEN Text(Op(d[q].text)) ELSE d[q]]

Elements(d, p) == IF IsArr(d, p) THEN Children(d, p) ELSE {}
(* What a parser gives: every node but the root has its container, and the *)
(* elements of an array are numbered from 0.                               *)
IsDocument(d) ==
    /\ d = <<>> \/ <<>> \in DOMAIN d
    /\ \A q \in DOMAIN d \ {<<>>} : IsObj(d, Front(q)) \/ IsArr(d, Front(q))
    /\ \A p \in DOMAIN d : IsArr(d, p) =>
            \E n \in 0 .. Len(Index) : {Key(q) : q \in Children(d, p)} = {Index[i] : i \in 1 .. n}

(* A line is a record of what a pattern finds in it, with its value; blank *)
(* is the white space of a line that has nothing else.                     *)
IsLine(line) ==
    /\ "fact" \in DOMAIN line => "who" \in DOMAIN line
    /\ "dir" \in DOMAIN line => line.dir \in Seq(STRING) \ {<<>>}
    /\ "path" \in DOMAIN line => line.path \in Seq(STRING)
    /\ "blank" \in DOMAIN line => {"fact", "dir", "path", "cc"} \cap DOMAIN line = {}
IsEmptyLine(line) == "blank" \in DOMAIN line /\ line.blank = "" /\ ("cr" \in DOMAIN line => line.cr = 0)
ASSUME ClientRequestsAssumption ==
    \A r \in ClientRequests :
        /\ IsDocument(r.body) /\ r.body = [q \in DOMAIN r.body |-> r.body[q]]
        /\ DOMAIN r.body \subseteq Seq(STRING) /\ IsFiniteSet(DOMAIN r.body)
        /\ \A q \in DOMAIN r.body :
            /\ "text" \in DOMAIN r.body[q] =>
                    /\ r.body[q].text \in Seq(Range(r.body[q].text))
                    /\ \A line \in Range(r.body[q].text) :
                            IsLine(line) /\ ("cr" \in DOMAIN line => line.cr \in Nat)
                    /\ Len(r.body[q].text) = 1 => ~IsEmptyLine(r.body[q].text[1])
            /\ "coding" \in DOMAIN r.body[q] =>
                    /\ IsDocument(r.body[q].doc)
                    /\ DOMAIN r.body[q].doc \subseteq Seq(STRING) /\ IsFiniteSet(DOMAIN r.body[q].doc)

(* The items of an array as documents, and the array of such items. *)
Items(d, p) == [i \in 1 .. Cardinality(Elements(d, p)) |-> Sub(d, p \o <<Index[i]>>)]
ArrayOf(docs) ==
    [q \in {<<>>} \cup UNION {{<<Index[i]>> \o r : r \in DOMAIN docs[i]} : i \in DOMAIN docs} |->
        IF q = <<>> THEN Arr ELSE docs[CHOOSE i \in DOMAIN docs : Index[i] = Head(q)][Tail(q)]]

-----------------------------------------------------------------------------
(* Identity: identity.rs *)

IdKeys == {"device_id", "email", "account_uuid", "session_id"}
Canonical == Str("canonical")

(* Where an object has one of them, at any depth. *)
IdPaths(d) == {q \in DOMAIN d \ {<<>>} : IsObj(d, Front(q)) /\ Key(q) \in IdKeys}
Canonicalize(d, paths) == PutAll(d, [q \in paths |-> Leaf(Canonical)])

(* rewrite_event_identity: the keys the object has already. *)
RewriteEventIdentity(d) == Canonicalize(d, {q \in IdPaths(d) : Len(q) = 1})

(* Mutant: only the outermost object. *)
RewriteOuterIdentity(d) == RewriteEventIdentity(d)
(* rewrite_recursive_identity: in every object, from the root down.  What  *)
(* was inside a replaced value is gone with it.                            *)
RewriteRecursiveIdentity(d) ==
    Canonicalize(d, {q \in IdPaths(d) : \A p \in IdPaths(d) : ~IsStrictPrefix(p, q)})

(* rewrite_messages_metadata: metadata.user_id is an object encoded as a   *)
(* string; three fields are set whether or not it has them, email only if. *)
RewriteMessagesMetadata(d) ==
    LET id == <<"metadata", "user_id">> IN
    IF IsObj(d, <<"metadata">>) /\ EncodesObj(d, id, "json")
    THEN LET user == d[id].doc
             set == (IdKeys \ {"email"}) \cup {k \in {"email"} : <<k>> \in DOMAIN user}
         IN  [d EXCEPT ![id] = Enc("json", Insert(user, <<>>, [k \in set |-> Canonical]))]
    ELSE d

-----------------------------------------------------------------------------
(* Prompt texts: prompt.rs *)

Fact(name, who, reminder) == [fact |-> name, who |-> who, reminder |-> reminder]
Dir(dir, reminder) == [dir |-> dir, reminder |-> reminder]
PathIn(path, reminder) == [path |-> path, reminder |-> reminder]
Version(cc, billing) == [cc |-> cc, billing |-> billing, reminder |-> FALSE]
Plain == [plain |-> TRUE, reminder |-> FALSE]
Gap(space) == [blank |-> space, cr |-> 0, reminder |-> FALSE]

NoHash == <<>>
ClientHash == <<"client">>
(* fallback_cch_hash is taken from the clock, so two need not be equal. *)
FallbackHashes == {"earlier", "later"} \X {"fallback"}
(* compute_cch depends on the text alone, of which it reads three          *)
(* characters; a hash is the text it is computed from.                     *)
ComputeCch(text) == <<"cch", text>>

(* canonical_home_prefix: /X/Y/ at the start of working_dir. *)
CanonicalHomePrefix ==
    IF Len(WorkingDir) >= 3 THEN SubSeq(WorkingDir, 1, 2) ELSE <<"Users", "user">>
(* home_directory_regex, /(Users|home)/X/, anywhere in the path.  A path   *)
(* with a second home directory after the first is left out.               *)
HomeAt(path) == {i \in 1 .. Len(path) - 2 : path[i] \in {"Users", "home"} /\ path[i + 1] # ""}
(* Mutant: a fixed prefix. *)
RewriteHomeFixed(path) ==
    IF HomeAt(path) = {} THEN path
    ELSE <<"Users", "user">> \o SubSeq(path, Min(HomeAt(path)) + 2, Len(path))
RewriteHome(path) ==
    IF HomeAt(path) = {} THEN path
    ELSE LET i == Min(HomeAt(path))
         IN  SubSeq(path, 1, i - 1) \o CanonicalHomePrefix \o SubSeq(path, i + 2, Len(path))
(* working_directory_regex wants a path that begins with a slash. *)
Absolute(dir) == dir[1] # "C:"

(* The value of an OS version is all up to the line break.  One with a tag *)
(* behind it is left out.                                                  *)
RewriteLine(line, hash) ==
    [field \in DOMAIN line |->
        CASE field = "who" -> "canonical"
          [] field = "dir" -> RewriteHome(IF Absolute(line.dir) THEN WorkingDir ELSE line.dir)
          [] field = "path" -> RewriteHome(line.path)
          [] field = "cc" /\ hash # NoHash -> hash
          [] field = "cr" /\ "fact" \in DOMAIN line /\ line.fact = "OS Version" -> 0
          [] OTHER -> line[field]]

RewritePromptText(text, hash) == [i \in DOMAIN text |-> RewriteLine(text[i], hash)]
(* Mutant: the whole message is rewritten. *)
RewriteWholeMessage(text) == RewritePromptText(text, NoHash)
RewriteSystemReminders(text) ==
    [i \in DOMAIN text |->
        IF text[i].reminder THEN RewriteLine(text[i], NoHash) ELSE text[i]]

IsBilling(line) == "billing" \in DOMAIN line /\ line.billing
(* Mutant: what follows the header in the block goes with it. *)
StripFromBillingHeader(text) ==
    IF \E i \in DOMAIN text : IsBilling(text[i]) THEN <<>> ELSE text
(* str::lines: a carriage return goes with the line break behind it, and   *)
(* there is no line behind the last line break.                            *)
WithoutCr(line) ==
    IF "cr" \in DOMAIN line /\ line.cr > 0 THEN [line EXCEPT !.cr = @ - 1] ELSE line
TextLines(text) ==
    [i \in {j \in DOMAIN text : j < Len(text) \/ ~IsEmptyLine(text[j])} |->
        IF i < Len(text) THEN WithoutCr(text[i]) ELSE text[i]]
(* join: one empty line is the empty text. *)
JoinLines(lines) == IF Len(lines) = 1 /\ IsEmptyLine(lines[1]) THEN <<>> ELSE lines
StripBillingHeaderBlock(text) ==
    LET lines == TextLines(text)
    IN  JoinLines(Without(lines, {line \in Range(lines) : IsBilling(line)}))

-----------------------------------------------------------------------------
(* /v1/messages: server.rs *)

(* The paths whose text rewrite_text_container hands to its closure. *)
TextContainer(d, p) ==
    CASE p \notin DOMAIN d -> {}
      [] IsArr(d, p) -> {q \o <<"text">> : q \in Elements(d, p)} \cap DOMAIN d
      [] IsObj(d, p) -> {p \o <<"text">>} \cap DOMAIN d
      [] OTHER -> {p}
(* An item of an array, a string or an object with a text.  An item that   *)
(* is itself an array is left out.                                         *)
ItemText(d, p) ==
    IF p \in DOMAIN d /\ IsObj(d, p) THEN {p \o <<"text">>} \cap DOMAIN d ELSE {p} \cap DOMAIN d

System == <<"system">>
SystemItems(d) == Elements(d, System)
SystemTexts(d) ==
    IF IsArr(d, System) THEN UNION {ItemText(d, q) : q \in SystemItems(d)}
                        ELSE TextContainer(d, System)

(* retain: the items that are not blank move up. *)
IsBlank(text) == \A i \in DOMAIN text : "blank" \in DOMAIN text[i]
Blank(item) == \E q \in ItemText(item, <<>>) : IsText(item, q) /\ IsBlank(item[q].text)
BlankItems(items) == {item \in Range(items) : Blank(item)}
(* Mutant: the items that are kept do not move up. *)
RetainItemsInPlace(d) ==
    LET items == Items(d, System)
        blank == {System \o <<Index[i]>> : i \in {j \in DOMAIN items : Blank(items[j])}}
    IN  [q \in DOMAIN d \ UNION {Below(d, p) : p \in blank} |-> d[q]]
(* Mutant: one blank item is removed. *)
RetainItemsButOne(d) ==
    LET items == Items(d, System)
        blank == {i \in DOMAIN items : Blank(items[i])}
    IN  Put(d, System, ArrayOf(IF blank = {} THEN items ELSE RemoveAt(items, Min(blank))))
RetainItems(d) ==
    LET items == Items(d, System)
    IN  Put(d, System, ArrayOf(Without(items, BlankItems(items))))

(* strip_billing_header_only, also what rewrite_system_body begins with. *)
StripBillingHeader(d) ==
    LET stripped == MapTexts(d, SystemTexts(d), StripBillingHeaderBlock)
    IN  IF IsArr(d, System) THEN RetainItems(stripped) ELSE stripped

(* rewrite_system_body: a system that is an object is left as it is, and   *)
(* the items of an array are stripped a second time when they are reworded.*)
KeptText(text, strip) == IF strip THEN StripBillingHeaderBlock(text) ELSE text
RewriteSystemBody(d, hash, strip) ==
    IF IsObj(d, System) THEN d
    ELSE LET kept == IF strip /\ IsArr(d, System) THEN StripBillingHeader(d) ELSE d
         IN  MapTexts(kept, SystemTexts(kept), LAMBDA text : RewritePromptText(KeptText(text, strip), hash))

(* extract_first_user_message_text; NoText stands for None. *)
NoText == <<>>
ExtractFirstUserMessageText(d) ==
    LET users == {i \in DOMAIN Index :
                    /\ <<"messages", Index[i], "role">> \in DOMAIN d
                    /\ d[<<"messages", Index[i], "role">>] = Str("user")}
        content == <<"messages", Index[Min(users)], "content">>
        blocks == {i \in DOMAIN Index :
                    /\ content \o <<Index[i], "type">> \in DOMAIN d
                    /\ d[content \o <<Index[i], "type">>] = Str("text")
                    /\ IsText(d, content \o <<Index[i], "text">>)}
        found == IsArr(d, <<"messages">>) /\ users # {}
    IN  CASE found /\ IsText(d, content) -> d[content].text
          [] found /\ IsArr(d, content) /\ blocks # {} ->
                d[content \o <<Index[Min(blocks)], "text">>].text
          [] OTHER -> NoText

ContentTexts(d) ==
    UNION {TextContainer(d, m \o <<"content">>) : m \in Elements(d, <<"messages">>)}

(* Mutant: the hash is taken from the message as the client sent it. *)
RewriteMessagesBodyHashFirst(d, policy, fallback) ==
    LET identified == RewriteMessagesMetadata(d)
        reminded == MapTexts(identified, ContentTexts(identified), RewriteSystemReminders)
        first == ExtractFirstUserMessageText(identified)
    IN  IF policy.mode = "aggressive"
        THEN RewriteSystemBody(reminded,
                IF first = NoText THEN fallback ELSE ComputeCch(first), policy.strip)
        ELSE IF policy.strip THEN StripBillingHeader(identified) ELSE identified
RewriteMessagesBody(d, policy, fallback) ==
    LET identified == RewriteMessagesMetadata(d)
        reminded == MapTexts(identified, ContentTexts(identified), RewriteSystemReminders)
        first == ExtractFirstUserMessageText(reminded)
    IN  CASE policy.mode = "aggressive" ->
                RewriteSystemBody(reminded,
                    IF first = NoText THEN fallback ELSE ComputeCch(first), policy.strip)
          [] policy.mode # "aggressive" /\ policy.strip -> StripBillingHeader(identified)
          [] OTHER -> identified

-----------------------------------------------------------------------------
(* /event_logging/batch: server.rs, env.rs *)

EventData(d) ==
    {e \o <<"event_data">> : e \in Elements(d, <<"events">>)} \cap DOMAIN d
GatewayKeys == {"baseUrl", "base_url", "gateway"}
DropGatewayKeys(d) == [q \in {r \in DOMAIN d : r = <<>> \/ Head(r) \notin GatewayKeys} |-> d[q]]

(* build_canonical_env_from_config, of which two keys are enough here. *)
CanonicalEnv == Insert(Leaf(Obj), <<>>, [k \in {"platform", "build_time"} |-> Canonical])
(* Mutant: the canonical map is merged into the client's. *)
MergeEventEnv(event) ==
    IF IsObj(event, <<"env">>)
    THEN Insert(event, <<"env">>, [k \in {"platform", "build_time"} |-> Canonical]) ELSE event
(* rewrite_event_env: the whole map is replaced, where there is one. *)
RewriteEventEnv(event) ==
    IF <<"env">> \in DOMAIN event THEN Put(event, <<"env">>, CanonicalEnv) ELSE event

(* random_in_range: the upper end is excluded, and min stands for an empty *)
(* range.                                                                  *)
InRange(range) == IF range[2] <= range[1] THEN {range[1]} ELSE range[1] .. range[2] - 1
Metrics == [rss : InRange(RssRange), heapTotal : InRange(HeapTotalRange),
            heapUsed : InRange(HeapUsedRange)]
(* rewrite_process_fields; constrained_memory is fixed, and so left out. *)
ProcessFields(drawn) == [k \in DOMAIN drawn |-> Num(drawn[k])]
(* rewrite_event_process: an object, or one encoded as base64. *)
RewriteEventProcess(event, drawn) ==
    LET process == <<"process">> IN
    CASE IsObj(event, process) -> Insert(event, process, ProcessFields(drawn))
      [] EncodesObj(event, process, "base64") ->
            [event EXCEPT ![process] = Enc("base64", Insert(@.doc, <<>>, ProcessFields(drawn)))]
      [] OTHER -> event

RewriteAdditionalMetadata(event) ==
    LET meta == <<"additional_metadata">> IN
    IF Encodes(event, meta, "base64")
    THEN [event EXCEPT ![meta] =
            Enc("base64", RewriteRecursiveIdentity(DropGatewayKeys(@.doc)))]
    ELSE event

(* event_data, of one event.                                               *)
(* Mutant: environment and process are masked in every mode. *)
RewriteEventAnyMode(event, policy, drawn) ==
    LET masked == RewriteEventProcess(RewriteEventEnv(RewriteEventIdentity(event)), drawn)
    IN  RewriteAdditionalMetadata(DropGatewayKeys(masked))
RewriteEvent(event, policy, drawn) ==
    LET identified == RewriteEventIdentity(event)
        masked == IF policy.mode = "aggressive"
                  THEN RewriteEventProcess(RewriteEventEnv(identified), drawn) ELSE identified
    IN  IF IsObj(event, <<>>) THEN RewriteAdditionalMetadata(DropGatewayKeys(masked)) ELSE event

(* is_timestamp_key, of which three are enough here. *)
TimestampKeys == {"timestamp", "created_at", "client_timestamp"}
(* Mutant: numbers are left. *)
NormalizeTextTimestamps(d) ==
    [q \in DOMAIN d |->
        IF q # <<>> /\ Key(q) \in TimestampKeys /\ IsString(d, q) THEN Canonical ELSE d[q]]
(* normalize_timestamps, at every depth but not inside encoded strings. *)
NormalizeTimestamps(d) ==
    LET IsTime(q) == q # <<>> /\ Key(q) \in TimestampKeys
    IN  [q \in DOMAIN d |->
            CASE IsTime(q) /\ IsString(d, q) -> Canonical
              [] IsTime(q) /\ IsNum(d, q) -> Num(BuildMillis)
              [] OTHER -> d[q]]

(* drawn[e] is what random_in_range gives for the event at e. *)
RewriteEventBatch(d, policy, drawn) ==
    LET new == [e \in EventData(d) |-> RewriteEvent(Sub(d, e), policy, drawn[e])]
        rewritten == PutAll(d, new)
    IN  IF policy.normalize /\ IsArr(d, <<"events">>) THEN NormalizeTimestamps(rewritten) ELSE rewritten

-----------------------------------------------------------------------------
(* The policy and the whole rewrite: server.rs *)

None == "none"
NoPolicy == [mode |-> None]
(* active_rewrite_policy: a profile has NoPolicy, or one whose options may *)
(* each be None.                                                           *)
ActiveRewritePolicy(opt) ==
    IF opt = NoPolicy
    THEN [mode |-> "aggressive", strip |-> TRUE, normalize |-> FALSE, preserve |-> <<>>]
    ELSE [mode |-> IF opt.mode \in {"passthrough", "conservative"}
                   THEN opt.mode ELSE "aggressive",
          strip |-> opt.strip # "false",
          normalize |-> opt.normalize = "true",
          preserve |-> opt.preserve]

(* preserve_field: value_at_path in the original, set_value_at_path in the *)
(* rewritten body, whose parent must be there, and its index if an array.  *)
PreserveField(original, d, p) ==
    IF /\ p \in DOMAIN original
       /\ IsObj(d, Front(p)) \/ (IsArr(d, Front(p)) /\ p \in DOMAIN d)
    THEN Put(d, p, Sub(original, p))
    ELSE d

(* uri.path(): which of the three tests of rewrite_request_body it passes. *)
RewriteRoute(d, path, policy, drawn) ==
    CASE "messages" \in path -> RewriteMessagesBody(d, policy, drawn.hash)
      [] path \cap {"messages", "batch"} = {"batch"} -> RewriteEventBatch(d, policy, drawn.metrics)
      [] path = {"generic"} -> RewriteEventIdentity(d)
      [] OTHER -> d

(* The fields of preserve_fields, one after the other: after the first n.  *)
PreserveFields(original, d, paths) ==
    LET preserved[n \in 0 .. Len(paths)] ==
            IF n = 0 THEN d ELSE PreserveField(original, preserved[n - 1], paths[n])
    IN  preserved[Len(paths)]

(* What one rewriting draws: metrics for each event, and a fallback hash. *)
Draws(d) == [metrics : [EventData(d) -> Metrics], hash : FallbackHashes]

(* rewrite_request_body *)
RewriteRequestBody(body, path, opt, drawn) ==
    LET policy == ActiveRewritePolicy(opt) IN
    IF body = <<>> \/ policy.mode = "passthrough" THEN body
    ELSE PreserveFields(body, RewriteRoute(body, path, policy, drawn), policy.preserve)

(* build_verification_payload: the sample, rewritten, as _verify shows it. *)
Sample ==
    Leaf(Obj) @@ (System :> Arr)
    @@ (<<"system", "0">> :> Obj) @@ (<<"system", "0", "text">> :> Text(<<Version(ClientHash, TRUE)>>))
    @@ (<<"system", "1">> :> Obj)
    @@ (<<"system", "1", "text">> :> Text(<<Fact("Platform", "client", FALSE)>>))
    @@ (<<"messages">> :> Arr) @@ (<<"messages", "0">> :> Obj)
    @@ (<<"messages", "0", "role">> :> Str("user"))
    @@ (<<"messages", "0", "content">> :> Text(<<Plain>>))
VerificationPayload(opt) ==
    [billingHeader |-> "(stripped)",
     system |-> RewriteRequestBody(Sample, {"messages"}, opt, CHOOSE drawn \in Draws(Sample) : TRUE)]

-----------------------------------------------------------------------------
(* One request through the gateway and, when upstream.url is a gateway of  *)
(* the same configuration, through that one too.                           *)

VARIABLES
    request,   \* what the client sent
    option,    \* the policy of this gateway
    out,       \* the body, as it is now
    stage      \* "received", "forwarded" once, or "relayed" by a second one

rewriteVars == <<request, option, out, stage>>

RewriteInit ==
    /\ request \in ClientRequests
    /\ option \in Options
    /\ out = request.body
    /\ stage = "received"

RewriteOnce(from, to) ==
    /\ stage = from
    /\ \E drawn \in Draws(out) :
            out' = RewriteRequestBody(out, request.path, option, drawn)
    /\ stage' = to
    /\ UNCHANGED <<request, option>>

Forward == RewriteOnce("received", "forwarded")
Relay == RewriteOnce("forwarded", "relayed")

RewriteNext == Forward \/ Relay
RewriteSpec == RewriteInit /\ [][RewriteNext]_rewriteVars

-----------------------------------------------------------------------------
(* Properties *)

(* Type invariant: a body that is JSON stays a JSON document, whatever is  *)
(* removed, moved up, inserted or put back.                                *)
BodyTypeOK ==
    /\ request \in ClientRequests
    /\ option \in Options
    /\ stage \in {"received", "forwarded", "relayed"}
    /\ IsDocument(out)

Policy == ActiveRewritePolicy(option)
Forwarded == stage = "forwarded" /\ request.body # <<>>
Is(route) == route \in request.path /\ (route = "batch" => "messages" \notin request.path)
                                    /\ (route = "generic" => request.path = {"generic"})
Aggressively == Forwarded /\ Policy.mode = "aggressive"
PreservedByName(q) == \E i \in DOMAIN Policy.preserve : IsPrefix(Policy.preserve[i], q)

(* Where the client's identity still shows: in a field of the objects that *)
(* carry identities on this route, or in an encoded document, at any depth *)
(* in additional_metadata.                                                 *)
IdObjects == CASE Is("batch") -> EventData(out) [] Is("generic") -> {<<>>} [] OTHER -> {}
EncodedIds(q) ==
    \/ Is("messages") /\ q = <<"metadata", "user_id">> /\ EncodesObj(out, q, "json")
    \/ /\ Is("batch") /\ Front(q) \in EventData(out) /\ Key(q) = "additional_metadata"
       /\ Encodes(out, q, "base64")
LeakedIds ==
    {q \in DOMAIN out \ {<<>>} :
        \/ Front(q) \in IdObjects /\ Key(q) \in IdKeys /\ out[q] = Str("client")
        \/ /\ EncodedIds(q)
           /\ \E r \in DOMAIN out[q].doc \ {<<>>} :
                /\ Len(r) = 1 \/ Is("batch")
                /\ Key(r) \in IdKeys
                /\ out[q].doc[r] = Str("client")}

(* Under every policy but passthrough, conservative included, no identity  *)
(* of the client leaves the gateway in a field it knows, at any depth of   *)
(* an encoded additional_metadata, except one that preserve_fields names.  *)
IdentityIsCanonical ==
    Forwarded /\ Policy.mode # "passthrough" => \A q \in LeakedIds : PreservedByName(q)

SystemLines(d) ==
    UNION {{d[q].text[i] : i \in DOMAIN d[q].text} : q \in {p \in SystemTexts(d) : IsText(d, p) /\ ~PreservedByName(p)}}
ReminderLines(d) ==
    UNION {{l \in {d[q].text[i] : i \in DOMAIN d[q].text} : l.reminder}
            : q \in {p \in ContentTexts(d) : IsText(d, p) /\ ~PreservedByName(p)}}

(* working_dir begins with the home directory of its user, and no path     *)
(* that is rewritten has a second one.                                     *)
OneHome(path) == \A i, j \in HomeAt(path) : i = j
HomesAreRecognized ==
    /\ Len(WorkingDir) >= 3 /\ HomeAt(WorkingDir) \subseteq {1}
    /\ WorkingDir[2] \notin {"Users", "home"}
    /\ \A q \in DOMAIN request.body : IsText(request.body, q) =>
            \A line \in Range(request.body[q].text) :
                /\ "dir" \in DOMAIN line => OneHome(line.dir)
                /\ "path" \in DOMAIN line => OneHome(line.path)

(* In aggressive mode every text the client's program wrote about its      *)
(* machine shows the canonical machine: in all shapes of a system prompt   *)
(* that is text, and in the reminders inside messages.  The working        *)
(* directory is exactly the configured one: the pass over home directories *)
(* that follows does not rewrite it a second time, and the home            *)
(* directories it leaves are those of the working directory.               *)
PromptIsCanonical ==
    Aggressively /\ Is("messages") =>
        \A l \in ReminderLines(out) \cup (IF IsObj(out, System) THEN {} ELSE SystemLines(out)) :
            /\ "fact" \in DOMAIN l => l.who = "canonical"
            /\ "dir" \in DOMAIN l /\ Absolute(l.dir) => l.dir = WorkingDir
            /\ "path" \in DOMAIN l =>
                    \A i \in HomeAt(l.path) : SubSeq(l.path, i, i + 1) = SubSeq(WorkingDir, 1, 2)

(* What the user wrote in a message outside reminders is never touched,    *)
(* and neither is the number and order of the lines around it.             *)
UserWordsUntouched ==
    Forwarded =>
        \A q \in ContentTexts(request.body) : IsText(request.body, q) =>
            /\ Len(out[q].text) = Len(request.body[q].text)
            /\ \A i \in DOMAIN out[q].text :
                    ~request.body[q].text[i].reminder => out[q].text[i] = request.body[q].text[i]

(* The hash announced in the system prompt is that of the first user       *)
(* message the upstream receives, not of the one the client sent           *)
(* (src/rewriter.ts:86), unless preserve_fields puts the client's message  *)
(* back.                                                                   *)
MessagesPreserved ==
    \E i \in DOMAIN Policy.preserve :
        IsPrefix(Policy.preserve[i], <<"messages">>) \/ IsPrefix(<<"messages">>, Policy.preserve[i])
HashOfReceived ==
    Aggressively /\ Is("messages") /\ ExtractFirstUserMessageText(out) # NoText =>
        \A l \in IF IsObj(out, System) THEN {} ELSE SystemLines(out) :
            "cc" \in DOMAIN l => l.cc = ComputeCch(ExtractFirstUserMessageText(out))
HashMatchesMessage == ~MessagesPreserved => HashOfReceived

(* A preserved field inside the system: its index is that of the client's  *)
(* prompt, and stripping may have moved the items.                         *)
SystemIndexed == \E i \in DOMAIN Policy.preserve : IsStrictPrefix(System, Policy.preserve[i])

(* A line that says something, and what it says. *)
Spoken(line) == ~IsBilling(line) /\ "blank" \notin DOMAIN line
Worded(line) == [field \in DOMAIN line \ {"cr"} |-> line[field]]
SpokenLines(d) == {Worded(l) : l \in {k \in SystemLines(d) : Spoken(k)}}

(* Conservative mode changes identity and billing lines, not what the      *)
(* prompt, the environment or the process say, but for their timestamps;   *)
(* of the blank lines and the line ends of the prompt it says nothing.     *)
ConservativeKeepsTheRest ==
    Forwarded /\ Policy.mode = "conservative" =>
        /\ ~SystemIndexed => SpokenLines(out) = SpokenLines(request.body)
        /\ \A e \in EventData(request.body), k \in {"env", "process"} :
                LET old == Below(request.body, e \o <<k>>) IN
                /\ Below(out, e \o <<k>>) = old
                /\ \A q \in old : out[q] =
                        IF Is("batch") /\ Policy.normalize /\ ~PreservedByName(q)
                        THEN NormalizeTimestamps(request.body)[q] ELSE request.body[q]

(* No key or value of the client's environment outlives aggressive mode,   *)
(* whatever keys the client has that the profile has not, and the process  *)
(* reports values the configured ranges allow.                             *)
MaskedRss(node) == node.num \in RssRange[1] .. Max({RssRange[1], RssRange[2]})
EventsAreCanonical ==
    Aggressively /\ Is("batch") =>
        \A e \in EventData(out) :
            LET process == e \o <<"process">>
                rss == process \o <<"rss">>
            IN  /\ \A q \in Below(out, e \o <<"env">>) : PreservedByName(q) \/ out[q] \in {Obj, Canonical}
                /\ IsObj(out, process) => PreservedByName(rss) \/ MaskedRss(out[rss])
                /\ EncodesObj(out, process, "base64") =>
                        PreservedByName(process) \/ MaskedRss(out[process].doc[<<"rss">>])

(* When timestamps are normalised, no time of the client is left at any    *)
(* depth, as text or as a number, in the environment either.               *)
NoClientTimestamp ==
    Forwarded /\ Policy.mode # "passthrough" /\ Policy.normalize /\ Is("batch")
    /\ IsArr(out, <<"events">>) =>
        \A q \in DOMAIN out \ {<<>>} :
            Key(q) \in TimestampKeys /\ (IsString(out, q) \/ IsNum(out, q)) =>
                PreservedByName(q) \/ out[q] \in {Canonical, Num(BuildMillis)}

(* A second gateway of the same configuration changes nothing more in a    *)
(* message: rewriting is idempotent, billing hash included unless there is *)
(* no message to take it from.  Where billing lines are stripped, this is  *)
(* so if no system text that leaves the first one ends in a line break or  *)
(* has a carriage return before one: lines and join drop one on each pass. *)
HashFellBack ==
    /\ Policy.mode = "aggressive" /\ ExtractFirstUserMessageText(out) = NoText
    /\ \E line \in SystemLines(out) : "cc" \in DOMAIN line
IsTidy(text) ==
    \A i \in DOMAIN text :
        IF i < Len(text) THEN "cr" \in DOMAIN text[i] => text[i].cr = 0 ELSE ~IsEmptyLine(text[i])
PromptIsTidy ==
    Policy.strip => \A q \in SystemTexts(out) : IsText(out, q) => IsTidy(out[q].text)
RelayChangesNothing ==
    [][stage = "forwarded" /\ Is("messages") /\ HomesAreRecognized /\ ~SystemIndexed /\ ~HashFellBack
       /\ PromptIsTidy
        => out' = out]_rewriteVars

(* Stripping removes billing lines and blank ones, and nothing else: every *)
(* other line of the client's prompt has its counterpart in what leaves,   *)
(* and a field that preserve_fields names is put back where it was         *)
(* (config/canonical-profile.schema.json:316).                             *)
PromptLines(d) ==
    UNION {{q} \X {i \in DOMAIN d[q].text : Spoken(d[q].text[i])}
            : q \in {p \in SystemTexts(d) : IsText(d, p)}}
PromptSurvives ==
    Forwarded => Cardinality(PromptLines(out)) = Cardinality(PromptLines(request.body))

(* What leaves shows the canonical machine in every place that shows one,  *)
(* through any combination of policies: the places are rewritten by        *)
(* different functions one after the other, preserve_fields last.          *)
NothingOfTheClient ==
    /\ IdentityIsCanonical /\ EventsAreCanonical /\ NoClientTimestamp
    /\ HomesAreRecognized => PromptIsCanonical

(* And all the rest of the body is still there and still a document: what  *)
(* the user wrote, what the policy leaves alone, the lines of the prompt.  *)
NothingElseChanges ==
    /\ BodyTypeOK /\ UserWordsUntouched /\ ConservativeKeepsTheRest
    /\ ~SystemIndexed => PromptSurvives

(* What the documents say and the code does not do: TLC finds each of      *)
(* these violated (README, Disagreements).                                 *)

(* tests/parity-checklist.md:25: the billing header is stripped from       *)
(* system payloads.                                                        *)
BillingStripped ==
    Forwarded /\ Policy.mode # "passthrough" /\ Policy.strip =>
        \A l \in SystemLines(out) : ~IsBilling(l)

(* config/canonical-profile.schema.json:296: the policy is not consumed by *)
(* the rewriter, so every profile rewrites like one without a policy.      *)
PolicyIsInert ==
    Forwarded =>
        \E drawn \in Draws(request.body) :
            out = RewriteRequestBody(request.body, request.path, NoPolicy, drawn)

(* server.rs _info: _verify shows how the gateway rewrites a sample.       *)
VerifyTellsTheTruth ==
    LET payload == VerificationPayload(option)
    IN  payload.billingHeader = "(stripped)" =>
            \A q \in SystemTexts(payload.system) :
                \A i \in DOMAIN payload.system[q].text : ~IsBilling(payload.system[q].text[i])

(* config.example.yaml:76: process metrics look like a real machine; a     *)
(* V8 heap never uses more than its total.                                 *)
HeapFits ==
    Aggressively /\ Is("batch") =>
        \A e \in EventData(out) : IsObj(out, e \o <<"process">>) =>
            LET process == Sub(out, e \o <<"process">>) IN
            process[<<"heapUsed">>].num <= process[<<"heapTotal">>].num
=============================================================================
