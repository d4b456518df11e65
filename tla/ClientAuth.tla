----------------------------- MODULE ClientAuth -----------------------------
(***************************************************************************)
(* Who a request comes from and which headers it keeps: AuthManager of     *)
(* crates/core/src/auth.rs and rewrite_headers of                          *)
(* crates/core/src/rewriter/headers.rs.                                    *)
(*                                                                         *)
(* A header value is the sequence of its blank-separated words, so <<>> is *)
(* an empty value; Opaque is one that is not visible ASCII.  The headers   *)
(* of a message are a function from names to the values of that name, in   *)
(* the order they came in.                                                 *)
(***************************************************************************)
EXTENDS Naturals, SequencesExt

CONSTANT TokenEntries     \* auth.tokens of the configuration: [name, token]

ASSUME EntriesAssumption ==
    TokenEntries \in Seq([name : STRING, token : Seq(STRING)])

Opaque == <<"opaque">>
Nobody == "nobody"

(* AuthManager::new inserts the entries in order: the last of a token wins. *)
AddToken(tokens, entry) == (entry.token :> entry.name) @@ tokens
ClientTokens == FoldLeft(AddToken, <<>>, TokenEntries)
ClientOf(token) == IF token \in DOMAIN ClientTokens THEN ClientTokens[token] ELSE Nobody

NoValue == <<"no", "value">>
(* header_value: the first value of the name, if to_str can read it. *)
HeaderValue(headers, name) ==
    IF name \in DOMAIN headers /\ headers[name][1] # Opaque THEN headers[name][1] ELSE NoValue

(* extract_bearer_token; the scheme is compared without regard to case. *)
Bearer == {"Bearer", "bearer", "BEARER"}
ExtractBearerToken(value) ==
    IF Len(value) = 2 /\ value[1] \in Bearer THEN <<value[2]>> ELSE NoValue

AuthenticateApiKey(headers) == ClientOf(HeaderValue(headers, "x-api-key"))
(* Mutant: a proxy header that names nobody gives way. *)
AuthenticateBearerFallsBack(headers) ==
    LET proxy == ClientOf(ExtractBearerToken(HeaderValue(headers, "proxy-authorization")))
    IN  IF proxy # Nobody THEN proxy
        ELSE ClientOf(ExtractBearerToken(HeaderValue(headers, "authorization")))
AuthenticateBearer(headers) ==
    LET name == IF "proxy-authorization" \in DOMAIN headers
                THEN "proxy-authorization" ELSE "authorization"
    IN  ClientOf(ExtractBearerToken(HeaderValue(headers, name)))

(* AuthManager::authenticate *)
Authenticate(headers) ==
    IF AuthenticateApiKey(headers) # Nobody
    THEN AuthenticateApiKey(headers) ELSE AuthenticateBearer(headers)

-----------------------------------------------------------------------------
CredentialHeaders == {"proxy-authorization", "authorization", "x-api-key"}
(* Mutant: the proxy's own header is not among them. *)
StrippedHeadersButProxy ==
    {"authorization", "x-api-key", "host", "connection", "proxy-connection",
     "transfer-encoding", "x-anthropic-billing-header"}
StrippedHeaders ==
    CredentialHeaders \cup {"host", "connection", "proxy-connection",
                            "transfer-encoding", "x-anthropic-billing-header"}
CanonicalUserAgent == <<"claude-code/canonical", "(external,", "cli)">>

(* join_or_append_header: the values of a name become one.  It is the      *)
(* sequence of them here, where the code puts commas between them.         *)
(* Mutant: the last of several values is kept. *)
JoinLast(values) == <<values[Len(values)]>>
Join(values) == values

(* rewrite_headers; a repeated user-agent is replaced once. *)
RewriteHeaders(headers) ==
    [name \in DOMAIN headers \ StrippedHeaders |->
        IF name = "user-agent" THEN <<CanonicalUserAgent>> ELSE Join(headers[name])]
=============================================================================
