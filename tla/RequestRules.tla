---------------------------- MODULE RequestRules ----------------------------
(***************************************************************************)
(* What a start request must look like: to the page (lib/validation.ts), to *)
(* the backend before it touches a session (api/validate.go), and to the    *)
(* clients it then builds (stream/security.go, stream/client.go).           *)
(*                                                                          *)
(* A field is one of the cases that a validator treats apart, or that one of *)
(* the libraries below it does (external): the browser's and Go's URL        *)
(* parsers disagree about what a URL is and where its host begins, and trim  *)
(* in JavaScript and TrimSpace in Go about what is blank. So the two sides   *)
(* do not have one set of rules, and these are written down as they are.     *)
(***************************************************************************)
EXTENDS Naturals, Sequences

CONSTANT AllowPrivateTargets

ASSUME RulesAssumption == AllowPrivateTargets \in BOOLEAN

Urls == {"blank", "otherScheme", "userinfo", "fragment",
         "malformed",       \* to both parsers
         "onlyWebParses",   \* bad escape, control character, backslash, escaped host
         "onlyGoParses",    \* port above 65535, IPv4 out of range, "<" in the host
         "emptyUserinfo",   \* "http://@h": none to the browser
         "noHost",          \* "http:///h": the browser finds one
         "long",            \* in the page's UTF-16 units and in bytes
         "longInBytes",     \* in bytes only
         "private",         \* the literal address of a private network
         "named"}           \* a host to be resolved

Headers == {"none", "plain",
            "notFlat",      \* not a JSON object of strings
            "reserved", "many", "bigValue", "newline",
            "heavy"}        \* each allowed, the body above its limit

Paths == {"blank", "set",
          "blankToWeb",     \* a byte order mark, which TrimSpace keeps
          "blankToGo",      \* a next-line character, which trim keeps
          "long"}           \* the body above its limit

Streams == [url : Urls, headers : Headers]
Requests == [streamA : Streams, streamB : Streams, path : Paths]

(* useConfigForm's initial state. *)
EmptyForm ==
    LET s == [url |-> "blank", headers |-> "none"]
    IN  [streamA |-> s, streamB |-> s, path |-> "set"]

-----------------------------------------------------------------------------
(* The page *)

validateUrl(u) ==
    u \notin {"blank", "long", "malformed", "onlyGoParses", "otherScheme", "userinfo", "fragment"}

validateHeadersText(h) == h # "notFlat"

validateCorrelationPath(p) == p \notin {"blank", "blankToWeb"}

PageAccepts(req) ==
    /\ \A s \in {req.streamA, req.streamB} : validateUrl(s.url) /\ validateHeadersText(s.headers)
    /\ validateCorrelationPath(req.path)

-----------------------------------------------------------------------------
(* The backend. The order of its checks decides only the message. *)

Decodes(req) ==
    /\ \A s \in {req.streamA, req.streamB} : s.headers \notin {"notFlat", "heavy"}
    /\ req.path # "long"

ValidateURL(u) ==
    u \notin {"blank", "malformed", "onlyWebParses", "otherScheme", "userinfo", "emptyUserinfo",
               "fragment", "noHost"}

ValidateHeaderName(h) == h # "reserved"

validateStream(s) ==
    /\ s.url \notin {"blank", "long", "longInBytes"} /\ ValidateURL(s.url)
    /\ ValidateHeaderName(s.headers) /\ s.headers \notin {"many", "bigValue", "newline"}

(* startHandler and ValidateSessionRequest: before the controller's mutex. *)
BackendAccepts(req) ==
    /\ Decodes(req) /\ req.path \notin {"blank", "blankToGo"}
    /\ validateStream(req.streamA) /\ validateStream(req.streamB)

(* What a resolver may say of a name; nothing is a failed lookup. *)
Resolutions == {<<>>, <<"private">>, <<"public">>, <<"private", "public">>}

Allowed(ip) == AllowPrivateTargets \/ ip = "public"

(* ResolveAndPin finds an address: a literal is its own, and the first       *)
(* allowed one of a name's addresses is taken.                               *)
ResolveAndPin(u, ips) ==
    IF u = "private" THEN Allowed("private") ELSE \E n \in DOMAIN ips : Allowed(ips[n])

NewClient(s, ips) ==
    ValidateURL(s.url) /\ ValidateHeaderName(s.headers) /\ ResolveAndPin(s.url, ips)

(* Both of Start's buildClient calls can succeed; or one can fail. *)
CanBuild(req) ==
    \E ipsA, ipsB \in Resolutions : NewClient(req.streamA, ipsA) /\ NewClient(req.streamB, ipsB)

MayFailToBuild(req) ==
    \E ipsA, ipsB \in Resolutions : ~(NewClient(req.streamA, ipsA) /\ NewClient(req.streamB, ipsB))

=============================================================================
