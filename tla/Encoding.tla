------------------------------ MODULE Encoding ------------------------------
(***************************************************************************)
(* How an event becomes a line of the stream: the types of model/model.go  *)
(* with their JSON tags, the encoders generated for them                   *)
(* (model/marshal_fastjson.go), the encoders and decoders written by hand  *)
(* (model/marshal.go), and the modelWriter and the tracer, which write the *)
(* encoded object whatever the encoder returned (modelwriter.go).          *)
(*                                                                         *)
(* An encoder is the sequence of its fields' writes; the machine below     *)
(* interprets it, one field a step, on a stack of the objects and loops    *)
(* that are being encoded.  What was written is kept as the state of a     *)
(* JSON parser that has read it.                                           *)
(***************************************************************************)
EXTENDS Integers, Sequences, FiniteSets, SequencesExt

CONSTANTS
    MayBeNaN,     \* the float fields whose value can be NaN or infinite: the
                  \* others are computed from durations
    OddSchemes,   \* whether protocols have characters that are not allowed
    MaxRunes,     \* the limit of the full URL, 1024 in the code
    MaxItems,     \* bound: items of a list or a map
    MaxCauses     \* bound: exceptions nested in each other

ASSUME EncodingAssumption == MaxRunes \in Nat /\ {MaxItems, MaxCauses} \subseteq Nat \ {0}

VARIABLES
    phase,         \* "idle", "encoding" or "written"
    frames,        \* the encoders being executed
    json,          \* the JSON parser's stack
    encodeFailed,  \* an encoder returned an error
    leaf           \* the value that a hand-written encoder has just written

encVars == <<phase, frames, json, encodeFailed, leaf>>

-----------------------------------------------------------------------------
(* The types and their tags: fields that are always present, and fields    *)
(* with omitempty.                                                         *)

\* Tables as one.
Joined(f, g, h) ==
    [t \in DOMAIN f \cup DOMAIN g \cup DOMAIN h |->
        IF t \in DOMAIN f THEN f[t] ELSE IF t \in DOMAIN g THEN g[t] ELSE h[t]]

Fields(always, omitempty) == [always |-> always, omitempty |-> omitempty]

ServiceFields == [
  Service |-> Fields({},
          {"name", "version", "environment", "agent", "framework", "language", "runtime", "node"}),
  Agent |-> Fields({"name", "version"}, {}),
  Framework |-> Fields({"name", "version"}, {}),
  Language |-> Fields({"name"}, {"version"}),
  Runtime |-> Fields({"name", "version"}, {}),
  ServiceNode |-> Fields({}, {"configured_name"})]

SystemFields == [
  System |-> Fields({},
          {"architecture", "hostname", "platform", "container", "kubernetes"}),
  Process |-> Fields({"pid"}, {"ppid", "title", "argv"}),
  Container |-> Fields({"id"}, {}),
  Kubernetes |-> Fields({}, {"namespace", "node", "pod"}),
  KubernetesNode |-> Fields({}, {"name"}),
  KubernetesPod |-> Fields({}, {"name", "uid"})]

CloudFields == [
  Cloud |-> Fields({"provider"},
          {"region", "availability_zone", "instance", "machine", "account", "project"}),
  CloudInstance |-> Fields({}, {"id", "name"}),
  CloudMachine |-> Fields({}, {"type"}),
  CloudAccount |-> Fields({}, {"id", "name"}),
  CloudProject |-> Fields({}, {"id", "name"})]

TransactionFields == [
  Transaction |-> Fields({"id", "trace_id", "name", "type", "timestamp", "duration", "span_count"},
          {"parent_id", "result", "context", "sampled", "sample_rate", "dropped_spans_stats",
           "outcome", "otel", "faas", "links"}),
  OTel |-> Fields({"span_kind"}, {"attributes"})]

SpanCountFields == [
  SpanCount |-> Fields({"dropped", "started"}, {}),
  DroppedSpansStats |-> Fields({"destination_service_resource", "outcome", "duration"},
          {"service_target_type", "service_target_name"}),
  AggregateDuration |-> Fields({"count", "sum"}, {}),
  DurationSum |-> Fields({"us"}, {})]

SpanFields == [
  Span |-> Fields({"name", "timestamp", "duration", "type", "id", "trace_id"},
          {"subtype", "action", "transaction_id", "parent_id", "sample_rate", "context",
           "stacktrace", "outcome", "composite", "links", "otel"})]

SpanContextFields == [
  SpanContext |-> Fields({}, {"destination", "service", "db", "message", "http", "tags"}),
  SpanLink |-> Fields({"trace_id", "span_id"}, {}),
  DestinationSpanContext |-> Fields({}, {"address", "port", "service", "cloud"})]

TargetFields == [
  ServiceSpanContext |-> Fields({}, {"target"}),
  ServiceTargetSpanContext |-> Fields({"type"}, {"name"}),
  DestinationServiceSpanContext |-> Fields({"name"}, {"type", "resource"}),
  DestinationCloudSpanContext |-> Fields({}, {"region"}),
  MessageSpanContext |-> Fields({}, {"queue"}),
  MessageQueueSpanContext |-> Fields({}, {"name"}),
  DatabaseSpanContext |-> Fields({},
          {"instance", "statement", "rows_affected", "type", "user"}),
  CompositeSpan |-> Fields({"count", "sum", "compression_strategy"}, {})]

ContextFields == [
  Context |-> Fields({}, {"custom", "request", "response", "user", "tags", "service"}),
  User |-> Fields({}, {"username", "id", "email"})]

ErrorFields == [
  Error |-> Fields({"timestamp", "id"},
          {"trace_id", "parent_id", "transaction_id", "culprit", "context", "exception", "log",
           "transaction"}),
  ErrorTransaction |-> Fields({}, {"sampled", "type", "name"})]

ExceptionFields == [
  Exception |-> Fields({"message", "handled"},
          {"code", "type", "module", "attributes", "stacktrace", "cause"}),
  StacktraceFrame |-> Fields({"filename", "lineno"},
          {"abs_path", "colno", "module", "classname", "function", "library_frame",
           "context_line", "pre_context", "post_context", "vars"})]

RequestFields == [
  Log |-> Fields({"message"}, {"level", "logger_name", "param_message", "stacktrace"}),
  Request |-> Fields({"url", "method"},
          {"headers", "body", "http_version", "cookies", "env", "socket"}),
  RequestSocket |-> Fields({}, {"encrypted", "remote_address"})]

ResponseFields == [
  Response |-> Fields({}, {"status_code", "headers", "headers_sent", "finished"})]

MetricsFields == [
  Metrics |-> Fields({"timestamp", "samples"}, {"transaction", "span", "tags", "faas"}),
  MetricsTransaction |-> Fields({}, {"type", "name"}),
  MetricsSpan |-> Fields({}, {"type", "subtype"})]

FAASFields == [
  FAAS |-> Fields({"coldstart"}, {"id", "execution", "trigger", "name", "version"}),
  FAASTrigger |-> Fields({}, {"type", "request_id"})]

Tags ==
    Joined(Joined(Joined(ServiceFields, SystemFields, CloudFields),
                  Joined(TransactionFields, SpanCountFields, FAASFields),
                  Joined(SpanFields, SpanContextFields, TargetFields)),
           Joined(ContextFields, RequestFields, ResponseFields),
           Joined(ErrorFields, ExceptionFields, MetricsFields))

-----------------------------------------------------------------------------
(* The generated encoders.  A field is written always or if it is not      *)
(* empty, preceded by no comma, by a comma, or by one unless it is the     *)
(* first.                                                                  *)

Write(key, lead, omit, value) == [key |-> key, lead |-> lead, omit |-> omit, value |-> value]
First(key, value)  == Write(key, "none", FALSE, value)
Always(key, value) == Write(key, "comma", FALSE, value)
Only(key, value)   == Write(key, "none", TRUE, value)
Maybe(key, value)  == Write(key, "comma", TRUE, value)
Flag(key, value)   == Write(key, "flag", TRUE, value)

Value(form, of) == [form |-> form, of |-> of]
Scalar    == Value("scalar", "none")
Float     == Value("float", "none")
Object(t) == Value("object", t)   \* encoded by its own MarshalFastJSON
Leaf(t)   == Value("leaf", t)     \* the same, written by hand
List(t)   == Value("list", t)
Map(t)    == Value("map", t)

ServiceMarshal == [
  Service |-> <<Flag("agent", Object("Agent")), Flag("environment", Scalar),
      Flag("framework", Object("Framework")), Flag("language", Object("Language")),
      Flag("name", Scalar), Flag("node", Object("ServiceNode")),
      Flag("runtime", Object("Runtime")), Flag("version", Scalar)>>,
  Agent |-> <<First("name", Scalar), Always("version", Scalar)>>,
  Framework |-> <<First("name", Scalar), Always("version", Scalar)>>,
  Language |-> <<First("name", Scalar), Maybe("version", Scalar)>>,
  Runtime |-> <<First("name", Scalar), Always("version", Scalar)>>,
  ServiceNode |-> <<Only("configured_name", Scalar)>>]

SystemMarshal == [
  System |-> <<Flag("architecture", Scalar), Flag("container", Object("Container")),
      Flag("hostname", Scalar), Flag("kubernetes", Object("Kubernetes")),
      Flag("platform", Scalar)>>,
  Process |-> <<First("pid", Scalar), Maybe("argv", List("string")), Maybe("ppid", Scalar),
      Maybe("title", Scalar)>>,
  Container |-> <<First("id", Scalar)>>,
  Kubernetes |-> <<Flag("namespace", Scalar), Flag("node", Object("KubernetesNode")),
      Flag("pod", Object("KubernetesPod"))>>,
  KubernetesNode |-> <<Only("name", Scalar)>>,
  KubernetesPod |-> <<Flag("name", Scalar), Flag("uid", Scalar)>>]

CloudMarshal == [
  Cloud |-> <<First("provider", Scalar), Maybe("account", Object("CloudAccount")),
      Maybe("availability_zone", Scalar), Maybe("instance", Object("CloudInstance")),
      Maybe("machine", Object("CloudMachine")), Maybe("project", Object("CloudProject")),
      Maybe("region", Scalar)>>,
  CloudInstance |-> <<Flag("id", Scalar), Flag("name", Scalar)>>,
  CloudMachine |-> <<Only("type", Scalar)>>,
  CloudAccount |-> <<Flag("id", Scalar), Flag("name", Scalar)>>,
  CloudProject |-> <<Flag("id", Scalar), Flag("name", Scalar)>>]

TransactionMarshal == [
  Transaction |-> <<First("duration", Float), Always("id", Leaf("ID")), Always("name", Scalar),
      Always("span_count", Object("SpanCount")), Always("timestamp", Leaf("Time")),
      Always("trace_id", Leaf("ID")), Always("type", Scalar),
      Maybe("context", Object("Context")),
      Maybe("dropped_spans_stats", List("DroppedSpansStats")), Maybe("faas", Object("FAAS")),
      Maybe("links", List("SpanLink")), Maybe("otel", Object("OTel")), Maybe("outcome", Scalar),
      Maybe("parent_id", Leaf("ID")), Maybe("result", Scalar), Maybe("sample_rate", Float),
      Maybe("sampled", Scalar)>>,
  OTel |-> <<First("span_kind", Scalar), Maybe("attributes", Map("any"))>>]

SpanCountMarshal == [
  SpanCount |-> <<First("dropped", Scalar), Always("started", Scalar)>>,
  DroppedSpansStats |-> <<First("destination_service_resource", Scalar),
      Always("duration", Object("AggregateDuration")), Always("outcome", Scalar),
      Maybe("service_target_name", Scalar), Maybe("service_target_type", Scalar)>>,
  AggregateDuration |-> <<First("count", Scalar), Always("sum", Object("DurationSum"))>>,
  DurationSum |-> <<First("us", Scalar)>>]

SpanMarshal == [
  Span |-> <<First("duration", Float), Always("id", Leaf("ID")), Always("name", Scalar),
      Always("timestamp", Leaf("Time")), Always("trace_id", Leaf("ID")), Always("type", Scalar),
      Maybe("action", Scalar), Maybe("composite", Object("CompositeSpan")),
      Maybe("context", Object("SpanContext")), Maybe("links", List("SpanLink")),
      Maybe("otel", Object("OTel")), Maybe("outcome", Scalar), Maybe("parent_id", Leaf("ID")),
      Maybe("sample_rate", Float), Maybe("stacktrace", List("StacktraceFrame")),
      Maybe("subtype", Scalar), Maybe("transaction_id", Leaf("ID"))>>]

SpanContextMarshal == [
  SpanContext |-> <<Flag("db", Object("DatabaseSpanContext")),
      Flag("destination", Object("DestinationSpanContext")),
      Flag("http", Leaf("HTTPSpanContext")), Flag("message", Object("MessageSpanContext")),
      Flag("service", Object("ServiceSpanContext")), Flag("tags", Leaf("IfaceMap"))>>,
  SpanLink |-> <<First("span_id", Leaf("ID")), Always("trace_id", Leaf("ID"))>>,
  DestinationSpanContext |-> <<Flag("address", Scalar), Flag("cloud", Object("DestinationCloudSpanContext")),
      Flag("port", Scalar), Flag("service", Object("DestinationServiceSpanContext"))>>]

TargetMarshal == [
  ServiceSpanContext |-> <<Only("target", Object("ServiceTargetSpanContext"))>>,
  ServiceTargetSpanContext |-> <<First("type", Scalar), Maybe("name", Scalar)>>,
  DestinationServiceSpanContext |-> <<First("name", Scalar), Maybe("resource", Scalar), Maybe("type", Scalar)>>,
  DestinationCloudSpanContext |-> <<Only("region", Scalar)>>,
  MessageSpanContext |-> <<Only("queue", Object("MessageQueueSpanContext"))>>,
  MessageQueueSpanContext |-> <<Only("name", Scalar)>>,
  DatabaseSpanContext |-> <<Flag("instance", Scalar), Flag("rows_affected", Scalar), Flag("statement", Scalar),
      Flag("type", Scalar), Flag("user", Scalar)>>,
  CompositeSpan |-> <<First("compression_strategy", Scalar), Always("count", Scalar), Always("sum", Float)>>]

ContextMarshal == [
  Context |-> <<Flag("custom", Leaf("IfaceMap")), Flag("request", Object("Request")),
      Flag("response", Object("Response")), Flag("service", Object("Service")),
      Flag("tags", Leaf("IfaceMap")), Flag("user", Object("User"))>>,
  User |-> <<Flag("email", Scalar), Flag("id", Scalar), Flag("username", Scalar)>>]

ErrorMarshal == [
  Error |-> <<First("id", Leaf("ID")), Always("timestamp", Leaf("Time")),
      Maybe("context", Object("Context")), Maybe("culprit", Scalar),
      Maybe("exception", Object("Exception")), Maybe("log", Object("Log")),
      Maybe("parent_id", Leaf("ID")), Maybe("trace_id", Leaf("ID")),
      Maybe("transaction", Object("ErrorTransaction")), Maybe("transaction_id", Leaf("ID"))>>,
  ErrorTransaction |-> <<Flag("name", Scalar), Flag("sampled", Scalar), Flag("type", Scalar)>>]

ExceptionMarshal == [
  Exception |-> <<First("handled", Scalar), Always("message", Scalar), Maybe("attributes", Map("any")),
      Maybe("cause", List("Exception")), Maybe("code", Leaf("ExceptionCode")),
      Maybe("module", Scalar), Maybe("stacktrace", List("StacktraceFrame")),
      Maybe("type", Scalar)>>,
  StacktraceFrame |-> <<First("filename", Scalar), Always("lineno", Scalar), Maybe("abs_path", Scalar),
      Maybe("classname", Scalar), Maybe("colno", Scalar), Maybe("context_line", Scalar),
      Maybe("function", Scalar), Maybe("library_frame", Scalar), Maybe("module", Scalar),
      Maybe("post_context", List("string")), Maybe("pre_context", List("string")),
      Maybe("vars", Map("any"))>>]

RequestMarshal == [
  Log |-> <<First("message", Scalar), Maybe("level", Scalar), Maybe("logger_name", Scalar),
      Maybe("param_message", Scalar), Maybe("stacktrace", List("StacktraceFrame"))>>,
  Request |-> <<First("method", Scalar), Always("url", Leaf("URL")), Maybe("body", Leaf("RequestBody")),
      Maybe("cookies", Leaf("Cookies")), Maybe("env", Map("string")),
      Maybe("headers", Leaf("Headers")), Maybe("http_version", Scalar),
      Maybe("socket", Object("RequestSocket"))>>,
  RequestSocket |-> <<Flag("encrypted", Scalar), Flag("remote_address", Scalar)>>]

\* Mutant: the status code does not look at whether it comes first.
ResponseMarshalComma == [
  Response |-> <<Flag("finished", Scalar), Flag("headers", Leaf("Headers")),
      Flag("headers_sent", Scalar), Maybe("status_code", Scalar)>>]

\* Mutant: the code was generated before the tag of a field changed.
ResponseMarshalStale == [
  Response |-> <<First("finished", Scalar), Maybe("headers", Leaf("Headers")),
      Maybe("headers_sent", Scalar), Maybe("status_code", Scalar)>>]

ResponseMarshal == [
  Response |-> <<Flag("finished", Scalar), Flag("headers", Leaf("Headers")), Flag("headers_sent", Scalar),
      Flag("status_code", Scalar)>>]

MetricsMarshal == [
  Metrics |-> <<First("samples", Map("Metric")), Always("timestamp", Leaf("Time")),
      Maybe("faas", Object("FAAS")), Maybe("span", Object("MetricsSpan")),
      Maybe("tags", Leaf("StringMap")), Maybe("transaction", Object("MetricsTransaction"))>>,
  MetricsTransaction |-> <<Flag("name", Scalar), Flag("type", Scalar)>>,
  MetricsSpan |-> <<Flag("subtype", Scalar), Flag("type", Scalar)>>]

FAASMarshal == [
  FAAS |-> <<First("coldstart", Scalar), Maybe("execution", Scalar), Maybe("id", Scalar),
      Maybe("name", Scalar), Maybe("trigger", Object("FAASTrigger")), Maybe("version", Scalar)>>,
  FAASTrigger |-> <<Flag("request_id", Scalar), Flag("type", Scalar)>>]

-----------------------------------------------------------------------------
(* Encoders written by hand that write objects, and the objects that the   *)
(* tracer writes around events.                                            *)

\* Metric.MarshalFastJSON, without and with counts.
MetricMarshal == [
  Value |-> <<First("value", Float), Maybe("type", Scalar)>>,
  Histogram |-> <<First("values", List("float")), Always("counts", List("string")),
      Maybe("type", Scalar)>>]

\* encodeRequestMetadata
MetadataMarshal == [
  Metadata |-> <<First("system", Object("System")), Always("process", Object("Process")),
      Always("service", Object("Service")), Maybe("cloud", Object("Cloud")),
      Maybe("labels", Leaf("StringMap"))>>]

GeneratedPrograms ==
    Joined(Joined(Joined(ServiceMarshal, SystemMarshal, CloudMarshal),
                  Joined(TransactionMarshal, SpanCountMarshal, FAASMarshal),
                  Joined(SpanMarshal, SpanContextMarshal, TargetMarshal)),
           Joined(ContextMarshal, RequestMarshal, ResponseMarshal),
           Joined(ErrorMarshal, ExceptionMarshal, MetricsMarshal))
Programs == Joined(GeneratedPrograms, MetricMarshal, MetadataMarshal)

EventType == [transaction |-> "Transaction", span |-> "Span", error |-> "Error",
              metricset |-> "Metrics", metadata |-> "Metadata"]

-----------------------------------------------------------------------------
(* A JSON parser: what may come next in each open object and array.        *)

Broken == <<"broken">>

\* The state after a value, where one is allowed.
AfterValue == [document |-> "end", field |-> "field end", array |-> "item end", item |-> "item end"]

ReadToken(stack, token) ==
    LET top == Last(stack)
        To(state) == Append(Front(stack), state) IN
    CASE token = "value" /\ top \in DOMAIN AfterValue            -> To(AfterValue[top])
      [] token = "begin object" /\ top \in DOMAIN AfterValue     -> Append(To(AfterValue[top]), "object")
      [] token = "begin array" /\ top \in DOMAIN AfterValue      -> Append(To(AfterValue[top]), "array")
      [] token = "key" /\ top \in {"object", "next field"}       -> To("field")
      [] token = "comma" /\ top = "field end"                    -> To("next field")
      [] token = "comma" /\ top = "item end"                     -> To("item")
      [] token = "end object" /\ top \in {"object", "field end"} -> Front(stack)
      [] token = "end array" /\ top \in {"array", "item end"}    -> Front(stack)
      [] OTHER -> Broken

ReadTokens(stack, tokens) ==
    LET read[i \in 0..Len(tokens)] ==
            IF i = 0 THEN stack ELSE ReadToken(read[i - 1], tokens[i])
    IN read[Len(tokens)]

-----------------------------------------------------------------------------
(* Values that hand-written encoders write in one step: the tokens of      *)
(* each, and for those that can be decoded, what is decoded.               *)

Comma(first) == IF first THEN <<>> ELSE <<"comma">>

\* An object of n fields, an array of n items.
ObjectOf(n) == <<"begin object">> \o FlattenSeq([i \in 1..n |-> Comma(i = 1) \o <<"key", "value">>]) \o <<"end object">>
ArrayOf(n)  == <<"begin array">> \o FlattenSeq([i \in 1..n |-> Comma(i = 1) \o <<"value">>]) \o <<"end array">>

Runes == [hash     : {<<>>, <<"x", "x">>},
          hostname : {<<>>, <<"a", "b", "c">>, <<":", "1">>},
          path     : {<<>>, <<"/">>, <<"p", "q">>},
          port     : {<<>>, <<"8", "0">>},
          protocol : {<<>>, <<"H", "t">>, <<"h", "_">>, <<"h", "t", "t", "p", "s", "s", "s">>},
          search   : {<<>>, <<"s", "=">>}]

\* marshalScheme: in lower case; not written if a character is not allowed.
SchemeAllowed(scheme) == "_" \notin ToSet(scheme)
MarshalScheme(scheme) == [i \in DOMAIN scheme |-> IF scheme[i] = "H" THEN "h" ELSE scheme[i]]

\* apmstrings.Truncate
TruncateRunes(s, n) == SubSeq(s, 1, IF Len(s) < n THEN Len(s) ELSE n)

\* Mutant: only the strings are limited, not the characters between them.
MarshalFullURLUnlimited(u) ==
    LET parts == <<u.hostname, <<":">>, <<"8">>, u.search>>
        url[i \in 0..Len(parts)] ==
            IF i = 0 THEN MarshalScheme(u.protocol) \o <<":", "/", "/">>
            ELSE url[i - 1] \o (IF Len(parts[i]) = 1 THEN parts[i]
                                ELSE TruncateRunes(parts[i], MaxRunes - Len(url[i - 1])))
    IN url[Len(parts)]

\* What follows the scheme in the full URL, part by part.
FullURLParts(u) ==
    LET If(condition, s) == IF condition THEN s ELSE <<>>
        ipv6 == ":" \in ToSet(u.hostname) IN
    <<If(ipv6, <<"[">>), u.hostname, If(ipv6, <<"]">>),
      If(u.port # <<>>, <<":">>), u.port,
      If(u.path # <<>> /\ Head(u.path) # "/", <<"/">>), u.path,
      If(u.search # <<>>, <<"?">>), u.search,
      If(u.hash # <<>>, <<"#">>), u.hash>>

\* URL.marshalFullURL: each part is cut to what the limit leaves.
MarshalFullURL(u) ==
    LET scheme == MarshalScheme(u.protocol) \o <<":", "/", "/">>
        parts == FullURLParts(u)
        url[i \in 0..Len(parts)] ==
            IF i = 0 THEN scheme
            ELSE url[i - 1] \o TruncateRunes(parts[i], MaxRunes - Len(url[i - 1])) IN
    IF Len(scheme) >= MaxRunes THEN SubSeq(scheme, 1, MaxRunes) ELSE url[Len(parts)]

\* An object being written: its tokens, and whether its first field comes next.
BeginObject == [first |-> TRUE, tokens |-> <<"begin object">>]
WithField(object, written) ==
    IF written
    THEN [first |-> FALSE, tokens |-> object.tokens \o (Comma(object.first) \o <<"key", "value">>)]
    ELSE object

\* URL.MarshalFastJSON: "first" is cleared by a protocol that is then taken
\* back.
MarshalURL(u) ==
    LET allowed == u.protocol # <<>> /\ SchemeAllowed(u.protocol)
        upToHost == WithField(WithField(BeginObject, u.hash # <<>>), u.hostname # <<>>)
        upToPort == WithField(WithField(upToHost, u.path # <<>>), u.port # <<>>)
        upToProtocol == IF u.protocol # <<>> /\ ~allowed
                        THEN [upToPort EXCEPT !.first = FALSE]
                        ELSE WithField(upToPort, allowed)
        upToSearch == WithField(upToProtocol, u.search # <<>>) IN
    upToSearch.tokens \o (IF allowed /\ u.hostname # <<>> THEN <<"comma", "key", "value">> ELSE <<>>)
                      \o <<"end object">>

\* HTTPSpanContext.MarshalFastJSON and marshalURL: a URL whose scheme cannot
\* be written is taken back.
MarshalHTTPSpanContext(h) ==
    WithField(WithField(BeginObject, h.url = "allowed"), h.status).tokens \o <<"end object">>

\* Mutant: the first of the cookies with a name is written.
MarshalCookiesFirst(c) ==
    LET written[i \in 0..Len(c)] ==
            IF i = 0 THEN <<>>
            ELSE IF \E j \in 1..(i - 1) : c[j][1] = c[i][1] THEN written[i - 1]
            ELSE <<c[i]>> \o written[i - 1]
    IN written[Len(c)]

\* Cookies.MarshalFastJSON: from the last to the first, each name once.
MarshalCookies(c) ==
    LET written[i \in 0..Len(c)] ==
            IF i = 0 THEN <<>>
            ELSE IF \E j \in (i + 1)..Len(c) : c[j][1] = c[i][1] THEN written[i - 1]
            ELSE <<c[i]>> \o written[i - 1]
    IN written[Len(c)]

\* The pairs of an object in the order of their keys: UnmarshalJSON of
\* Cookies, StringMap and IfaceMap.
UnmarshalSorted(pairs) ==
    LET Before(p) == {q \in ToSet(pairs) : q[1] < p[1]} IN
    [k \in 1..Cardinality(ToSet(pairs)) |->
        CHOOSE p \in ToSet(pairs) : Cardinality(Before(p)) = k - 1]

\* One value of a header or a form is written as it is, others as an array.
MarshalValues(vs) == IF Len(vs) = 1 THEN [string |-> vs[1]] ELSE [array |-> vs]
UnmarshalValues(w) == IF "string" \in DOMAIN w THEN <<w.string>> ELSE w.array

\* Headers.MarshalFastJSON and UnmarshalJSON
MarshalHeaders(hs) == [i \in DOMAIN hs |-> <<hs[i][1], MarshalValues(hs[i][2])>>]
UnmarshalHeaders(pairs) ==
    UnmarshalSorted([i \in DOMAIN pairs |-> <<pairs[i][1], UnmarshalValues(pairs[i][2])>>])

\* RequestBody.MarshalFastJSON and UnmarshalJSON of a form: what is added for
\* an empty array is nothing.
MarshalForm(form) == [k \in DOMAIN form |-> MarshalValues(form[k])]
UnmarshalForm(w) ==
    [k \in {k \in DOMAIN w : UnmarshalValues(w[k]) # <<>>} |-> UnmarshalValues(w[k])]

\* Time: nanoseconds are written as microseconds and read back.
MarshalTime(ns) == ns \div 1000
UnmarshalTime(us) == (us \div 1000000) * 1000000000 + (us % 1000000) * 1000

\* TraceID and SpanID: two digits for each byte.
WriteHex(id) == FlattenSeq([i \in DOMAIN id |-> <<id[i] \div 16, id[i] % 16>>])
UnmarshalID(digits) == [i \in 1..(Len(digits) \div 2) |-> digits[2 * i - 1] * 16 + digits[2 * i]]

\* The values of each type that are encoded: of lists of pairs, with names that
\* are in order, those that are not empty.
Names == 1..MaxItems
Lists == {[i \in 1..n |-> i] : n \in 0..MaxItems}
PairsOf(values) == UNION {[1..n -> Names \X values] : n \in Names}
DistinctPairs(values) ==
    {ps \in PairsOf(values) : \A i, j \in DOMAIN ps : ps[i][1] = ps[j][1] => i = j}
URLs == {u \in Runes : OddSchemes \/ SchemeAllowed(u.protocol)}
HTTPSpanContexts == [url : {"none", "allowed", "odd"}, status : BOOLEAN]
RequestBodies == {[raw |-> "s"]} \cup [form : UNION {[1..n -> Lists] : n \in Names}]
Times == {0, 999, 1500, 1000001, 1999999999}
IDs == [1..2 -> {0, 16, 255}]

LeafValues ==
    [URL             |-> URLs,
     HTTPSpanContext |-> HTTPSpanContexts,
     Cookies         |-> PairsOf({1, 2}),
     StringMap       |-> DistinctPairs({1}),
     IfaceMap        |-> DistinctPairs({1}),
     Headers         |-> DistinctPairs(Lists),
     RequestBody     |-> RequestBodies,
     ExceptionCode   |-> {"string", "number", "odd number"},
     Time            |-> Times,
     ID              |-> IDs]

ValuesTokens(w) == IF "string" \in DOMAIN w THEN <<"value">> ELSE ArrayOf(Len(w.array))

\* An object whose fields have the written values ws.
ObjectTokens(ws) ==
    <<"begin object">> \o FlattenSeq([i \in DOMAIN ws |-> Comma(i = 1) \o <<"key">> \o ValuesTokens(ws[i])]) \o <<"end object">>

\* A number of ExceptionCode that JSON cannot represent.
IsOdd(type, v) == type = "ExceptionCode" /\ v = "odd number"

\* The tokens that the encoder of a leaf writes.
LeafTokens(type, v) ==
    CASE type = "URL"             -> MarshalURL(v)
      [] type = "HTTPSpanContext" -> MarshalHTTPSpanContext(v)
      [] type = "Cookies"         -> ObjectOf(Len(MarshalCookies(v)))
      [] type = "Headers"         -> ObjectTokens([i \in DOMAIN v |-> MarshalHeaders(v)[i][2]])
      [] type \in {"StringMap", "IfaceMap"} -> ObjectOf(Len(v))
      [] type = "RequestBody"     -> IF "raw" \in DOMAIN v THEN <<"value">>
                                     ELSE ObjectTokens(MarshalForm(v.form))
      [] IsOdd(type, v)           -> <<>>
      [] OTHER                    -> <<"value">>

-----------------------------------------------------------------------------
(* The encoder *)

NoLeaf == [type |-> "none"]

EncInit == phase = "idle" /\ frames = <<>> /\ json = <<"document">> /\ encodeFailed = FALSE /\ leaf = NoLeaf

Frame(type, of) == [type |-> type, of |-> of, pc |-> 1, first |-> TRUE]

IsLoop(frame) == frame.type \in {"list", "map"}

Top == Last(frames)
Running == frames # <<>>
InObject == Running /\ ~IsLoop(Top) /\ Top.pc <= Len(Programs[Top.type])
Op == Programs[Top.type][Top.pc]

\* The tokens before the value of the current field.
Prefix == (CASE Op.lead = "none"  -> <<>>
             [] Op.lead = "comma" -> <<"comma">>
             [] Op.lead = "flag"  -> Comma(Top.first)) \o <<"key">>

\* The frames after the current field was written, or another item.
Written == Append(Front(frames), [Top EXCEPT !.pc = @ + 1, !.first = FALSE])

Output(tokens) == json' = ReadTokens(json, tokens)

\* writeTransaction, writeSpan, writeError, writeMetrics, jsonRequestMetadata:
\* an object with one field, which the encoder of the event writes.
WriteEvent(tag) ==
    /\ phase = "idle"
    /\ phase' = "encoding"
    /\ frames' = <<Frame(EventType[tag], "none")>>
    /\ Output(<<"begin object", "key", "begin object">>)
    /\ UNCHANGED <<encodeFailed, leaf>>

\* An empty field with omitempty is not written.
OmitField ==
    /\ InObject /\ Op.omit
    /\ frames' = Append(Front(frames), [Top EXCEPT !.pc = @ + 1])
    /\ leaf' = NoLeaf
    /\ UNCHANGED <<json, encodeFailed, phase>>

ScalarField ==
    /\ InObject /\ Op.value.form \in {"scalar", "float"}
    /\ frames' = Written
    /\ Output(Prefix \o <<"value">>)
    /\ leaf' = NoLeaf
    /\ UNCHANGED <<encodeFailed, phase>>

\* A float that JSON cannot represent: the encoder returns at once.
BadFloatField ==
    /\ InObject /\ Op.value.form = "float" /\ Op.key \in MayBeNaN
    /\ frames' = Front(frames)
    /\ Output(Prefix)
    /\ encodeFailed' = TRUE
    /\ leaf' = NoLeaf
    /\ UNCHANGED phase

\* The encoder of the field's type is called.
ObjectField ==
    /\ InObject /\ Op.value.form = "object"
    /\ frames' = Append(Written, Frame(Op.value.of, "none"))
    /\ Output(Prefix \o <<"begin object">>)
    /\ leaf' = NoLeaf
    /\ UNCHANGED <<encodeFailed, phase>>

LeafField ==
    /\ InObject /\ Op.value.form = "leaf"
    /\ \E v \in LeafValues[Op.value.of] :
        /\ IsOdd(Op.value.of, v) => Op.key \in MayBeNaN
        /\ frames' = Written
        /\ Output(Prefix \o LeafTokens(Op.value.of, v))
        /\ leaf' = [type |-> Op.value.of, value |-> v]
        /\ encodeFailed' = (encodeFailed \/ IsOdd(Op.value.of, v))
        /\ UNCHANGED phase

\* A loop over a slice or a map, in the encoder of the object.
LoopField ==
    /\ InObject /\ Op.value.form \in {"list", "map"}
    /\ frames' = Append(Written, Frame(Op.value.form, Op.value.of))
    /\ Output(Prefix \o (IF Op.value.form = "list" THEN <<"begin array">> ELSE <<"begin object">>))
    /\ leaf' = NoLeaf
    /\ UNCHANGED <<encodeFailed, phase>>

ItemPrefix == Comma(Top.first) \o (IF Top.type = "map" THEN <<"key">> ELSE <<>>)

Nested(type) == Cardinality({i \in DOMAIN frames : frames[i].type = type})

\* The encoder of an item is called, which is an object.
ObjectItem(type) ==
    /\ Running /\ IsLoop(Top) /\ Top.pc <= MaxItems
    /\ type \in (IF Top.of = "Metric" THEN {"Value", "Histogram"} ELSE {Top.of}) \cap DOMAIN Programs
    /\ type = "Exception" => Nested(type) <= MaxCauses
    /\ frames' = Append(Written, Frame(type, "none"))
    /\ Output(ItemPrefix \o <<"begin object">>)
    /\ leaf' = NoLeaf
    /\ UNCHANGED <<encodeFailed, phase>>

\* An item that is a string, a number, or a value of any type, which
\* fastjson.Marshal writes: it may fail after it has written some value.
ScalarItem(err) ==
    /\ Running /\ IsLoop(Top) /\ Top.pc <= MaxItems /\ Top.of \in {"string", "float", "any"}
    /\ err => Top.of = "any"
    /\ frames' = Written
    /\ Output(ItemPrefix \o <<"value">>)
    /\ encodeFailed' = (encodeFailed \/ err)
    /\ leaf' = NoLeaf
    /\ UNCHANGED phase

\* A float in a list that JSON cannot represent: the object's encoder returns.
BadFloatItem ==
    /\ Running /\ IsLoop(Top) /\ Top.pc <= MaxItems /\ Top.of = "float"
    /\ "values" \in MayBeNaN
    /\ frames' = Front(Front(frames))
    /\ Output(ItemPrefix)
    /\ encodeFailed' = TRUE
    /\ leaf' = NoLeaf
    /\ UNCHANGED phase

\* The end of a loop or an object.
Close ==
    /\ Running
    /\ ~IsLoop(Top) => Top.pc > Len(Programs[Top.type])
    /\ frames' = Front(frames)
    /\ Output(IF Top.type = "list" THEN <<"end array">> ELSE <<"end object">>)
    /\ leaf' = NoLeaf
    /\ UNCHANGED <<encodeFailed, phase>>

\* The event was encoded; the object around it is closed and the block is
\* written, whether or not the encoder failed.
WriteBlock ==
    /\ phase = "encoding" /\ frames = <<>>
    /\ phase' = "written"
    /\ Output(<<"end object">>)
    /\ UNCHANGED <<frames, encodeFailed, leaf>>

\* json.Reset, for the next event.
ResetWriter ==
    /\ phase = "written"
    /\ phase' = "idle"
    /\ json' = <<"document">>
    /\ encodeFailed' = FALSE
    /\ UNCHANGED <<frames, leaf>>

EncNext ==
    \/ \E tag \in DOMAIN EventType : WriteEvent(tag)
    \/ OmitField \/ ScalarField \/ BadFloatField \/ ObjectField \/ LeafField \/ LoopField
    \/ \E type \in DOMAIN Programs : ObjectItem(type)
    \/ \E err \in BOOLEAN : ScalarItem(err)
    \/ BadFloatItem \/ Close \/ WriteBlock \/ ResetWriter

EncSpec == EncInit /\ [][EncNext]_encVars

-----------------------------------------------------------------------------
(* Properties *)

\* An object has the fields that the tags of model.go name, without the empty
\* ones that are tagged omitempty: generated encoders and types have not
\* diverged (marshal_fastjson.go, model.go).
FieldsAsTagged ==
    Running /\ Top.type \in DOMAIN Tags =>
        LET writes == ToSet(Programs[Top.type]) IN
        /\ Tags[Top.type].always = {w.key : w \in {w \in writes : ~w.omit}}
        /\ Tags[Top.type].omitempty = {w.key : w \in {w \in writes : w.omit}}

\* A block is a JSON document, whatever fields are empty and however objects
\* are nested, unless an encoder returned an error, which the modelWriter does
\* not look at (modelwriter.go:54).
MalformedOnlyOnError ==
    phase = "written" /\ json # <<"end">> => encodeFailed

\* What is decoded from what a hand-written encoder wrote is the value that
\* was encoded: the last of the cookies with a name, a form without the keys
\* that have no values, times to the microsecond.
RoundTrips ==
    LET v == leaf.value IN
    /\ leaf.type = "Cookies" =>
        LET c == UnmarshalSorted(MarshalCookies(v)) IN
        /\ {c[i][1] : i \in DOMAIN c} = {v[i][1] : i \in DOMAIN v}
        /\ \A i \in DOMAIN c : c[i] = v[Max({j \in DOMAIN v : v[j][1] = c[i][1]})]
    /\ leaf.type = "Headers" => ToSet(UnmarshalHeaders(MarshalHeaders(v))) = ToSet(v)
    /\ leaf.type = "RequestBody" /\ "form" \in DOMAIN v =>
        LET form == UnmarshalForm(MarshalForm(v.form)) IN
        /\ \A k \in DOMAIN form : form[k] = v.form[k]
        /\ \A k \in DOMAIN v.form \ DOMAIN form : v.form[k] = <<>>
    /\ leaf.type = "Time" => 0 <= v - UnmarshalTime(MarshalTime(v)) /\ v - UnmarshalTime(MarshalTime(v)) < 1000
    /\ leaf.type = "ID" => UnmarshalID(WriteHex(v)) = v

\* The full URL is the whole one, cut at the limit as a whole, though its
\* parts are cut one by one (marshalFullURL).
FullURLExact ==
    leaf.type = "URL" =>
        LET u == leaf.value
            whole == MarshalScheme(u.protocol) \o <<":", "/", "/">> \o FlattenSeq(FullURLParts(u)) IN
        MarshalFullURL(u) = TruncateRunes(whole, MaxRunes)

\* The line written for an event says what the event says.
EncodingFaithful == FieldsAsTagged /\ MalformedOnlyOnError /\ RoundTrips /\ FullURLExact
=============================================================================
