---------------------------- MODULE BuiltinMetrics ----------------------------
(***************************************************************************)
(* The definitions of src/src/generated.rs, and what the aggregation map   *)
(* sees of the structs they define.                                        *)
(***************************************************************************)
EXTENDS MetricDefinitions

CONSTANT Strings  \* what free-form tags are made of

ASSUME StringsAssumption == Strings \subseteq STRING

Status == EnumTag("status", "status",
    <<<<"Success", "success">>, <<"Failure", "failure">>, <<"Timeout", "timeout">>>>)
Endpoint == StringTag("endpoint", "endpoint")
Region == StringTag("region", "region")

Http == Namespace(NoNamespace, <<"http">>)
Resolver == Namespace(NoNamespace, <<"resolver">>)
HttpAuth == Namespace(Http, <<"auth">>)

TopLevel == Group(<<<<"tags", <<>>>>>>,
    {MetricDef("gauge", "Uptime", <<"uptime">>, <<>>)})

HttpRequests == Group(
    <<<<"namespace", Http>>, <<"tags", <<TagRef(Endpoint), TagRef(Status)>>>>>>,
    {MetricDef("histogram", "HttpRequestLatency", <<"request", "latency">>, <<>>),
     MetricDef("count", "HttpRequestCount", <<"request", "count">>, <<>>)})

HttpConnections == Group(<<<<"namespace", Http>>, <<"tags", <<TagRef(Endpoint)>>>>>>,
    {MetricDef("gauge", "HttpActiveConnections", <<"active", "connections">>,
               <<Optional(TagRef(Region))>>)})

Resolvers == Group(<<<<"namespace", Resolver>>, <<"tags", <<TagRef(Endpoint)>>>>>>,
    {MetricDef("histogram", "ResolverLatency", <<"latency">>,
               <<As(TagRef(Status), "resolver_status"),
                 As(Optional(TagRef(Endpoint)), "resolver_fqn")>>)})

HttpAuths == Group(
    <<<<"namespace", HttpAuth>>, <<"tags", <<TagRef(Endpoint), TagRef(Status)>>>>>>,
    {MetricDef("count", "HttpAuthLoginCount", <<"login", "count">>, <<>>)})

Definitions ==
    TopLevel \cup HttpRequests \cup HttpConnections \cup Resolvers \cup HttpAuths

\* Two structs of one name do not compile.
ASSUME CompilesAssumption ==
    /\ \A metric \in Definitions : Compiles(metric)
    /\ \A m, n \in Definitions : m.ident = n.ident => m = n

\* Definition[ident] is the metric of that name.
Definition ==
    [ident \in {metric.ident : metric \in Definitions} |->
        CHOOSE metric \in Definitions : metric.ident = ident]

\* Every struct there can be.
Structs ==
    UNION {{[metric |-> metric.ident, fields |-> f] : f \in FieldsOf(metric, Strings)} :
              metric \in Definitions}

-----------------------------------------------------------------------------
(* The arguments of the record functions, for a set of structs             *)

\* The elements of a set, numbered from 0.
Numbered(S) ==
    LET ordered == FoldSet(LAMBDA x, seq : Append(seq, x), <<>>, S)
    IN  [x \in S |-> (CHOOSE i \in 1 .. Len(ordered) : ordered[i] = x) - 1]

KindOfStruct(structs) == [s \in structs |-> Definition[s.metric].kind]

\* Equal string literals have one address.
NameAddress(structs) ==
    LET address == Numbered({Definition[s.metric].name : s \in structs})
    IN  [s \in structs |-> address[Definition[s.metric].name]]

\* The hasher does not confuse any two inputs.
HashOfStruct(structs) ==
    LET input(s) == Hashed(Definition[s.metric], s.fields)
        hash == Numbered({input(s) : s \in structs})
    IN  [s \in structs |-> hash[input(s)]]
=============================================================================
