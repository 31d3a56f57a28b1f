------------------------------ MODULE MCChecks ------------------------------
(***************************************************************************)
(* The constants of Checks and CommandLine for TLC: the lines, options and *)
(* situations that are tried.                                              *)
(***************************************************************************)
EXTENDS Checks

Condition(backend, words) ==
    [guard |-> FALSE, backend |-> backend, name |-> "", words |-> words, command |-> <<>>]
Command(words, tokens) == [Condition("exec", words) EXCEPT !.command = tokens]

\* The condition that goes on to each backend.
Targeted == {Condition(b, <<"web">>) : b \in Backends \ {"exec"}} \cup {Command(<<>>, <<"web">>)}

\* Values and targets that are named like flags and backends, or are --.
Tricky ==
    {Condition("http", <<"http", "--method", "POST">>), Condition("log", <<"--contains", "--", "tcp">>),
     Condition("log", <<"web", "--contains", "--">>), Condition("http", <<"web", "--method", "--cwd">>),
     Condition("file", <<"web", "--exists">>),
     Command(<<"--cwd", "web">>, <<"docker", "web">>), Command(<<>>, <<"web", "--">>),
     Command(<<>>, <<"web", "--", "web", "--name", "web">>), Command(<<>>, <<"web", "--", "tcp">>),
     Command(<<"--cwd", "--">>, <<"web">>), Command(<<>>, <<"guard", "http">>)}

MCConditions ==
    LET unguarded == {Condition("tcp", <<"web">>)} \cup Tricky
    IN  unguarded \cup {[c EXCEPT !.guard = TRUE] : c \in unguarded}
            \cup {[Condition("tcp", <<"web">>) EXCEPT !.name = "web"], [Command(<<>>, <<"tcp">>) EXCEPT !.name = "guard"]}

MCLines == {<<c>> : c \in Targeted \cup {g \in MCConditions : g.guard \/ g.name # ""}}
               \cup {<<c, d>> : c, d \in MCConditions}

MCOtherLines ==
    {<<>>, <<"--", "tcp">>, <<"tcp", "web", "--">>, <<"tcp">>, <<"guard">>, <<"web">>,
     <<"guard", "guard", "tcp", "web">>, <<"tcp", "web", "--name=web", "--", "tcp", "web">>,
     <<"tcp", "web", "--name=web", "--name", "web">>, <<"tcp", "--name">>, <<"tcp", "--name=", "web">>,
     <<"exec", "tcp">>, <<"exec", "--">>, <<"exec", "web", "--", "web">>, <<"tcp", "--cwd">>,
     <<"tcp", "--", "--", "tcp", "web">>, <<"tcp", "web", "--", "--", "tcp", "web">>,
     <<"guard", "tcp", "--", "web">>, <<"tcp", "web", "--name", "--", "tcp", "web">>}

MCInlineName == [word \in {"--name=web", "--name="} |-> IF word = "--name=" THEN "" ELSE "web"]

-----------------------------------------------------------------------------
MCText == <<"a", "b">>

MCNumberOf == [literal \in {"2", "2.0", "nan"} |-> IF literal = "nan" THEN NaN ELSE 2]
MCSpelling == [n \in {1, 2, 3, NaN} |-> IF n = NaN THEN "NaN" ELSE <<"1", "2", "3">>[n]]
Document(v) == Object([name \in {"v"} |-> v])
MCResponses ==
    {[code |-> 200, words |-> {"text", "pattern"}, doc |-> Document(Number(2))],
     [code |-> 200, words |-> {"text"},
      doc |-> Object([name \in {"v", "up", "owner"} |->
                         CASE name = "v" -> Text("2") [] name = "up" -> Truth(TRUE) [] name = "owner" -> Null])],
     [code |-> 201, words |-> {"text"}, doc |-> Document(Array(<<Number(1), Number(3)>>))],
     [code |-> 503, words |-> {"pattern"}, doc |-> NotJSON]}
MCStatuses == {[exact |-> 200, class |-> 0], [exact |-> 0, class |-> 2]}
Comparison(name, literal) == [path |-> <<Field(name)>>, op |-> "==", want |-> literal]
MCExpressions ==
    {Comparison("v", literal) : literal \in {"2", "nan", "null"}}
        \cup {Comparison("up", literal) : literal \in {"true", "2"}}
        \cup {Comparison("owner", literal) : literal \in {"null", "true"}}
        \cup {[path |-> <<Field("v")>>, op |-> ">=", want |-> "2"],
              [path |-> <<Field("v"), Index(0)>>, op |-> "<", want |-> "2.0"],
              [path |-> <<Field("v"), Index(1)>>, op |-> "", want |-> ""]}

-----------------------------------------------------------------------------
SystemQuery ==
    [backend |-> "dns", name |-> "valid", type |-> "A", resolver |-> "system", contains |-> FALSE,
     equals |-> {}, minCount |-> 0, absent |-> FALSE, absentMode |-> "any", server |-> "none",
     rcode |-> "", transport |-> "udp", edns0 |-> FALSE, udpSize |-> 0]
WireQuery == [SystemQuery EXCEPT !.resolver = "wire", !.server = "given"]

\* Options that are about the same things are tried in all their combinations.
OfTypes(o) == {[o EXCEPT !.type = t] : t \in {"A", "AAAA", "CNAME", "ANY", "MX", "odd"}}
OfValues(o) ==
    {[o EXCEPT !.contains = c, !.equals = q, !.minCount = n, !.absent = a] :
        c \in BOOLEAN, q \in {{}, {"alias"}, {"ip1", "ip2"}}, n \in {-1, 0, 2}, a \in BOOLEAN}
OfAbsence(o) ==
    {[o EXCEPT !.absent = a, !.absentMode = m, !.rcode = r] :
        a \in BOOLEAN, m \in {"any", "nxdomain", "nodata", "odd"}, r \in {"", "NOERROR", "NXDOMAIN", "odd"}}
OfTransport(o) ==
    {[o EXCEPT !.transport = t, !.edns0 = e, !.udpSize = n, !.server = s, !.name = h] :
        t \in {"udp", "tcp", "odd"}, e \in BOOLEAN, n \in {-1, 0, 1232, 65536},
        s \in {"none", "given", "malformed"}, h \in {"valid", "malformed"}}
MCDNSRequests ==
    UNION {OfAbsence(o) \cup OfTransport(o) \cup UNION {OfValues(p) : p \in OfTypes(o)} :
              o \in {SystemQuery, WireQuery, [SystemQuery EXCEPT !.resolver = "odd"]}}

Zone(records) == [exists |-> TRUE, broken |-> FALSE, records |-> records]
ARecord(type, value) == [type |-> type, value |-> value]
MCZones ==
    {Zone({}), [Zone({}) EXCEPT !.exists = FALSE], [Zone({ARecord("A", "ip1")}) EXCEPT !.broken = TRUE],
     Zone({ARecord("A", "ip1")}), Zone({ARecord("AAAA", "ip6"), ARecord("MX", "mx")}),
     Zone({ARecord("A", "ip1"), ARecord("A", "ip2"), ARecord("CNAME", "Alias.")})}
MCCanonical ==
    [v \in {"ip1", "ip2", "ip6", "mx", "alias", "Alias.", "host."} |-> IF v = "Alias." THEN "alias" ELSE v]

-----------------------------------------------------------------------------
MCK8sRequests ==
    {o \in [backend : {"k8s"}, kind : {"po", "deploy", "sts", "ds", "job", "svc", "widget"}, named : BOOLEAN,
            condition : {"", "Available"}, json : BOOLEAN, waitFor : {"", "ready", "rollout", "complete", "odd"},
            selector : {"", "labels", "malformed"}, all : BOOLEAN] :
        o.waitFor = "rollout" /\ ~o.named => o.kind = "deploy" /\ ~o.all}

MCContainers ==
    {[status |-> "running", health |-> h] : h \in {"", "starting", "healthy"}}
        \cup {[status |-> "exited", health |-> ""]}
=============================================================================
