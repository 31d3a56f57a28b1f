------------------------------ MODULE HTTPCheck ------------------------------
(***************************************************************************)
(* HTTPCondition.Check: one request, redirects, one response, whose body   *)
(* is read before its status is looked at, against a service that may be   *)
(* redeployed and moved behind redirects meanwhile.  A body is what its    *)
(* first 10 MiB are: the words that the matchers would find in it and the  *)
(* document that it parses as.                                             *)
(***************************************************************************)
EXTENDS JSONExpr, CheckFrame

CONSTANTS
    Responses,    \* what the service may answer: [code, words, doc]
    Statuses,     \* the status matchers: [exact, class]
    Expressions,  \* the JSON expressions: [path, op, want]
    MaxRedirects  \* how many redirects the client of net/http follows

ASSUME HTTPConfig ==
    /\ MaxRedirects \in Nat
    /\ \A r \in Responses : r.code \in 100..599 /\ r.words \subseteq {"text", "pattern"}
    /\ \A e \in Expressions : e = [path |-> e.path, op |-> e.op, want |-> e.want]
    /\ \A r \in Responses, e \in Expressions :    \* what encoding/json decodes
           LET found == Lookup(r.doc, e.path)
           IN  r.doc.kind # "unparsable" /\ found.kind = "number" => found.is \in Int

NotJSON == [kind |-> "unparsable", is |-> 0]
NoExpression == [path |-> <<>>, op |-> "", want |-> ""]

\* An option that is malformed: of several, any.
HTTPFaults == {"none", "url", "method", "status", "body", "regex", "jsonpath", "header"}

HTTPRequests ==
    {o \in [backend : {"http"}, fault : HTTPFaults, status : Statuses, noRedirects : BOOLEAN,
            words : SUBSET {"text", "pattern"}, json : Expressions \cup {NoExpression}] :
        o.fault # "none" => o.words = {} /\ o.json = NoExpression}

\* parseHTTPCondition looks at every option but the method.
HTTPAccepts(o) == o.fault \in {"none", "method"}

\* validateHTTPConfig; what is compiled by then has been found sound.
HTTPValid(o) == o.fault \notin {"url", "method", "status", "header"}

\* HTTPStatusMatcher.Match
StatusMatches(m, code) ==
    IF m.class # 0 THEN code \div 100 = m.class ELSE code = (IF m.exact = 0 THEN 200 ELSE m.exact)

\* checkResponseBody: a body that is no JSON, and an expression that does not apply,
\* do not match.
BodyMatches(o, r) ==
    /\ o.words \subseteq r.words
    /\ o.json = NoExpression \/ (r.doc.kind # "unparsable" /\ Evaluate(r.doc, o.json) = "yes")

\* The world: how many redirects lead to the service, and what it answers.
Redirection == [code |-> 302, words |-> {}, doc |-> NotJSON]
NoResponse == [hops |-> 0, response |-> Redirection]

\* What docs/SPEC.md asks of the HTTP backend, at one moment.
HTTPHolds(o, w) ==
    LET answer == IF o.noRedirects /\ w.redirects > 0 THEN Redirection ELSE w.service
    IN  StatusMatches(o.status, answer.code) /\ BodyMatches(o, answer)

HTTPObserve == Observe(HTTPHolds(request', world'))

HTTPWorld ==
    /\ Running("http")
    /\ \/ \E r \in Responses : Turns([world EXCEPT !.service = r])
       \/ \E n \in 0..(MaxRedirects + 1) : Turns([world EXCEPT !.redirects = n])
    /\ world' # world
    /\ HTTPObserve

HTTPStarts ==
    /\ stage = "check"
    /\ IF HTTPValid(request) THEN Proceed("send") ELSE Reply("fatal")

\* client().Do: no answer, one redirect more, or the response.
HTTPSend ==
    /\ stage = "send"
    /\ \/ Reply("failed")
       \/ /\ hand.hops < world.redirects /\ ~request.noRedirects
          /\ IF hand.hops = MaxRedirects
             THEN Reply("failed")
             ELSE hand' = [hand EXCEPT !.hops = @ + 1] /\ UNCHANGED <<request, stage, world, reply>>
       \/ /\ hand.hops >= world.redirects \/ request.noRedirects
          /\ hand' = [hand EXCEPT !.response =
                          IF hand.hops < world.redirects THEN Redirection ELSE world.service]
          /\ stage' = "read"
          /\ UNCHANGED <<request, world, reply>>

\* Mutant of HTTPRead: the body is the one of a second request.
HTTPReadAgain ==
    /\ stage = "read"
    /\ \/ Reply("failed")
       \/ Reply(IF StatusMatches(request.status, hand.response.code) /\ BodyMatches(request, world.service)
                THEN "satisfied" ELSE "unsatisfied")

\* The rest of the response is lost, or all of it is there: its status, then its body.
HTTPRead ==
    /\ stage = "read"
    /\ \/ Reply("failed")
       \/ Reply(IF StatusMatches(request.status, hand.response.code) /\ BodyMatches(request, hand.response)
                THEN "satisfied" ELSE "unsatisfied")

HTTPCheckStep ==
    /\ Running("http")
    /\ HTTPStarts \/ HTTPSend \/ HTTPRead
    /\ HTTPObserve

HTTPParse ==
    \E o \in HTTPRequests, r \in Responses, n \in 0..(MaxRedirects + 1) :
        /\ o.fault = "none" \/ n = 0
        /\ Parse(o, HTTPAccepts(o), [service |-> r, redirects |-> n], NoResponse)
        /\ HTTPObserve

HTTPNext == HTTPParse \/ HTTPCheckStep \/ HTTPWorld

HTTPSpec == FrameInit /\ [][HTTPNext]_frameVars

-----------------------------------------------------------------------------
\* Whatever the service turns into while its answer is on the way, the status and every
\* body matcher are compared with one and the same response, one that the service gave
\* during the check (HTTPCondition.Check): a satisfied check never puts together the
\* status of one deployment and the body of another, or those of a redirect and its end.
HTTPAnswerWitnessed == request.backend = "http" => ReplyWasRight

\* The six comparisons with one literal agree about the document of one response:
\* nothing is both equal and different, >= and <= are what their names say, an order
\* that is not an error decides between numbers, and what is neither equal nor
\* different is missing or a number or truth value of another kind than the literal
\* (compareValues, compareFloat64, compareBool, compareNullable). The literal nan is
\* the exception: every number is different from it, and none is smaller or greater.
JSONComparisonsAgree ==
    (request.backend = "http" /\ stage = "read" /\ request.json # NoExpression
        /\ hand.response.doc.kind # "unparsable") =>
    LET is(op) == Evaluate(hand.response.doc, [request.json EXCEPT !.op = op])
        found == Lookup(hand.response.doc, request.json.path)
        want == ParseLiteral(request.json.want)
        unordered == found.kind = "number" /\ want = Number(NaN)
    IN  /\ ~(is("==") = "yes" /\ is("!=") = "yes")
        /\ is(">=") = "yes" <=> "yes" \in {is(">"), is("==")} /\ is("<") # "error"
        /\ is("<=") = "yes" <=> "yes" \in {is("<"), is("==")} /\ is(">") # "error"
        /\ is("<") # "error" /\ ~unordered => (is("!=") = "yes" <=> "yes" \in {is("<"), is(">")})
        /\ unordered => is("!=") = "yes" /\ is("<") = "no" /\ is(">") = "no"
        /\ is("==") = "no" /\ is("!=") = "no" => found.kind = "missing" \/ found.kind # want.kind
=============================================================================
