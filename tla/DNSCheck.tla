------------------------------ MODULE DNSCheck ------------------------------
(***************************************************************************)
(* DNSCondition.Check.  The system resolver asks for each address family   *)
(* separately; the wire resolver sends one query, which may be lost, and   *)
(* asks again over TCP when the UDP answer was truncated.  The zone may    *)
(* change between any two questions.  A record is its type and its value;  *)
(* the records of a zone are those of the name and of its CNAME target.    *)
(***************************************************************************)
EXTENDS Integers, FiniteSets, CheckFrame

CONSTANTS
    DNSRequests,  \* the options that are tried
    Zones,        \* the states of the zone: [exists, broken, records]
    HostName,     \* the name asked for, as a value
    Canonical,    \* each value without its case and its trailing dot
    Containing    \* the values that contain the --contains text

ASSUME DNSConfig ==
    /\ \A z \in Zones : IsFiniteSet(z.records) /\ (~z.exists => z.records = {})
    /\ \A o \in DNSRequests : o.backend = "dns" /\ o.minCount \in Int

RecordTypes == {"A", "AAAA", "CNAME", "TXT", "ANY", "MX", "SRV", "NS", "CAA", "HTTPS", "SVCB"}
SystemTypes == {"A", "AAAA", "CNAME", "TXT", "ANY"}
RCodes == {"NOERROR", "NXDOMAIN", "SERVFAIL"}
UDPSizes == 0..65535

RCodeOnly(o) == o.rcode # "" /\ ~o.contains /\ o.equals = {} /\ o.minCount = 0

\* parseDNSCondition and normalizeDNSOptions
DNSAccepts(o) ==
    /\ o.name = "valid"
    /\ o.type \in RecordTypes
    /\ o.resolver = "wire" \/ (o.resolver = "system" /\ o.type \in SystemTypes)
    /\ o.minCount >= 0
    /\ o.absent => ~o.contains /\ o.equals = {} /\ o.minCount = 0
    /\ o.absentMode = "any" \/ (o.absentMode \in {"nxdomain", "nodata"} /\ o.resolver = "wire")
    /\ o.transport \in {"udp", "tcp"}
    /\ o.rcode \in RCodes \cup {""}
    /\ o.rcode # "" \/ o.transport = "tcp" \/ o.edns0 \/ o.udpSize > 0 => o.resolver = "wire"
    /\ o.udpSize \in UDPSizes
    /\ o.server \in {"none", "given"}
    /\ o.resolver = "wire" => o.server = "given"

\* DNSCondition.validate
DNSValid(o) ==
    /\ o.name = "valid"
    /\ o.server # "malformed"
    /\ o.type \in RecordTypes
    /\ o.resolver \in {"system", "wire"}
    /\ o.absentMode \in {"any", "nxdomain", "nodata"}
    /\ o.transport \in {"udp", "tcp"}
    /\ o.rcode \in RCodes \cup {""}
    /\ o.resolver = "wire" => o.server # "none"
    /\ o.minCount >= 0
    /\ o.absent => ~o.contains /\ o.equals = {} /\ o.minCount = 0
    /\ o.resolver = "system" => o.rcode = "" /\ o.absentMode = "any" /\ o.type \in SystemTypes

-----------------------------------------------------------------------------
(* What the zone answers, and what of it was asked for.                    *)

RCode(z) ==
    CASE z.broken -> "SERVFAIL"
      [] ~z.broken /\ ~z.exists -> "NXDOMAIN"
      [] OTHER -> "NOERROR"

\* The server sends the CNAME records on the way too.
AnswerSection(z, type) ==
    IF z.broken THEN {} ELSE {r \in z.records : type = "ANY" \/ r.type \in {type, "CNAME"}}

\* dnsValuesFromRRs
OfType(records, type) == {r \in records : type = "ANY" \/ r.type = type}

\* lookupSystemValues: LookupHost asks for the addresses of both families, and
\* LookupCNAME takes any name with addresses for its own canonical name.
Families(o) == IF o.type = "ANY" THEN {"A", "AAAA"} ELSE {o.type}
SystemValues(z, family) ==
    LET found == OfType(z.records, family)
    IN  IF family = "CNAME" /\ found = {} /\ \E r \in z.records : r.type \in {"A", "AAAA"}
        THEN {[type |-> "CNAME", value |-> HostName]}
        ELSE found

\* dnsValuesEqual: the case and the final dot of a domain name do not matter.
DNSEqual(value, want, type) ==
    IF type \in {"CNAME", "NS"} THEN Canonical[value] = Canonical[want] ELSE value = want

\* checkPresentValues
PresentValues(o, values) ==
    /\ values # {}
    /\ Cardinality(values) >= o.minCount
    /\ o.contains => \E r \in values : r.value \in Containing
    /\ \A want \in o.equals : \E r \in values : DNSEqual(r.value, want, o.type)

\* What docs/SPEC.md asks of the DNS backend, at one moment.
DNSHolds(o, z) ==
    LET records == IF o.resolver = "system"
                   THEN IF z.broken THEN {} ELSE UNION {SystemValues(z, f) : f \in Families(o)}
                   ELSE OfType(AnswerSection(z, o.type), o.type)
    IN  /\ o.rcode \in {"", RCode(z)}
        /\ CASE o.absent /\ o.absentMode = "nxdomain" -> RCode(z) = "NXDOMAIN"
             [] o.absent /\ o.absentMode = "nodata" -> RCode(z) = "NOERROR" /\ records = {}
             [] o.absent /\ o.absentMode = "any" -> records = {} /\ (z.broken => o.resolver = "wire")
             [] OTHER -> RCodeOnly(o) \/ PresentValues(o, records)

DNSObserve == Observe(DNSHolds(request', world'))

DNSWorld ==
    /\ Running("dns")
    /\ \E z \in Zones \ {world} : Turns(z)
    /\ DNSObserve

-----------------------------------------------------------------------------
(* Check. In hand: what is still to be asked, over what, and what came.    *)

NoAnswer == [families |-> {}, network |-> "none", values |-> {}, erred |-> {}]

\* checkRCode and checkAbsent.
DNSRight(o, values, code) ==
    /\ o.rcode \in {"", code}
    /\ CASE o.absent /\ o.absentMode = "nxdomain" -> code = "NXDOMAIN"
         [] o.absent /\ o.absentMode = "nodata" -> code = "NOERROR" /\ values = {}
         [] o.absent /\ o.absentMode = "any" -> values = {}
         [] OTHER -> RCodeOnly(o) \/ PresentValues(o, values)

DNSEvaluate(o, values, code) ==
    Reply(IF DNSRight(o, values, code) THEN "satisfied" ELSE "unsatisfied")

DNSStarts ==
    /\ stage = "check"
    /\ IF ~DNSValid(request)
       THEN Reply("fatal")
       ELSE /\ hand' = IF request.resolver = "wire"
                       THEN [hand EXCEPT !.network = request.transport]
                       ELSE [hand EXCEPT !.families = Families(request)]
            /\ stage' = request.resolver
            /\ UNCHANGED <<request, world, reply>>

\* One question of the system resolver; one that fails may not be the last word.
AskSystem(f) ==
    /\ stage = "system"
    /\ f \in hand.families
    /\ \/ hand' = [hand EXCEPT !.families = @ \ {f}, !.erred = @ \cup {f}]
       \/ /\ ~world.broken
          /\ hand' = [hand EXCEPT !.families = @ \ {f}, !.values = @ \cup SystemValues(world, f)]
    /\ UNCHANGED <<request, stage, world, reply>>

\* Values of any family, an error, or "not found".
SystemAnswers ==
    /\ stage = "system"
    /\ hand.families = {}
    /\ \/ hand.values # {} /\ DNSEvaluate(request, hand.values, "NOERROR")
       \/ hand.values = {} /\ hand.erred # {} /\ Reply("failed")
       \/ /\ hand.values = {} /\ hand.erred # Families(request)
          /\ Reply(IF request.absent THEN "satisfied" ELSE "unsatisfied")

\* Mutant of AskWire: a truncated answer is an answer.
AskWireOnce ==
    /\ stage = "wire"
    /\ LET answer == AnswerSection(world, request.type)
       IN  \/ Reply("failed")
           \/ DNSEvaluate(request, OfType(answer, request.type), RCode(world))
           \/ /\ hand.network = "udp"
              /\ \E part \in SUBSET answer :
                     DNSEvaluate(request, OfType(part, request.type), RCode(world))

\* lookupWire: the query or its answer is lost, or the answer is complete, or it is
\* truncated and the question is put again over TCP. What fits into a UDP answer is up
\* to the server, with EDNS0 and --udp-size too.
AskWire ==
    /\ stage = "wire"
    /\ LET answer == AnswerSection(world, request.type)
       IN  \/ Reply("failed")
           \/ DNSEvaluate(request, OfType(answer, request.type), RCode(world))
           \/ /\ hand.network = "udp"
              /\ hand' = [hand EXCEPT !.network = "tcp"]
              /\ UNCHANGED <<request, stage, world, reply>>

DNSCheckStep ==
    /\ Running("dns")
    /\ DNSStarts \/ SystemAnswers \/ AskWire \/ \E f \in {"A", "AAAA", "CNAME", "TXT"} : AskSystem(f)
    /\ DNSObserve

DNSParse ==
    \E o \in DNSRequests, z \in Zones : Parse(o, DNSAccepts(o), z, NoAnswer) /\ DNSObserve

DNSNext == DNSParse \/ DNSCheckStep \/ DNSWorld

DNSSpec == FrameInit /\ [][DNSNext]_frameVars

-----------------------------------------------------------------------------
\* What Check says of the name was so at some moment of the check, for every record
\* type, matcher and kind of absence, when answers are lost or truncated and the zone
\* changes between two questions (DNSCondition.Check). Two questions asked of the
\* system resolver for --type ANY may miss an address that moved from one family to
\* the other meanwhile, so that only what they find is certain.
DNSAnswerWitnessed ==
    request.backend = "dns" /\ (request.type = "ANY" /\ request.resolver = "system" =>
                                    reply = "satisfied" /\ ~request.absent /\ Cardinality(hand.values) = 1)
        => ReplyWasRight
=============================================================================
