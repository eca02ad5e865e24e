-------------------------- MODULE StatementSchema --------------------------
(***************************************************************************)
(* What a statement must look like to be accepted, how it is formatted for *)
(* a reader, and when two statements say the same.                         *)
(*                                                                         *)
(* A JSON object is a function from its field names, an array a sequence.  *)
(* A string is what its format tells apart: Valid[f] holds those that the  *)
(* format f allows.  A language tag is the sequence of its subtags, and a  *)
(* timestamp <<instant, offset>>.  A context activity is                   *)
(* [one |-> activity] or [many |-> sequence of activities].                *)
(***************************************************************************)
EXTENDS Integers, Sequences, FiniteSets, Functions

CONSTANT Valid

ASSUME ValidAssumption ==
    DOMAIN Valid = {"iri", "mbox", "sha1", "language", "uuid", "timestamp",
                    "duration", "version10", "version20"}

isV2(version) == version = "2.0.0"

Has(o, f) == f \in DOMAIN o
Keep(o, fields) == Restrict(o, DOMAIN o \cap fields)
Drop(o, fields) == Restrict(o, DOMAIN o \ fields)
Over(new, old) ==
    [g \in DOMAIN new \cup DOMAIN old |-> IF g \in DOMAIN new THEN new[g] ELSE old[g]]
With(o, f, x) == [g \in DOMAIN o \cup {f} |-> IF g = f THEN x ELSE o[g]]
Change(o, f, Op(_)) == IF Has(o, f) THEN [o EXCEPT ![f] = Op(@)] ELSE o
Each(seq, Op(_)) == [i \in DOMAIN seq |-> Op(seq[i])]

(* z.object(...).strict(), .optional() and z.array(...). *)
Object(o, required, optional) ==
    required \subseteq DOMAIN o /\ DOMAIN o \subseteq required \cup optional
Field(o, f, Type(_)) == Has(o, f) => Type(o[f])
Every(seq, Type(_)) == \A i \in DOMAIN seq : Type(seq[i])
Is(o, f, x) == Has(o, f) => o[f] = x

-----------------------------------------------------------------------------
(* Primitives, actors, activities. *)

iri(x) == x \in Valid["iri"]
uuid(x) == x \in Valid["uuid"]
languageTag(x) == x \in Valid["language"]
timestamp(x) == x \in Valid["timestamp"]
languageMap(m) == DOMAIN m \subseteq Valid["language"]
extensions(m) == DOMAIN m \subseteq Valid["iri"]

accountSchema(a) == Object(a, {"homePage", "name"}, {}) /\ iri(a.homePage)

IFIs == {"mbox", "mbox_sha1sum", "openid", "account"}

Identifier(o) ==
    /\ Field(o, "mbox", LAMBDA x : x \in Valid["mbox"])
    /\ Field(o, "mbox_sha1sum", LAMBDA x : x \in Valid["sha1"])
    /\ Field(o, "openid", iri)
    /\ Field(o, "account", accountSchema)

(* One of the four identifiers, and no other. *)
agentSchema(o) ==
    /\ \E ifi \in IFIs : Object(o, {ifi}, {"objectType", "name"})
    /\ Is(o, "objectType", "Agent")
    /\ Identifier(o)

groupSchema(o) ==
    /\ \/ Object(o, {"objectType", "member"}, {"name"}) /\ DOMAIN o.member # {}
       \/ \E ifi \in IFIs : Object(o, {"objectType", ifi}, {"name", "member"})
    /\ o.objectType = "Group"
    /\ Identifier(o)
    /\ Field(o, "member", LAMBDA m : Every(m, agentSchema))

actorSchema(o) == agentSchema(o) \/ groupSchema(o)

agentObjectSchema(o) == agentSchema(o) /\ Has(o, "objectType")

verbSchema(v) == Object(v, {"id"}, {"display"}) /\ iri(v.id) /\ Field(v, "display", languageMap)

interactionComponentSchema(x) ==
    Object(x, {"id"}, {"description"}) /\ Field(x, "description", languageMap)

ComponentLists == {"choices", "scale", "source", "target", "steps"}
InteractionTypes == {"true-false", "choice", "fill-in", "long-fill-in", "matching",
                     "performance", "sequencing", "likert", "numeric", "other"}

activityDefinitionSchema(d) ==
    /\ DOMAIN d \subseteq ComponentLists \cup {"name", "description", "type", "moreInfo",
                             "interactionType", "correctResponsesPattern", "extensions"}
    /\ Field(d, "name", languageMap) /\ Field(d, "description", languageMap)
    /\ Field(d, "type", iri) /\ Field(d, "moreInfo", iri)
    /\ Field(d, "interactionType", LAMBDA t : t \in InteractionTypes)
    /\ \A f \in ComponentLists :
          Field(d, f, LAMBDA list : Every(list, interactionComponentSchema))
    /\ Field(d, "extensions", extensions)
    /\ DOMAIN d \cap (ComponentLists \cup {"correctResponsesPattern"}) # {}
          => Has(d, "interactionType")

activitySchema(a) ==
    /\ Object(a, {"id"}, {"objectType", "definition"})
    /\ Is(a, "objectType", "Activity")
    /\ iri(a.id)
    /\ Field(a, "definition", activityDefinitionSchema)

statementRefSchema(r) ==
    Object(r, {"objectType", "id"}, {}) /\ r.objectType = "StatementRef" /\ uuid(r.id)

-----------------------------------------------------------------------------
(* Result, context, attachments, authority. *)

scoreSchema(s) ==
    LET ordered(f, g) == Has(s, f) /\ Has(s, g) => s[f] <= s[g] IN
    /\ DOMAIN s \subseteq {"scaled", "raw", "min", "max"}
    /\ Field(s, "scaled", LAMBDA x : x \in -1 .. 1)
    /\ ordered("min", "raw") /\ ordered("raw", "max") /\ ordered("min", "max")

resultSchema(r) ==
    /\ DOMAIN r \subseteq {"score", "success", "completion", "response", "duration",
                           "extensions"}
    /\ Field(r, "score", scoreSchema)
    /\ Field(r, "duration", LAMBDA x : x \in Valid["duration"])
    /\ Field(r, "extensions", extensions)

Relations == {"parent", "grouping", "category", "other"}

activityOrArray(v) == IF Has(v, "one") THEN activitySchema(v.one)
                                       ELSE Every(v.many, activitySchema)

contextActivitiesSchema(c) ==
    DOMAIN c \subseteq Relations /\ \A f \in DOMAIN c : activityOrArray(c[f])

RelevantTypes(c) == Field(c, "relevantTypes", LAMBDA ts : DOMAIN ts # {} /\ Every(ts, iri))

contextAgentSchema(c) ==
    /\ Object(c, {"objectType", "agent"}, {"relevantTypes"})
    /\ c.objectType = "contextAgent" /\ agentSchema(c.agent) /\ RelevantTypes(c)

contextGroupSchema(c) ==
    /\ Object(c, {"objectType", "group"}, {"relevantTypes"})
    /\ c.objectType = "contextGroup" /\ groupSchema(c.group) /\ RelevantTypes(c)

(* Only 2.0 knows context agents and groups. *)
contextSchema(c, version) ==
    /\ DOMAIN c \subseteq {"registration", "instructor", "team", "contextActivities",
                           "revision", "platform", "language", "statement", "extensions"}
                          \cup IF isV2(version) THEN {"contextAgents", "contextGroups"} ELSE {}
    /\ Field(c, "registration", uuid)
    /\ Field(c, "instructor", actorSchema) /\ Field(c, "team", groupSchema)
    /\ Field(c, "contextActivities", contextActivitiesSchema)
    /\ Field(c, "language", languageTag) /\ Field(c, "statement", statementRefSchema)
    /\ Field(c, "extensions", extensions)
    /\ Field(c, "contextAgents", LAMBDA as : Every(as, contextAgentSchema))
    /\ Field(c, "contextGroups", LAMBDA gs : Every(gs, contextGroupSchema))

attachmentSchema(a) ==
    /\ Object(a, {"usageType", "display", "contentType", "length", "sha2"},
                 {"description", "fileUrl"})
    /\ iri(a.usageType) /\ languageMap(a.display)
    /\ Field(a, "description", languageMap) /\ Field(a, "fileUrl", iri)

(* An agent, or the group of two that stands for an OAuth consumer. *)
authoritySchema(a) ==
    \/ agentSchema(a)
    \/ /\ Object(a, {"objectType", "member"}, {"name"})
       /\ a.objectType = "Group" /\ Len(a.member) = 2 /\ Every(a.member, agentSchema)

ObjectType(o) == IF Has(o, "objectType") THEN o.objectType ELSE "Activity"

checkContextActivityOnly(s) ==
    Has(s, "context") /\ ObjectType(s.object) # "Activity"
        => DOMAIN s.context \cap {"revision", "platform"} = {}

-----------------------------------------------------------------------------
(* Statements. *)

Parts(s, version) ==
    /\ actorSchema(s.actor) /\ verbSchema(s.verb)
    /\ Field(s, "result", resultSchema)
    /\ Field(s, "context", LAMBDA c : contextSchema(c, version))
    /\ Field(s, "timestamp", timestamp)
    /\ Field(s, "attachments", LAMBDA as : Every(as, attachmentSchema))
    /\ checkContextActivityOnly(s)

subStatementObjectSchema(o) ==
    activitySchema(o) \/ statementRefSchema(o) \/ agentObjectSchema(o) \/ groupSchema(o)

subStatementSchema(s, version) ==
    /\ Object(s, {"objectType", "actor", "verb", "object"},
                 {"result", "context", "timestamp", "attachments"})
    /\ s.objectType = "SubStatement"
    /\ subStatementObjectSchema(s.object)
    /\ Parts(s, version)

(* A 2.0 request may carry a statement of 1.0. *)
versionField(v, version) ==
    v \in Valid["version10"] \cup IF isV2(version) THEN Valid["version20"] ELSE {}

statementSchemaFor(s, version) ==
    /\ Object(s, {"actor", "verb", "object"},
                 {"id", "result", "context", "timestamp", "stored", "authority",
                  "version", "attachments"})
    /\ Field(s, "id", uuid)
    /\ subStatementObjectSchema(s.object) \/ subStatementSchema(s.object, version)
    /\ Field(s, "authority", authoritySchema)
    /\ Field(s, "version", LAMBDA v : versionField(v, version))
    /\ Parts(s, version)

(* The transform of activityOrArray: what is parsed has arrays only. *)
Listed(v) == IF Has(v, "one") THEN [many |-> <<v.one>>] ELSE v
ListedActivities(c) == Change(c, "contextActivities", LAMBDA ca : Each(ca, Listed))
ListedContext(s) == Change(s, "context", ListedActivities)
Parsed(s) ==
    Change(ListedContext(s), "object",
           LAMBDA o : IF ObjectType(o) = "SubStatement" THEN ListedContext(o) ELSE o)

(* What validateStatement returns for a statement it accepts: stored and
   authority are the server's, and it fills in an id and a timestamp. *)
validateStatement(s, newId, now) ==
    LET parsed == Drop(Parsed(s), {"stored", "authority"})
        named == IF Has(parsed, "id") THEN parsed ELSE With(parsed, "id", newId)
    IN  IF Has(named, "timestamp") THEN named ELSE With(named, "timestamp", now)

-----------------------------------------------------------------------------
(* Formats. *)

MemberIds(m) == Each(m, LAMBDA b : Keep(b, IFIs \cup {"objectType"}))
stripAgentToIfi(a) == Change(Keep(a, IFIs \cup {"objectType", "member"}), "member", MemberIds)

stripActivityDefinition(o) == IF ObjectType(o) = "Activity" THEN Keep(o, {"id"}) ELSE o

EachActivity(c, Op(_)) ==
    Change(c, "contextActivities", LAMBDA ca :
        [f \in DOMAIN ca |-> [many |-> [i \in DOMAIN ca[f].many |-> Op(ca[f].many[i])]]])

ContextIds(c) ==
    EachActivity(Change(Change(c, "instructor", stripAgentToIfi), "team", stripAgentToIfi),
                 stripActivityDefinition)

ObjectIds(o) == IF ObjectType(o) \in {"Agent", "Group"} THEN stripAgentToIfi(o)
                                                        ELSE stripActivityDefinition(o)

PartIds(s, object) ==
    Change([s EXCEPT !["actor"] = stripAgentToIfi(@), !["verb"] = Keep(@, {"id"}),
                     !["object"] = object], "context", ContextIds)

formatIdsSubStatement(s) == PartIds(s, ObjectIds(s.object))

\* Mutant: the identifier of an agent object is taken for that of an activity.
formatIds_agentsAsActivities(s) ==
    PartIds(s, IF ObjectType(s.object) = "SubStatement" THEN formatIdsSubStatement(s.object)
               ELSE Keep(s.object, {"id"}))

formatIds(s) ==
    PartIds(s, IF ObjectType(s.object) = "SubStatement" THEN formatIdsSubStatement(s.object)
               ELSE ObjectIds(s.object))

(* The keys of m that serve a preferred tag: the tag itself, else one that
   narrows it, else its first subtag.  Letter case is left out. *)
Serving(m, tag) ==
    LET narrower == {k \in DOMAIN m : Len(k) > Len(tag) /\ SubSeq(k, 1, Len(tag)) = tag}
    IN  IF tag \in DOMAIN m THEN {tag}
        ELSE IF narrower # {} THEN narrower
        ELSE DOMAIN m \cap {<<tag[1]>>}

(* Of several keys the first in the object's order, which is left open. *)
pickLanguage(m, preferred) ==
    LET hits == {i \in DOMAIN preferred : Serving(m, preferred[i]) # {}}
        keys == IF hits = {} THEN DOMAIN m
                ELSE Serving(m, preferred[CHOOSE i \in hits : \A j \in hits : i <= j])
    IN  IF Cardinality(DOMAIN m) <= 1 THEN m ELSE Restrict(m, {CHOOSE k \in keys : TRUE})

(* The tags by descending quality; of equal ones, in the header's order. *)
parseAcceptLanguage(header) ==
    LET before(i, j) == \/ header[i].q > header[j].q
                        \/ header[i].q = header[j].q /\ i < j
        place(i) == 1 + Cardinality({j \in DOMAIN header : before(j, i)})
    IN  [n \in DOMAIN header |-> header[CHOOSE i \in DOMAIN header : place(i) = n].tag]

canonicalizeVerb(v, preferred) ==
    Change(v, "display", LAMBDA m : pickLanguage(m, preferred))

canonicalizeActivityLangMaps(o, preferred) ==
    LET pick(m) == pickLanguage(m, preferred) IN
    IF ObjectType(o) # "Activity" THEN o
    ELSE Change(o, "definition", LAMBDA d : Change(Change(d, "name", pick), "description", pick))

canonicalizeContext(c, preferred) ==
    EachActivity(c, LAMBDA a : canonicalizeActivityLangMaps(a, preferred))

Canonicalized(s, preferred, object) ==
    Change([s EXCEPT !["verb"] = canonicalizeVerb(@, preferred), !["object"] = object],
           "context", LAMBDA c : canonicalizeContext(c, preferred))

canonicalizeSubStatement(s, preferred) ==
    Canonicalized(s, preferred, canonicalizeActivityLangMaps(s.object, preferred))

formatCanonical(s, acceptLanguage) ==
    LET preferred == parseAcceptLanguage(acceptLanguage) IN
    Canonicalized(s, preferred,
        IF ObjectType(s.object) = "SubStatement" THEN canonicalizeSubStatement(s.object, preferred)
        ELSE canonicalizeActivityLangMaps(s.object, preferred))

formatStatement(s, format, acceptLanguage) ==
    CASE format = "ids" -> formatIds(s)
      [] format = "canonical" -> formatCanonical(s, acceptLanguage)
      [] OTHER -> s

-----------------------------------------------------------------------------
(* Comparison. *)

(* Of a signed payload with the statement received. *)
statementsEquivalent(signed, received) ==
    LET exceptions == {"id", "authority", "stored", "timestamp", "version", "attachments"}
    IN  Drop(signed, exceptions) = Drop(received, exceptions)

(* Of a stored statement with one of the same id: two timestamps of the same
   instant are alike. *)
statementsMatch(existing, incoming) ==
    LET serverSet == {"stored", "authority", "version"}
        instant(s) == IF Has(s, "timestamp") THEN [s EXCEPT !["timestamp"] = <<@[1], "Z">>] ELSE s
    IN  instant(Drop(existing, serverSet)) = instant(Drop(incoming, serverSet))

=============================================================================
