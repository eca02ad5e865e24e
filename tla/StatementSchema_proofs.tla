----------------------- MODULE StatementSchema_proofs -----------------------
(***************************************************************************)
(* For any formats of primitives: what parsing and formatting do to a      *)
(* statement that was accepted.                                            *)
(***************************************************************************)
EXTENDS StatementSchema, FiniteSetTheorems, WellFoundedInduction, TLAPS

USE DEF Has, Object, Field, Every, Is

LEMMA HasLeast ==
    ASSUME NEW T \in SUBSET Nat, T # {}
    PROVE  \E x \in T : \A y \in T : x <= y
<1> DEFINE R == OpToRel(<, Nat)
<1>1. IsWellFoundedOn(R, Nat)
  BY NatLessThanWellFounded, Zenon
<1>2. \A y, x \in Nat : y < x => <<y, x>> \in R
  BY Zenon DEF OpToRel
<1> HIDE DEF R
<1>3. PICK x \in T : \A y \in T : ~(<<y, x>> \in R)
  BY <1>1, WFMin
<1>4. \A y \in T : ~(y < x)
  BY <1>2, <1>3
<1> QED
  BY <1>4

-----------------------------------------------------------------------------
(* The helpers: what they leave of a function. *)

LEMMA Kept ==
    ASSUME NEW o, NEW F
    PROVE  /\ DOMAIN Keep(o, F) = DOMAIN o \cap F
           /\ \A x \in DOMAIN Keep(o, F) : Keep(o, F)[x] = o[x]
BY DEF Keep, Restrict

LEMMA Dropped ==
    ASSUME NEW o, NEW F
    PROVE  /\ DOMAIN Drop(o, F) = DOMAIN o \ F
           /\ \A x \in DOMAIN Drop(o, F) : Drop(o, F)[x] = o[x]
BY DEF Drop, Restrict

LEMMA Added ==
    ASSUME NEW o, NEW f, NEW v
    PROVE  /\ DOMAIN With(o, f, v) = DOMAIN o \cup {f}
           /\ With(o, f, v)[f] = v
           /\ \A x \in DOMAIN o : x # f => With(o, f, v)[x] = o[x]
BY DEF With

-----------------------------------------------------------------------------
(* Agents and groups, stripped to what identifies them. *)

(* An agent remains one without its name or its type. *)
LEMMA AgentOf ==
    ASSUME NEW a, NEW b, agentSchema(a), DOMAIN b \subseteq DOMAIN a,
           DOMAIN a \cap IFIs \subseteq DOMAIN b, \A x \in DOMAIN b : b[x] = a[x]
    PROVE  agentSchema(b)
BY DEF agentSchema, Identifier, IFIs

LEMMA AgentKept ==
    ASSUME NEW a, agentSchema(a)
    PROVE  agentSchema(Keep(a, IFIs \cup {"objectType"}))
<1> DEFINE b == Keep(a, IFIs \cup {"objectType"})
<1>1. DOMAIN b = DOMAIN a \cap (IFIs \cup {"objectType"}) /\ \A x \in DOMAIN b : b[x] = a[x]
  BY Kept
<1> HIDE DEF b
<1>2. agentSchema(b)
  BY <1>1, AgentOf
<1> QED
  BY <1>2 DEF b

LEMMA AgentStripped ==
    ASSUME NEW a, agentSchema(a)
    PROVE  /\ agentSchema(stripAgentToIfi(a))
           /\ Has(a, "objectType") => Has(stripAgentToIfi(a), "objectType")
<1>1. "member" \notin DOMAIN a
  BY DEF agentSchema, IFIs
<1> DEFINE b == Keep(a, IFIs \cup {"objectType", "member"})
<1>2. DOMAIN b = DOMAIN a \cap (IFIs \cup {"objectType", "member"}) /\ \A x \in DOMAIN b : b[x] = a[x]
  BY Kept
<1>3. stripAgentToIfi(a) = b
  BY <1>1, <1>2 DEF stripAgentToIfi, Change
<1> HIDE DEF b
<1>4. agentSchema(b)
  BY <1>2, AgentOf
<1> QED
  BY <1>2, <1>3, <1>4

LEMMA GroupStripped ==
    ASSUME NEW g, groupSchema(g)
    PROVE  groupSchema(stripAgentToIfi(g))
<1> DEFINE h == stripAgentToIfi(g)
           k == Keep(g, IFIs \cup {"objectType", "member"})
<1>a. /\ DOMAIN k = DOMAIN g \cap (IFIs \cup {"objectType", "member"})
      /\ \A x \in DOMAIN k : k[x] = g[x]
  BY Kept
<1>b. h = IF "member" \in DOMAIN k THEN [k EXCEPT !["member"] = MemberIds(k["member"])] ELSE k
  BY DEF stripAgentToIfi, Change
<1> HIDE DEF k, h
<1>1. /\ DOMAIN h = DOMAIN g \cap (IFIs \cup {"objectType", "member"})
      /\ \A x \in DOMAIN h : x # "member" => h[x] = g[x]
  BY <1>a, <1>b
<1>2. "member" \in DOMAIN g =>
         /\ DOMAIN h["member"] = DOMAIN g["member"]
         /\ \A i \in DOMAIN g["member"] :
               h["member"][i] = Keep(g["member"][i], IFIs \cup {"objectType"})
  <2>1. "member" \in DOMAIN g => h["member"] = MemberIds(g["member"])
    BY <1>a, <1>b
  <2> QED BY <2>1 DEF MemberIds, Each
<1>3. "member" \in DOMAIN g => \A i \in DOMAIN g["member"] : agentSchema(g["member"][i])
  BY DEF groupSchema
<1>4. "member" \in DOMAIN g => \A i \in DOMAIN h["member"] : agentSchema(h["member"][i])
  BY <1>2, <1>3, AgentKept
<1>5. Identifier(h)
  BY <1>1 DEF groupSchema, Identifier, IFIs
<1>6. h.objectType = "Group"
  BY <1>1 DEF groupSchema, IFIs
<1>7. "member" \in DOMAIN g => (DOMAIN h["member"] = {} <=> DOMAIN g["member"] = {})
  BY <1>2
<1>8. \/ Object(h, {"objectType", "member"}, {"name"}) /\ DOMAIN h.member # {}
      \/ \E ifi \in IFIs : Object(h, {"objectType", ifi}, {"name", "member"})
  BY <1>1, <1>7 DEF groupSchema, IFIs
<1>9. groupSchema(h)
  BY <1>1, <1>4, <1>5, <1>6, <1>8 DEF groupSchema
<1> QED
  BY <1>9 DEF h

-----------------------------------------------------------------------------
(* Verbs, activities and contexts. *)

LEMMA VerbStripped ==
    ASSUME NEW v, verbSchema(v)
    PROVE  verbSchema(Keep(v, {"id"}))
<1> DEFINE w == Keep(v, {"id"})
<1>1. DOMAIN w = DOMAIN v \cap {"id"} /\ \A x \in DOMAIN w : w[x] = v[x]
  BY Kept
<1> HIDE DEF w
<1>2. verbSchema(w)
  BY <1>1 DEF verbSchema
<1> QED
  BY <1>2 DEF w

LEMMA ActivityType ==
    ASSUME NEW a, activitySchema(a)
    PROVE  ObjectType(a) = "Activity"
BY DEF activitySchema, ObjectType

LEMMA ActivityStripped ==
    ASSUME NEW a, activitySchema(a)
    PROVE  activitySchema(stripActivityDefinition(a))
<1> DEFINE b == Keep(a, {"id"})
<1>1. DOMAIN b = DOMAIN a \cap {"id"} /\ \A x \in DOMAIN b : b[x] = a[x]
  BY Kept
<1>2. stripActivityDefinition(a) = b
  BY ActivityType DEF stripActivityDefinition
<1> HIDE DEF b
<1>3. activitySchema(b)
  BY <1>1 DEF activitySchema
<1> QED
  BY <1>2, <1>3

(* Only the objects of a statement may be activities by default. *)
LEMMA ObjectStripped ==
    ASSUME NEW o, subStatementObjectSchema(o)
    PROVE  /\ subStatementObjectSchema(ObjectIds(o))
           /\ ObjectType(ObjectIds(o)) = "Activity" <=> ObjectType(o) = "Activity"
           /\ ObjectType(o) # "SubStatement"
<1>1. CASE activitySchema(o)
  <2>1. ObjectIds(o) = stripActivityDefinition(o)
    BY <1>1, ActivityType DEF ObjectIds
  <2> QED BY <1>1, <2>1, ActivityStripped, ActivityType DEF subStatementObjectSchema
<1>2. CASE statementRefSchema(o)
  <2>1. ObjectType(o) = "StatementRef"
    BY <1>2 DEF statementRefSchema, ObjectType
  <2>2. ObjectIds(o) = o
    BY <2>1 DEF ObjectIds, stripActivityDefinition
  <2> QED BY <2>1, <2>2
<1>3. CASE agentObjectSchema(o)
  <2>1. ObjectType(o) = "Agent"
    BY <1>3 DEF agentObjectSchema, agentSchema, ObjectType
  <2>2. ObjectIds(o) = stripAgentToIfi(o)
    BY <2>1 DEF ObjectIds
  <2>3. agentObjectSchema(stripAgentToIfi(o))
    BY <1>3, AgentStripped DEF agentObjectSchema
  <2>4. ObjectType(stripAgentToIfi(o)) = "Agent"
    BY <2>3 DEF agentObjectSchema, agentSchema, ObjectType
  <2> QED BY <2>1, <2>2, <2>3, <2>4 DEF subStatementObjectSchema
<1>4. CASE groupSchema(o)
  <2>1. ObjectType(o) = "Group"
    BY <1>4 DEF groupSchema, IFIs, ObjectType
  <2>2. ObjectIds(o) = stripAgentToIfi(o)
    BY <2>1 DEF ObjectIds
  <2>3. groupSchema(stripAgentToIfi(o))
    BY <1>4, GroupStripped
  <2>4. ObjectType(stripAgentToIfi(o)) = "Group"
    BY <2>3 DEF groupSchema, IFIs, ObjectType
  <2> QED BY <2>1, <2>2, <2>3, <2>4 DEF subStatementObjectSchema
<1> QED
  BY <1>1, <1>2, <1>3, <1>4 DEF subStatementObjectSchema

(* A context with other actors and activities. *)
LEMMA ContextOf ==
    ASSUME NEW c, NEW d, NEW version, contextSchema(c, version), DOMAIN d = DOMAIN c,
           \A x \in DOMAIN c : x \notin {"instructor", "team", "contextActivities"} => d[x] = c[x],
           Has(c, "instructor") => actorSchema(d["instructor"]),
           Has(c, "team") => groupSchema(d["team"]),
           Has(c, "contextActivities") => contextActivitiesSchema(d["contextActivities"])
    PROVE  contextSchema(d, version)
BY DEF contextSchema

(* The parts of a statement with another actor, verb, object and context. *)
LEMMA PartsOf ==
    ASSUME NEW s, NEW t, NEW version, Parts(s, version),
           actorSchema(t["actor"]), verbSchema(t["verb"]),
           \A f \in {"result", "timestamp", "attachments"} :
              (Has(t, f) => Has(s, f)) /\ (Has(t, f) => t[f] = s[f]),
           Has(t, "context") => /\ Has(s, "context") /\ DOMAIN t["context"] = DOMAIN s["context"]
                                /\ contextSchema(t["context"], version),
           ObjectType(t["object"]) = "Activity" <=> ObjectType(s["object"]) = "Activity"
    PROVE  Parts(t, version)
BY DEF Parts, checkContextActivityOnly

-----------------------------------------------------------------------------
(* Context activities: arrays once they are parsed. *)

LEMMA ListedIsMany ==
    ASSUME NEW v, activityOrArray(v)
    PROVE  ~Has(Listed(v), "one") /\ activityOrArray(Listed(v)) /\ Listed(Listed(v)) = Listed(v)
<1>1. CASE Has(v, "one")
  <2>1. Listed(v) = [many |-> <<v.one>>]
    BY <1>1 DEF Listed
  <2>2. activitySchema(v.one)
    BY <1>1 DEF activityOrArray
  <2>3. ~Has(Listed(v), "one") /\ Listed(v).many = <<v.one>>
    BY <2>1
  <2>4. \A i \in DOMAIN <<v.one>> : <<v.one>>[i] = v.one
    OBVIOUS
  <2> QED BY <2>2, <2>3, <2>4 DEF activityOrArray, Listed
<1>2. CASE ~Has(v, "one")
  BY <1>2 DEF Listed
<1> QED
  BY <1>1, <1>2

LEMMA ActivitiesListed ==
    ASSUME NEW c
    PROVE  /\ DOMAIN ListedActivities(c) = DOMAIN c
           /\ \A x \in DOMAIN c : x # "contextActivities" => ListedActivities(c)[x] = c[x]
           /\ Has(c, "contextActivities") =>
                 ListedActivities(c)["contextActivities"] =
                    [f \in DOMAIN c["contextActivities"] |-> Listed(c["contextActivities"][f])]
BY DEF ListedActivities, Change, Each

LEMMA ContextListed ==
    ASSUME NEW c, NEW version, contextSchema(c, version)
    PROVE  contextSchema(ListedActivities(c), version)
<1> DEFINE d == ListedActivities(c)
<1>1. CASE Has(c, "contextActivities")
  <2>1. contextActivitiesSchema(c["contextActivities"])
    BY <1>1 DEF contextSchema
  <2> DEFINE ca == c["contextActivities"]
             cb == d["contextActivities"]
  <2>2. cb = [f \in DOMAIN ca |-> Listed(ca[f])]
    BY <1>1, ActivitiesListed
  <2>3. /\ DOMAIN d = DOMAIN c
        /\ \A x \in DOMAIN c : x # "contextActivities" => d[x] = c[x]
    BY ActivitiesListed
  <2> HIDE DEF ca
  <2>4. contextActivitiesSchema(cb)
    BY <2>1, <2>2, ListedIsMany DEF contextActivitiesSchema, ca
  <2>5. /\ Has(c, "instructor") => actorSchema(d["instructor"])
        /\ Has(c, "team") => groupSchema(d["team"])
    BY <2>3 DEF contextSchema
  <2> HIDE DEF d
  <2>6. contextSchema(d, version)
    BY <2>3, <2>4, <2>5, ContextOf
  <2> QED BY <2>6 DEF d
<1>2. CASE ~Has(c, "contextActivities")
  BY <1>2 DEF ListedActivities, Change
<1> QED
  BY <1>1, <1>2

LEMMA ListedTwice ==
    ASSUME NEW c, NEW version, contextSchema(c, version)
    PROVE  ListedActivities(ListedActivities(c)) = ListedActivities(c)
<1> DEFINE L(ca) == [f \in DOMAIN ca |-> Listed(ca[f])]
<1>0. \A e : ListedActivities(e) =
          IF Has(e, "contextActivities")
          THEN [e EXCEPT !["contextActivities"] = L(e["contextActivities"])] ELSE e
  BY DEF ListedActivities, Change, Each
<1>1. CASE Has(c, "contextActivities")
  <2> DEFINE ca == c["contextActivities"]
             d == ListedActivities(c)
  <2>1. contextActivitiesSchema(ca)
    BY <1>1 DEF contextSchema
  <2>2. \A f \in DOMAIN ca : Listed(Listed(ca[f])) = Listed(ca[f])
    BY <2>1, ListedIsMany DEF contextActivitiesSchema
  <2>3. L(L(ca)) = L(ca)
    BY <2>2
  <2>4. d = [c EXCEPT !["contextActivities"] = L(ca)]
    BY <1>0, <1>1
  <2>5. Has(d, "contextActivities") /\ d["contextActivities"] = L(ca)
    BY <1>1, <2>4
  <2>6. ListedActivities(d) = [d EXCEPT !["contextActivities"] = L(L(ca))]
    BY <1>0, <2>5
  <2> HIDE DEF L, ca
  <2> QED BY <2>3, <2>4, <2>5, <2>6
<1>2. CASE ~Has(c, "contextActivities")
  BY <1>2 DEF ListedActivities, Change
<1> QED
  BY <1>1, <1>2

(* What parsing leaves alone has arrays only. *)
LEMMA ListedMeansMany ==
    ASSUME NEW c, ListedActivities(c) = c, Has(c, "contextActivities")
    PROVE  \A f \in DOMAIN c["contextActivities"] : ~Has(c["contextActivities"][f], "one")
<1> DEFINE ca == c["contextActivities"]
<1>1. ca = [f \in DOMAIN ca |-> Listed(ca[f])]
  BY ActivitiesListed
<1>2. ASSUME NEW f \in DOMAIN ca, Has(ca[f], "one") PROVE FALSE
  <2>1. ca[f] = Listed(ca[f])
    BY <1>1
  <2>2. Listed(ca[f]) = [many |-> <<ca[f].one>>]
    BY <1>2 DEF Listed
  <2>3. DOMAIN [many |-> <<ca[f].one>>] = {"many"}
    OBVIOUS
  <2> QED BY <1>2, <2>1, <2>2, <2>3
<1> QED
  BY <1>2

LEMMA ActivitiesOf ==
    ASSUME NEW ca, NEW cb, contextActivitiesSchema(ca), DOMAIN cb = DOMAIN ca,
           \A f \in DOMAIN ca : /\ ~Has(ca[f], "one") /\ ~Has(cb[f], "one")
                                /\ DOMAIN cb[f].many = DOMAIN ca[f].many
                                /\ \A i \in DOMAIN ca[f].many :
                                      activitySchema(ca[f].many[i]) => activitySchema(cb[f].many[i])
    PROVE  contextActivitiesSchema(cb)
BY DEF contextActivitiesSchema, activityOrArray

-----------------------------------------------------------------------------
(* The format `ids'. *)

LEMMA ContextIdsFields ==
    ASSUME NEW c
    PROVE  /\ DOMAIN ContextIds(c) = DOMAIN c
           /\ \A x \in DOMAIN c : x \notin {"instructor", "team", "contextActivities"} =>
                 ContextIds(c)[x] = c[x]
           /\ Has(c, "instructor") => ContextIds(c)["instructor"] = stripAgentToIfi(c["instructor"])
           /\ Has(c, "team") => ContextIds(c)["team"] = stripAgentToIfi(c["team"])
           /\ Has(c, "contextActivities") =>
                 ContextIds(c)["contextActivities"] =
                    [f \in DOMAIN c["contextActivities"] |->
                       [many |-> [i \in DOMAIN c["contextActivities"][f].many |->
                                    stripActivityDefinition(c["contextActivities"][f].many[i])]]]
<1> DEFINE d == Change(c, "instructor", stripAgentToIfi)
           e == Change(d, "team", stripAgentToIfi)
<1>1. /\ DOMAIN d = DOMAIN c /\ \A x \in DOMAIN c : x # "instructor" => d[x] = c[x]
      /\ Has(c, "instructor") => d["instructor"] = stripAgentToIfi(c["instructor"])
  BY DEF Change
<1> HIDE DEF d
<1>2. /\ DOMAIN e = DOMAIN d /\ \A x \in DOMAIN d : x # "team" => e[x] = d[x]
      /\ Has(d, "team") => e["team"] = stripAgentToIfi(d["team"])
  BY DEF Change
<1> HIDE DEF e
<1>3. ContextIds(c) = EachActivity(e, stripActivityDefinition)
  BY DEF ContextIds, d, e
<1>4. /\ DOMAIN ContextIds(c) = DOMAIN e
      /\ \A x \in DOMAIN e : x # "contextActivities" => ContextIds(c)[x] = e[x]
      /\ Has(e, "contextActivities") =>
            ContextIds(c)["contextActivities"] =
               [f \in DOMAIN e["contextActivities"] |->
                  [many |-> [i \in DOMAIN e["contextActivities"][f].many |->
                               stripActivityDefinition(e["contextActivities"][f].many[i])]]]
  BY <1>3 DEF EachActivity, Change
<1>5. Has(c, "contextActivities") => e["contextActivities"] = c["contextActivities"]
  BY <1>1, <1>2
<1> QED
  BY <1>1, <1>2, <1>4, <1>5

LEMMA ActorStripped ==
    ASSUME NEW a, actorSchema(a)
    PROVE  actorSchema(stripAgentToIfi(a))
BY AgentStripped, GroupStripped DEF actorSchema

LEMMA ContextStripped ==
    ASSUME NEW c, NEW version, contextSchema(c, version), ListedActivities(c) = c
    PROVE  contextSchema(ContextIds(c), version)
<1> DEFINE d == ContextIds(c)
<1>1. Has(c, "instructor") => actorSchema(d["instructor"])
  <2>1. Has(c, "instructor") => actorSchema(c["instructor"])
    BY DEF contextSchema
  <2> QED BY <2>1, ActorStripped, ContextIdsFields
<1>2. Has(c, "team") => groupSchema(d["team"])
  <2>1. Has(c, "team") => groupSchema(c["team"])
    BY DEF contextSchema
  <2> QED BY <2>1, GroupStripped, ContextIdsFields
<1>3. Has(c, "contextActivities") => contextActivitiesSchema(d["contextActivities"])
  <2> SUFFICES ASSUME Has(c, "contextActivities")
               PROVE  contextActivitiesSchema(d["contextActivities"])
    OBVIOUS
  <2> DEFINE ca == c["contextActivities"]
             cb == d["contextActivities"]
  <2>1. cb = [f \in DOMAIN ca |-> [many |-> [i \in DOMAIN ca[f].many |->
                                               stripActivityDefinition(ca[f].many[i])]]]
    BY ContextIdsFields
  <2>2. \A f \in DOMAIN ca : ~Has(ca[f], "one")
    BY ListedMeansMany
  <2>3. contextActivitiesSchema(ca)
    BY DEF contextSchema
  <2> HIDE DEF ca, cb
  <2>4. /\ DOMAIN cb = DOMAIN ca
        /\ \A f \in DOMAIN ca :
              /\ ~Has(cb[f], "one") /\ DOMAIN cb[f].many = DOMAIN ca[f].many
              /\ \A i \in DOMAIN ca[f].many :
                    activitySchema(ca[f].many[i]) => activitySchema(cb[f].many[i])
    BY <2>1, ActivityStripped
  <2>5. contextActivitiesSchema(cb)
    BY <2>2, <2>3, <2>4, ActivitiesOf
  <2> QED BY <2>5 DEF cb
<1>4. /\ DOMAIN d = DOMAIN c
      /\ \A x \in DOMAIN c : x \notin {"instructor", "team", "contextActivities"} => d[x] = c[x]
  BY ContextIdsFields
<1> HIDE DEF d
<1>5. contextSchema(d, version)
  BY <1>1, <1>2, <1>3, <1>4, ContextOf
<1> QED
  BY <1>5 DEF d

LEMMA PartIdsFields ==
    ASSUME NEW s, NEW object, {"actor", "verb", "object"} \subseteq DOMAIN s
    PROVE  /\ DOMAIN PartIds(s, object) = DOMAIN s
           /\ PartIds(s, object)["actor"] = stripAgentToIfi(s["actor"])
           /\ PartIds(s, object)["verb"] = Keep(s["verb"], {"id"})
           /\ PartIds(s, object)["object"] = object
           /\ Has(s, "context") => PartIds(s, object)["context"] = ContextIds(s["context"])
           /\ \A x \in DOMAIN s : x \notin {"actor", "verb", "object", "context"} =>
                 PartIds(s, object)[x] = s[x]
<1> DEFINE t == [s EXCEPT !["actor"] = stripAgentToIfi(@), !["verb"] = Keep(@, {"id"}),
                          !["object"] = object]
<1>1. /\ DOMAIN t = DOMAIN s
      /\ t["actor"] = stripAgentToIfi(s["actor"]) /\ t["verb"] = Keep(s["verb"], {"id"})
      /\ t["object"] = object
      /\ \A x \in DOMAIN s : x \notin {"actor", "verb", "object"} => t[x] = s[x]
  OBVIOUS
<1>2. PartIds(s, object) = IF Has(t, "context") THEN [t EXCEPT !["context"] = ContextIds(t["context"])]
                           ELSE t
  BY DEF PartIds, Change
<1> HIDE DEF t
<1> QED
  BY <1>1, <1>2

(* What has the parts of a statement, parsed, keeps them without its names. *)
LEMMA PartsStripped ==
    ASSUME NEW s, NEW object, NEW version, {"actor", "verb", "object"} \subseteq DOMAIN s,
           Parts(s, version), Has(s, "context") => ListedActivities(s["context"]) = s["context"],
           ObjectType(object) = "Activity" <=> ObjectType(s["object"]) = "Activity"
    PROVE  Parts(PartIds(s, object), version)
<1> DEFINE t == PartIds(s, object)
<1>1. /\ DOMAIN t = DOMAIN s
      /\ t["actor"] = stripAgentToIfi(s["actor"]) /\ t["verb"] = Keep(s["verb"], {"id"})
      /\ t["object"] = object
      /\ Has(s, "context") => t["context"] = ContextIds(s["context"])
      /\ \A x \in {"result", "timestamp", "attachments"} : Has(s, x) => t[x] = s[x]
  BY PartIdsFields
<1> HIDE DEF t
<1>2. actorSchema(s["actor"]) /\ verbSchema(s["verb"])
  BY DEF Parts
<1>3. Has(s, "context") => contextSchema(s["context"], version)
  BY DEF Parts
<1>4. actorSchema(t["actor"]) /\ verbSchema(t["verb"])
  BY <1>1, <1>2, ActorStripped, VerbStripped
<1>5. Has(t, "context") => /\ Has(s, "context") /\ DOMAIN t["context"] = DOMAIN s["context"]
                           /\ contextSchema(t["context"], version)
  BY <1>1, <1>3, ContextIdsFields, ContextStripped
<1>6. Parts(t, version)
  BY <1>1, <1>4, <1>5, PartsOf
<1> QED
  BY <1>6 DEF t

(* What parsing leaves alone. *)
IsListed(s) ==
    /\ Has(s, "context") => ListedActivities(s["context"]) = s["context"]
    /\ ObjectType(s["object"]) = "SubStatement" => ListedContext(s["object"]) = s["object"]

LEMMA ListedContextFields ==
    ASSUME NEW s
    PROVE  /\ DOMAIN ListedContext(s) = DOMAIN s
           /\ \A x \in DOMAIN s : x # "context" => ListedContext(s)[x] = s[x]
           /\ Has(s, "context") => ListedContext(s)["context"] = ListedActivities(s["context"])
BY DEF ListedContext, Change

LEMMA SubStatementType ==
    ASSUME NEW s, NEW version, subStatementSchema(s, version)
    PROVE  /\ {"objectType", "actor", "verb", "object"} \subseteq DOMAIN s
           /\ ObjectType(s) = "SubStatement"
BY DEF subStatementSchema, ObjectType

LEMMA SubStatementStripped ==
    ASSUME NEW s, NEW version, subStatementSchema(s, version), ListedContext(s) = s
    PROVE  subStatementSchema(formatIdsSubStatement(s), version)
<1> DEFINE object == ObjectIds(s["object"])
           t == PartIds(s, object)
<1>1. {"objectType", "actor", "verb", "object"} \subseteq DOMAIN s
  BY SubStatementType
<1>2. subStatementObjectSchema(s["object"]) /\ Parts(s, version)
  BY DEF subStatementSchema
<1>3. /\ subStatementObjectSchema(object)
      /\ ObjectType(object) = "Activity" <=> ObjectType(s["object"]) = "Activity"
  BY <1>2, ObjectStripped
<1>4. Has(s, "context") => ListedActivities(s["context"]) = s["context"]
  BY ListedContextFields
<1>5. formatIdsSubStatement(s) = t
  BY DEF formatIdsSubStatement
<1> HIDE DEF object
<1>6. Parts(t, version)
  BY <1>1, <1>2, <1>3, <1>4, PartsStripped
<1>7. DOMAIN t = DOMAIN s /\ t["object"] = object /\ t["objectType"] = s["objectType"]
  BY <1>1, PartIdsFields
<1> HIDE DEF t
<1>8. subStatementSchema(t, version)
  BY <1>3, <1>6, <1>7 DEF subStatementSchema
<1> QED
  BY <1>5, <1>8

(* A statement with other parts. *)
LEMMA StatementOf ==
    ASSUME NEW s, NEW t, NEW version, statementSchemaFor(s, version), Parts(t, version),
           DOMAIN t = DOMAIN s, \A x \in {"id", "authority", "version"} : Has(s, x) => t[x] = s[x],
           subStatementObjectSchema(t["object"]) \/ subStatementSchema(t["object"], version)
    PROVE  statementSchemaFor(t, version)
BY DEF statementSchemaFor

(* What was accepted and parsed is accepted as its ids. *)
THEOREM IdsAccepted ==
    ASSUME NEW s, NEW version, statementSchemaFor(s, version), IsListed(s)
    PROVE  statementSchemaFor(formatIds(s), version)
<1> DEFINE o == s["object"]
           object == IF ObjectType(o) = "SubStatement" THEN formatIdsSubStatement(o) ELSE ObjectIds(o)
           t == PartIds(s, object)
<1>1. {"actor", "verb", "object"} \subseteq DOMAIN s /\ Parts(s, version)
  BY DEF statementSchemaFor
<1>2. /\ subStatementObjectSchema(object) \/ subStatementSchema(object, version)
      /\ ObjectType(object) = "Activity" <=> ObjectType(o) = "Activity"
  <2>1. CASE subStatementObjectSchema(o)
    BY <2>1, ObjectStripped
  <2>2. CASE subStatementSchema(o, version)
    <3>1. ObjectType(o) = "SubStatement"
      BY <2>2, SubStatementType
    <3>2. subStatementSchema(formatIdsSubStatement(o), version)
      BY <2>2, <3>1, SubStatementStripped DEF IsListed
    <3> QED BY <3>1, <3>2, SubStatementType
  <2> QED BY <2>1, <2>2 DEF statementSchemaFor
<1>3. formatIds(s) = t
  BY DEF formatIds
<1> HIDE DEF object
<1>4. Parts(t, version)
  BY <1>1, <1>2, PartsStripped DEF IsListed
<1>5. /\ DOMAIN t = DOMAIN s /\ t["object"] = object
      /\ \A x \in {"id", "authority", "version"} : Has(s, x) => t[x] = s[x]
  BY <1>1, PartIdsFields
<1> HIDE DEF t
<1>6. statementSchemaFor(t, version)
  BY <1>2, <1>4, <1>5, StatementOf
<1> QED
  BY <1>3, <1>6

-----------------------------------------------------------------------------
(* The format `canonical'. *)

(* The language that is picked is one of the map. *)
LEMMA PickedFromMap ==
    ASSUME NEW m, NEW preferred, DOMAIN preferred \subseteq Nat
    PROVE  DOMAIN pickLanguage(m, preferred) \subseteq DOMAIN m
<1> DEFINE hits == {i \in DOMAIN preferred : Serving(m, preferred[i]) # {}}
           first == CHOOSE i \in hits : \A j \in hits : i <= j
           keys == IF hits = {} THEN DOMAIN m ELSE Serving(m, preferred[first])
<1>1. pickLanguage(m, preferred) =
          IF Cardinality(DOMAIN m) <= 1 THEN m ELSE Restrict(m, {CHOOSE k \in keys : TRUE})
  BY DEF pickLanguage
<1>2. hits # {} => first \in hits
  <2>1. hits \in SUBSET Nat
    OBVIOUS
  <2> HIDE DEF hits
  <2>2. hits # {} => \E i \in hits : \A j \in hits : i <= j
    BY <2>1, HasLeast
  <2> QED BY <2>2
<1>3. \A tag : Serving(m, tag) \subseteq DOMAIN m
  BY DEF Serving
<1>4. DOMAIN m # {} => keys # {}
  BY <1>2
<1>5. keys \subseteq DOMAIN m
  BY <1>3
<1> HIDE DEF keys
<1>6. CASE DOMAIN m = {}
  BY <1>1, <1>6, FS_EmptySet
<1>7. CASE DOMAIN m # {}
  <2> DEFINE picked == CHOOSE k \in keys : TRUE
  <2>1. picked \in DOMAIN m
    BY <1>4, <1>5, <1>7
  <2>2. DOMAIN Restrict(m, {picked}) = {picked}
    BY DEF Restrict
  <2>3. pickLanguage(m, preferred) \in {m, Restrict(m, {picked})}
    BY <1>1
  <2> HIDE DEF picked
  <2> QED BY <2>1, <2>2, <2>3
<1> QED
  BY <1>6, <1>7

LEMMA VerbCanonical ==
    ASSUME NEW v, verbSchema(v), NEW preferred, DOMAIN preferred \subseteq Nat
    PROVE  verbSchema(canonicalizeVerb(v, preferred))
<1> DEFINE w == canonicalizeVerb(v, preferred)
<1>1. /\ DOMAIN w = DOMAIN v
      /\ \A x \in DOMAIN v : x # "display" => w[x] = v[x]
      /\ Has(v, "display") => w["display"] = pickLanguage(v["display"], preferred)
  BY DEF canonicalizeVerb, Change
<1>2. Has(v, "display") => languageMap(v["display"])
  BY DEF verbSchema
<1>3. Has(v, "display") => languageMap(w["display"])
  BY <1>1, <1>2, PickedFromMap DEF languageMap
<1> HIDE DEF w
<1>4. verbSchema(w)
  BY <1>1, <1>3 DEF verbSchema
<1> QED
  BY <1>4 DEF w

LEMMA ActivityCanonical ==
    ASSUME NEW a, activitySchema(a), NEW preferred, DOMAIN preferred \subseteq Nat
    PROVE  activitySchema(canonicalizeActivityLangMaps(a, preferred))
<1> DEFINE pick(m) == pickLanguage(m, preferred)
           D(d) == Change(Change(d, "name", pick), "description", pick)
           b == canonicalizeActivityLangMaps(a, preferred)
<1>1. /\ DOMAIN b = DOMAIN a
      /\ \A x \in DOMAIN a : x # "definition" => b[x] = a[x]
      /\ Has(a, "definition") => b["definition"] = D(a["definition"])
  BY ActivityType DEF canonicalizeActivityLangMaps, Change
<1>2. CASE Has(a, "definition")
  <2> DEFINE d == a["definition"]
             e == Change(d, "name", pick)
             f == D(d)
  <2>1. /\ DOMAIN e = DOMAIN d
        /\ \A x \in DOMAIN d : x # "name" => e[x] = d[x]
        /\ Has(d, "name") => e["name"] = pick(d["name"])
    BY DEF Change
  <2>2. /\ DOMAIN f = DOMAIN e
        /\ \A x \in DOMAIN e : x # "description" => f[x] = e[x]
        /\ Has(e, "description") => f["description"] = pick(e["description"])
    <3> HIDE DEF d
    <3> QED BY DEF Change
  <2>3. activityDefinitionSchema(d)
    BY <1>2 DEF activitySchema
  <2>4. \A m : DOMAIN pick(m) \subseteq DOMAIN m
    BY PickedFromMap
  <2> HIDE DEF d, e, f, D
  <2>5. /\ DOMAIN f = DOMAIN d
        /\ \A x \in DOMAIN d : x \notin {"name", "description"} => f[x] = d[x]
        /\ Has(d, "name") => f["name"] = pick(d["name"])
        /\ Has(d, "description") => f["description"] = pick(d["description"])
    BY <2>1, <2>2
  <2> HIDE DEF pick
  <2>6. activityDefinitionSchema(f)
    BY <2>3, <2>4, <2>5 DEF activityDefinitionSchema, languageMap, ComponentLists
  <2>7. activityDefinitionSchema(b["definition"])
    BY <1>1, <1>2, <2>6 DEF d, f
  <2> HIDE DEF b
  <2>8. activitySchema(b)
    BY <1>1, <2>7 DEF activitySchema
  <2> QED BY <2>8 DEF b
<1>3. CASE ~Has(a, "definition")
  <2> HIDE DEF b
  <2>1. activitySchema(b)
    BY <1>1, <1>3 DEF activitySchema
  <2> QED BY <2>1 DEF b
<1> QED
  BY <1>2, <1>3

LEMMA ObjectCanonical ==
    ASSUME NEW o, subStatementObjectSchema(o), NEW preferred, DOMAIN preferred \subseteq Nat
    PROVE  /\ subStatementObjectSchema(canonicalizeActivityLangMaps(o, preferred))
           /\ ObjectType(canonicalizeActivityLangMaps(o, preferred)) = "Activity"
                 <=> ObjectType(o) = "Activity"
<1>1. CASE activitySchema(o)
  BY <1>1, ActivityCanonical, ActivityType DEF subStatementObjectSchema
<1>2. CASE ~activitySchema(o)
  <2>1. ObjectType(o) # "Activity"
    BY <1>2 DEF subStatementObjectSchema, statementRefSchema, agentObjectSchema, agentSchema,
                groupSchema, IFIs, ObjectType
  <2> QED BY <2>1 DEF canonicalizeActivityLangMaps
<1> QED
  BY <1>1, <1>2

LEMMA ContextCanonicalFields ==
    ASSUME NEW c, NEW preferred
    PROVE  /\ DOMAIN canonicalizeContext(c, preferred) = DOMAIN c
           /\ \A x \in DOMAIN c : x # "contextActivities" =>
                 canonicalizeContext(c, preferred)[x] = c[x]
           /\ Has(c, "contextActivities") =>
                 canonicalizeContext(c, preferred)["contextActivities"] =
                    [f \in DOMAIN c["contextActivities"] |->
                       [many |-> [i \in DOMAIN c["contextActivities"][f].many |->
                            canonicalizeActivityLangMaps(c["contextActivities"][f].many[i], preferred)]]]
BY DEF canonicalizeContext, EachActivity, Change

LEMMA ContextCanonical ==
    ASSUME NEW c, NEW version, contextSchema(c, version), ListedActivities(c) = c,
           NEW preferred, DOMAIN preferred \subseteq Nat
    PROVE  contextSchema(canonicalizeContext(c, preferred), version)
<1> DEFINE d == canonicalizeContext(c, preferred)
<1>1. Has(c, "contextActivities") => contextActivitiesSchema(d["contextActivities"])
  <2> SUFFICES ASSUME Has(c, "contextActivities")
               PROVE  contextActivitiesSchema(d["contextActivities"])
    OBVIOUS
  <2> DEFINE ca == c["contextActivities"]
             cb == d["contextActivities"]
  <2>1. cb = [f \in DOMAIN ca |-> [many |-> [i \in DOMAIN ca[f].many |->
                                     canonicalizeActivityLangMaps(ca[f].many[i], preferred)]]]
    BY ContextCanonicalFields
  <2>2. \A f \in DOMAIN ca : ~Has(ca[f], "one")
    BY ListedMeansMany
  <2>3. contextActivitiesSchema(ca)
    BY DEF contextSchema
  <2> HIDE DEF ca, cb
  <2>4. /\ DOMAIN cb = DOMAIN ca
        /\ \A f \in DOMAIN ca :
              /\ ~Has(cb[f], "one") /\ DOMAIN cb[f].many = DOMAIN ca[f].many
              /\ \A i \in DOMAIN ca[f].many :
                    activitySchema(ca[f].many[i]) => activitySchema(cb[f].many[i])
    BY <2>1, ActivityCanonical
  <2>5. contextActivitiesSchema(cb)
    BY <2>2, <2>3, <2>4, ActivitiesOf
  <2> QED BY <2>5 DEF cb
<1>2. /\ DOMAIN d = DOMAIN c
      /\ \A x \in DOMAIN c : x # "contextActivities" => d[x] = c[x]
  BY ContextCanonicalFields
<1>3. /\ Has(c, "instructor") => actorSchema(d["instructor"])
      /\ Has(c, "team") => groupSchema(d["team"])
  BY <1>2 DEF contextSchema
<1> HIDE DEF d
<1>4. contextSchema(d, version)
  BY <1>1, <1>2, <1>3, ContextOf
<1> QED
  BY <1>4 DEF d

LEMMA CanonicalizedFields ==
    ASSUME NEW s, NEW preferred, NEW object, {"actor", "verb", "object"} \subseteq DOMAIN s
    PROVE  /\ DOMAIN Canonicalized(s, preferred, object) = DOMAIN s
           /\ Canonicalized(s, preferred, object)["verb"] = canonicalizeVerb(s["verb"], preferred)
           /\ Canonicalized(s, preferred, object)["object"] = object
           /\ Has(s, "context") => Canonicalized(s, preferred, object)["context"] =
                                     canonicalizeContext(s["context"], preferred)
           /\ \A x \in DOMAIN s : x \notin {"verb", "object", "context"} =>
                 Canonicalized(s, preferred, object)[x] = s[x]
<1> DEFINE t == [s EXCEPT !["verb"] = canonicalizeVerb(@, preferred), !["object"] = object]
<1>1. /\ DOMAIN t = DOMAIN s
      /\ t["verb"] = canonicalizeVerb(s["verb"], preferred) /\ t["object"] = object
      /\ \A x \in DOMAIN s : x \notin {"verb", "object"} => t[x] = s[x]
  OBVIOUS
<1>2. Canonicalized(s, preferred, object) =
          IF Has(t, "context") THEN [t EXCEPT !["context"] = canonicalizeContext(t["context"], preferred)]
          ELSE t
  BY DEF Canonicalized, Change
<1> HIDE DEF t
<1> QED
  BY <1>1, <1>2

LEMMA PartsCanonical ==
    ASSUME NEW s, NEW object, NEW version, {"actor", "verb", "object"} \subseteq DOMAIN s,
           Parts(s, version), Has(s, "context") => ListedActivities(s["context"]) = s["context"],
           ObjectType(object) = "Activity" <=> ObjectType(s["object"]) = "Activity",
           NEW preferred, DOMAIN preferred \subseteq Nat
    PROVE  Parts(Canonicalized(s, preferred, object), version)
<1> DEFINE t == Canonicalized(s, preferred, object)
<1>1. /\ DOMAIN t = DOMAIN s
      /\ t["verb"] = canonicalizeVerb(s["verb"], preferred) /\ t["object"] = object
      /\ Has(s, "context") => t["context"] = canonicalizeContext(s["context"], preferred)
      /\ \A x \in {"actor", "result", "timestamp", "attachments"} : Has(s, x) => t[x] = s[x]
  BY CanonicalizedFields
<1> HIDE DEF t
<1>2. actorSchema(s["actor"]) /\ verbSchema(s["verb"])
  BY DEF Parts
<1>3. Has(s, "context") => contextSchema(s["context"], version)
  BY DEF Parts
<1>4. actorSchema(t["actor"]) /\ verbSchema(t["verb"])
  BY <1>1, <1>2, VerbCanonical
<1>5. Has(t, "context") => /\ Has(s, "context") /\ DOMAIN t["context"] = DOMAIN s["context"]
                           /\ contextSchema(t["context"], version)
  <2> SUFFICES ASSUME Has(s, "context")
               PROVE  /\ DOMAIN t["context"] = DOMAIN s["context"]
                      /\ contextSchema(t["context"], version)
    BY <1>1
  <2> DEFINE c == s["context"]
  <2>1. contextSchema(c, version) /\ ListedActivities(c) = c /\ t["context"] = canonicalizeContext(c, preferred)
    BY <1>1, <1>3
  <2> HIDE DEF c
  <2>2. contextSchema(canonicalizeContext(c, preferred), version)
    BY <2>1, ContextCanonical
  <2>3. DOMAIN canonicalizeContext(c, preferred) = DOMAIN c
    BY ContextCanonicalFields
  <2> QED BY <2>1, <2>2, <2>3 DEF c
<1>6. Parts(t, version)
  BY <1>1, <1>4, <1>5, PartsOf
<1> QED
  BY <1>6 DEF t

LEMMA SubStatementCanonical ==
    ASSUME NEW s, NEW version, subStatementSchema(s, version), ListedContext(s) = s,
           NEW preferred, DOMAIN preferred \subseteq Nat
    PROVE  subStatementSchema(canonicalizeSubStatement(s, preferred), version)
<1> DEFINE object == canonicalizeActivityLangMaps(s["object"], preferred)
           t == Canonicalized(s, preferred, object)
<1>1. {"objectType", "actor", "verb", "object"} \subseteq DOMAIN s
  BY SubStatementType
<1>2. subStatementObjectSchema(s["object"]) /\ Parts(s, version)
  BY DEF subStatementSchema
<1>3. /\ subStatementObjectSchema(object)
      /\ ObjectType(object) = "Activity" <=> ObjectType(s["object"]) = "Activity"
  BY <1>2, ObjectCanonical
<1>4. Has(s, "context") => ListedActivities(s["context"]) = s["context"]
  BY ListedContextFields
<1>5. canonicalizeSubStatement(s, preferred) = t
  BY DEF canonicalizeSubStatement
<1> HIDE DEF object
<1>6. Parts(t, version)
  BY <1>1, <1>2, <1>3, <1>4, PartsCanonical
<1>7. DOMAIN t = DOMAIN s /\ t["object"] = object /\ t["objectType"] = s["objectType"]
  BY <1>1, CanonicalizedFields
<1> HIDE DEF t
<1>8. subStatementSchema(t, version)
  BY <1>3, <1>6, <1>7 DEF subStatementSchema
<1> QED
  BY <1>5, <1>8

(* What was accepted and parsed is accepted in the reader's languages. *)
THEOREM CanonicalAccepted ==
    ASSUME NEW s, NEW version, statementSchemaFor(s, version), IsListed(s),
           NEW header, DOMAIN header \subseteq Nat
    PROVE  statementSchemaFor(formatCanonical(s, header), version)
<1> DEFINE preferred == parseAcceptLanguage(header)
           o == s["object"]
           object == IF ObjectType(o) = "SubStatement" THEN canonicalizeSubStatement(o, preferred)
                     ELSE canonicalizeActivityLangMaps(o, preferred)
           t == Canonicalized(s, preferred, object)
<1>0. DOMAIN preferred \subseteq Nat
  BY DEF parseAcceptLanguage
<1>1. {"actor", "verb", "object"} \subseteq DOMAIN s /\ Parts(s, version)
  BY DEF statementSchemaFor
<1>3. formatCanonical(s, header) = t
  BY DEF formatCanonical
<1> HIDE DEF preferred
<1>2. /\ subStatementObjectSchema(object) \/ subStatementSchema(object, version)
      /\ ObjectType(object) = "Activity" <=> ObjectType(o) = "Activity"
  <2>1. CASE subStatementObjectSchema(o)
    BY <1>0, <2>1, ObjectStripped, ObjectCanonical
  <2>2. CASE subStatementSchema(o, version)
    <3>1. ObjectType(o) = "SubStatement"
      BY <2>2, SubStatementType
    <3>2. subStatementSchema(canonicalizeSubStatement(o, preferred), version)
      BY <1>0, <2>2, <3>1, SubStatementCanonical DEF IsListed
    <3> QED BY <3>1, <3>2, SubStatementType
  <2> QED BY <2>1, <2>2 DEF statementSchemaFor
<1> HIDE DEF object
<1>4. Parts(t, version)
  BY <1>0, <1>1, <1>2, PartsCanonical DEF IsListed
<1>5. /\ DOMAIN t = DOMAIN s /\ t["object"] = object
      /\ \A x \in {"id", "authority", "version"} : Has(s, x) => t[x] = s[x]
  BY <1>1, CanonicalizedFields
<1> HIDE DEF t
<1>6. statementSchemaFor(t, version)
  BY <1>2, <1>4, <1>5, StatementOf
<1> QED
  BY <1>3, <1>6

-----------------------------------------------------------------------------
(* Parsing, and parsing again. *)

LEMMA PartsListed ==
    ASSUME NEW s, NEW t, NEW version, {"actor", "verb", "object"} \subseteq DOMAIN s,
           Parts(s, version), DOMAIN t = DOMAIN s,
           \A x \in DOMAIN s : x \notin {"object", "context"} => t[x] = s[x],
           ObjectType(t["object"]) = "Activity" <=> ObjectType(s["object"]) = "Activity",
           Has(s, "context") => t["context"] = ListedActivities(s["context"])
    PROVE  Parts(t, version)
<1>1. actorSchema(t["actor"]) /\ verbSchema(t["verb"])
  BY DEF Parts
<1>2. Has(s, "context") => contextSchema(s["context"], version)
  BY DEF Parts
<1>3. Has(t, "context") => /\ Has(s, "context") /\ DOMAIN t["context"] = DOMAIN s["context"]
                           /\ contextSchema(t["context"], version)
  BY <1>2, ActivitiesListed, ContextListed
<1> QED
  BY <1>1, <1>3, PartsOf

LEMMA SubStatementListed ==
    ASSUME NEW s, NEW version, subStatementSchema(s, version)
    PROVE  /\ subStatementSchema(ListedContext(s), version)
           /\ ListedContext(ListedContext(s)) = ListedContext(s)
<1> DEFINE t == ListedContext(s)
<1>1. {"objectType", "actor", "verb", "object"} \subseteq DOMAIN s /\ Parts(s, version)
  BY SubStatementType DEF subStatementSchema
<1>2. /\ DOMAIN t = DOMAIN s /\ \A x \in DOMAIN s : x # "context" => t[x] = s[x]
      /\ Has(s, "context") => t["context"] = ListedActivities(s["context"])
  BY ListedContextFields
<1>3. Has(s, "context") => ListedActivities(t["context"]) = t["context"]
  <2>1. Has(s, "context") => contextSchema(s["context"], version)
    BY <1>1 DEF Parts
  <2> QED BY <1>2, <2>1, ListedTwice
<1>4. ListedContext(t) = t
  <2>1. t = IF Has(s, "context") THEN [s EXCEPT !["context"] = ListedActivities(s["context"])] ELSE s
    BY DEF ListedContext, Change
  <2>2. ListedContext(t) =
            IF Has(t, "context") THEN [t EXCEPT !["context"] = ListedActivities(t["context"])] ELSE t
    BY DEF ListedContext, Change
  <2> HIDE DEF t
  <2> QED BY <1>2, <1>3, <2>1, <2>2
<1> HIDE DEF t
<1>5. Parts(t, version)
  BY <1>1, <1>2, PartsListed
<1>6. subStatementSchema(t, version)
  BY <1>1, <1>2, <1>5 DEF subStatementSchema
<1> QED
  BY <1>4, <1>6 DEF t

LEMMA ParsedFields ==
    ASSUME NEW s
    PROVE  /\ DOMAIN Parsed(s) = DOMAIN s
           /\ \A x \in DOMAIN s : x \notin {"object", "context"} => Parsed(s)[x] = s[x]
           /\ Has(s, "context") => Parsed(s)["context"] = ListedActivities(s["context"])
           /\ Has(s, "object") => Parsed(s)["object"] =
                 IF ObjectType(s["object"]) = "SubStatement" THEN ListedContext(s["object"])
                 ELSE s["object"]
<1> DEFINE t == ListedContext(s)
<1>1. /\ DOMAIN t = DOMAIN s /\ \A x \in DOMAIN s : x # "context" => t[x] = s[x]
      /\ Has(s, "context") => t["context"] = ListedActivities(s["context"])
  BY ListedContextFields
<1>2. Parsed(s) =
          IF Has(t, "object")
          THEN [t EXCEPT !["object"] = IF ObjectType(t["object"]) = "SubStatement"
                                       THEN ListedContext(t["object"]) ELSE t["object"]]
          ELSE t
  BY DEF Parsed, Change
<1> HIDE DEF t
<1> QED
  BY <1>1, <1>2

LEMMA ParsedAccepted ==
    ASSUME NEW s, NEW version, statementSchemaFor(s, version)
    PROVE  statementSchemaFor(Parsed(s), version) /\ IsListed(Parsed(s))
<1> DEFINE t == Parsed(s)
           o == s["object"]
<1>1. {"actor", "verb", "object"} \subseteq DOMAIN s /\ Parts(s, version)
  BY DEF statementSchemaFor
<1>2. /\ DOMAIN t = DOMAIN s
      /\ \A x \in DOMAIN s : x \notin {"object", "context"} => t[x] = s[x]
      /\ Has(s, "context") => t["context"] = ListedActivities(s["context"])
      /\ t["object"] = IF ObjectType(o) = "SubStatement" THEN ListedContext(o) ELSE o
  BY <1>1, ParsedFields
<1> HIDE DEF t
<1>3. /\ subStatementObjectSchema(t["object"]) \/ subStatementSchema(t["object"], version)
      /\ ObjectType(t["object"]) = "Activity" <=> ObjectType(o) = "Activity"
      /\ ObjectType(t["object"]) = "SubStatement" => ListedContext(t["object"]) = t["object"]
  <2>1. CASE subStatementObjectSchema(o)
    BY <1>2, <2>1, ObjectStripped
  <2>2. CASE subStatementSchema(o, version)
    <3>1. ObjectType(o) = "SubStatement" /\ t["object"] = ListedContext(o)
      BY <1>2, <2>2, SubStatementType
    <3>2. subStatementSchema(ListedContext(o), version)
          /\ ListedContext(ListedContext(o)) = ListedContext(o)
      BY <2>2, SubStatementListed
    <3> QED BY <3>1, <3>2, SubStatementType
  <2> QED BY <2>1, <2>2 DEF statementSchemaFor
<1>4. Parts(t, version)
  BY <1>1, <1>2, <1>3, PartsListed
<1>5. statementSchemaFor(t, version)
  BY <1>2, <1>3, <1>4, StatementOf
<1>6. Has(t, "context") => ListedActivities(t["context"]) = t["context"]
  <2>1. Has(s, "context") => contextSchema(s["context"], version)
    BY <1>1 DEF Parts
  <2> QED BY <1>2, <2>1, ListedTwice
<1> QED
  BY <1>3, <1>5, <1>6 DEF IsListed, t

IsValidated(t, s, newId, now) ==
    /\ DOMAIN t = (DOMAIN s \ {"stored", "authority"}) \cup {"id", "timestamp"}
    /\ t["id"] = IF Has(s, "id") THEN s["id"] ELSE newId
    /\ t["timestamp"] = IF Has(s, "timestamp") THEN s["timestamp"] ELSE now
    /\ \A x \in DOMAIN s : x \notin {"id", "timestamp", "stored", "authority"} => t[x] = Parsed(s)[x]
    /\ t = [x \in DOMAIN t |-> t[x]]

LEMMA ValidatedFields ==
    ASSUME NEW s, NEW newId, NEW now
    PROVE  IsValidated(validateStatement(s, newId, now), s, newId, now)
<1> DEFINE p == Drop(Parsed(s), {"stored", "authority"})
           n == IF Has(p, "id") THEN p ELSE With(p, "id", newId)
           v == IF Has(n, "timestamp") THEN n ELSE With(n, "timestamp", now)
<1>1. /\ DOMAIN p = DOMAIN s \ {"stored", "authority"}
      /\ \A x \in DOMAIN p : p[x] = Parsed(s)[x]
      /\ p = [x \in DOMAIN p |-> p[x]]
  BY ParsedFields DEF Drop, Restrict
<1>2. /\ Has(s, "id") => p["id"] = s["id"]
      /\ Has(s, "timestamp") => p["timestamp"] = s["timestamp"]
  BY <1>1, ParsedFields
<1> HIDE DEF p
<1>3. /\ DOMAIN n = DOMAIN p \cup {"id"} /\ n["id"] = IF Has(p, "id") THEN p["id"] ELSE newId
      /\ \A x \in DOMAIN p : x # "id" => n[x] = p[x]
      /\ n = [x \in DOMAIN n |-> n[x]]
  BY <1>1 DEF With
<1> HIDE DEF n
<1>4. /\ DOMAIN v = DOMAIN n \cup {"timestamp"}
      /\ v["timestamp"] = IF Has(n, "timestamp") THEN n["timestamp"] ELSE now
      /\ \A x \in DOMAIN n : x # "timestamp" => v[x] = n[x]
      /\ v = [x \in DOMAIN v |-> v[x]]
  BY <1>3 DEF With
<1>5. v = validateStatement(s, newId, now)
  BY DEF validateStatement, n, p
<1> HIDE DEF v
<1>6. IsValidated(v, s, newId, now)
  BY <1>1, <1>2, <1>3, <1>4 DEF IsValidated
<1> QED
  BY <1>5, <1>6

(* The id that validateStatement is given is one, if it is needed. *)
Named(s, newId) == Has(s, "id") \/ uuid(newId)

LEMMA ValidatedAccepted ==
    ASSUME NEW s, NEW version, statementSchemaFor(s, version),
           NEW newId, Named(s, newId), NEW now, timestamp(now)
    PROVE  /\ statementSchemaFor(validateStatement(s, newId, now), version)
           /\ IsListed(validateStatement(s, newId, now))
<1> DEFINE p == Parsed(s)
           t == validateStatement(s, newId, now)
<1>0. t = validateStatement(s, newId, now)
  OBVIOUS
<1> HIDE DEF t
<1>1. statementSchemaFor(p, version) /\ IsListed(p) /\ DOMAIN p = DOMAIN s
  BY ParsedAccepted, ParsedFields
<1>2. IsValidated(t, s, newId, now)
  BY <1>0, ValidatedFields
<1>02. \A x \in DOMAIN s : x \notin {"id", "timestamp", "stored", "authority"} => t[x] = p[x]
  BY <1>2 DEF IsValidated
<1>3. {"actor", "verb", "object"} \subseteq DOMAIN s /\ DOMAIN s \subseteq
        {"actor", "verb", "object", "id", "result", "context", "timestamp", "stored", "authority",
         "version", "attachments"}
  BY DEF statementSchemaFor
<1>4. /\ Has(s, "id") => uuid(s["id"])
      /\ Has(s, "timestamp") => timestamp(s["timestamp"])
  BY DEF statementSchemaFor, Parts
<1> HIDE DEF p
<1>5. Parts(p, version)
  BY <1>1 DEF statementSchemaFor
<1>6. Parts(t, version)
  BY <1>1, <1>2, <1>02, <1>3, <1>4, <1>5 DEF Parts, checkContextActivityOnly, IsValidated
<1>7. statementSchemaFor(t, version)
  BY <1>1, <1>2, <1>02, <1>3, <1>4, <1>6 DEF statementSchemaFor, Named, IsValidated
<1>8. IsListed(t)
  BY <1>1, <1>2, <1>02, <1>3 DEF IsListed, IsValidated
<1> QED
  BY <1>7, <1>8 DEF t

(* What the server adds to a statement it stores. *)
Stamped(t, at, authority) == With(With(t, "stored", at), "authority", authority)

LEMMA StampedFields ==
    ASSUME NEW t, NEW at, NEW authority, NEW p, p = Stamped(t, at, authority)
    PROVE  /\ DOMAIN p = DOMAIN t \cup {"stored", "authority"}
           /\ p["authority"] = authority
           /\ \A x \in DOMAIN t : x \notin {"stored", "authority"} => p[x] = t[x]
BY DEF Stamped, With

LEMMA StampedAccepted ==
    ASSUME NEW t, NEW version, statementSchemaFor(t, version), IsListed(t),
           NEW at, NEW authority, authoritySchema(authority)
    PROVE  statementSchemaFor(Stamped(t, at, authority), version) /\ IsListed(Stamped(t, at, authority))
<1> DEFINE p == Stamped(t, at, authority)
<1>0. p = Stamped(t, at, authority)
  OBVIOUS
<1> HIDE DEF p
<1>1. /\ DOMAIN p = DOMAIN t \cup {"stored", "authority"} /\ p["authority"] = authority
      /\ \A x \in DOMAIN t : x \notin {"stored", "authority"} => p[x] = t[x]
  BY <1>0, StampedFields
<1>2. {"actor", "verb", "object"} \subseteq DOMAIN t /\ Parts(t, version)
  BY DEF statementSchemaFor
<1>3. Parts(p, version)
  BY <1>1, <1>2 DEF Parts, checkContextActivityOnly
<1>4. statementSchemaFor(p, version)
  BY <1>1, <1>2, <1>3 DEF statementSchemaFor
<1>5. IsListed(p)
  BY <1>1, <1>2 DEF IsListed
<1> QED
  BY <1>4, <1>5 DEF p

(* What was stored is parsed again to what it was before it was stored. *)
THEOREM ParsedAgain ==
    ASSUME NEW s, NEW version, statementSchemaFor(s, version), NEW newId, NEW now,
           Named(s, newId), timestamp(now),
           NEW at, NEW authority, authoritySchema(authority), NEW otherId, NEW later
    PROVE  LET t == validateStatement(s, newId, now)
               p == Stamped(t, at, authority)
           IN  /\ validateStatement(p, otherId, later) = t
               /\ statementsMatch(p, t)
<1> DEFINE t == validateStatement(s, newId, now)
           p == Stamped(t, at, authority)
           u == validateStatement(p, otherId, later)
<1>0. t = validateStatement(s, newId, now) /\ p = Stamped(t, at, authority)
      /\ u = validateStatement(p, otherId, later)
  OBVIOUS
<1>00. IsListed(t) /\ {"actor", "verb", "object"} \subseteq DOMAIN s
  BY ValidatedAccepted DEF statementSchemaFor
<1> HIDE DEF t, p, u
<1>1. IsValidated(t, s, newId, now)
  BY <1>0, ValidatedFields
<1>2. /\ DOMAIN p = DOMAIN t \cup {"stored", "authority"}
      /\ p["authority"] = authority
      /\ \A x \in DOMAIN t : x \notin {"stored", "authority"} => p[x] = t[x]
  BY <1>0, StampedFields
<1>4. IsValidated(u, p, otherId, later)
  BY <1>0, ValidatedFields
<1>5. /\ \A x \in DOMAIN p : x \notin {"object", "context"} => Parsed(p)[x] = p[x]
      /\ Has(p, "context") => Parsed(p)["context"] = ListedActivities(p["context"])
      /\ Has(p, "object") => Parsed(p)["object"] =
            IF ObjectType(p["object"]) = "SubStatement" THEN ListedContext(p["object"]) ELSE p["object"]
  BY ParsedFields
<1>6. DOMAIN u = DOMAIN t
  BY <1>1, <1>2, <1>4 DEF IsValidated
<1>7. \A x \in DOMAIN t : u[x] = t[x]
  BY <1>1, <1>00, <1>2, <1>4, <1>5 DEF IsListed, IsValidated
<1>8. u = t
  BY <1>1, <1>4, <1>6, <1>7 DEF IsValidated
<1>9. Drop(p, {"stored", "authority", "version"}) = Drop(t, {"stored", "authority", "version"})
  BY <1>1, <1>2 DEF Drop, Restrict, IsValidated
<1>10. statementsMatch(p, t)
  BY <1>9 DEF statementsMatch
<1> QED
  BY <1>8, <1>10 DEF t, p, u

=============================================================================
