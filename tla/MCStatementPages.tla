-------------------------- MODULE MCStatementPages --------------------------
(* Four statements: st1 by a group whose member is ann; st2 by bob about the
   activity of st1; st3, the voiding of st1 by bob; and st4, which refers to st3. *)
EXTENDS StatementPages, TLC

CONSTANTS w1, st1, st2, st3, st4, ann, bob, act

By(agent) == [usage |-> "Actor", ifi |-> agent, members |-> {}]
Group(members) == [usage |-> "Actor", ifi |-> None, members |-> members]
AllUsages == {"Actor", "Object", "Instructor", "Parent"}
AllIds == {st1, st2, st3, st4}

AllContent ==
    (st1 :> [actors |-> {Group({ann})}, activities |-> {<<"Object", act>>},
           voids |-> FALSE, ref |-> None]) @@
    (st2 :> [actors |-> {By(bob), [usage |-> "Instructor", ifi |-> ann, members |-> {}]},
           activities |-> {<<"Parent", act>>}, voids |-> FALSE, ref |-> None]) @@
    (st3 :> [actors |-> {By(bob)}, activities |-> {}, voids |-> TRUE, ref |-> st1]) @@
    (st4 :> [actors |-> {By(bob)}, activities |-> {}, voids |-> FALSE, ref |-> st3])

All == [statementId |-> None, voidedStatementId |-> None, agent |-> None,
        relatedAgents |-> FALSE, activity |-> None, relatedActivities |-> FALSE,
        voidings |-> FALSE, since |-> None, until |-> None, limit |-> None,
        ascending |-> FALSE, me |-> ann, mineOnly |-> FALSE]

AllQueries ==
    {All, [All EXCEPT !.ascending = TRUE],
     [All EXCEPT !.ascending = TRUE, !.until = 3, !.since = 1],
     [All EXCEPT !.since = 1, !.until = 3, !.limit = 9],
     [All EXCEPT !.agent = ann, !.relatedAgents = TRUE],
     [All EXCEPT !.agent = ann],
     [All EXCEPT !.activity = act, !.relatedActivities = TRUE, !.ascending = TRUE],
     [All EXCEPT !.activity = act],
     [All EXCEPT !.voidings = TRUE],
     [All EXCEPT !.mineOnly = TRUE], [All EXCEPT !.mineOnly = TRUE, !.agent = bob],
     [All EXCEPT !.statementId = st1],
     [All EXCEPT !.statementId = st2, !.mineOnly = TRUE],
     [All EXCEPT !.voidedStatementId = st1],
     [All EXCEPT !.voidedStatementId = st1, !.limit = 1],
     [All EXCEPT !.voidedStatementId = st1, !.statementId = st1]}
=============================================================================
