-------------------------- MODULE MCStatementStore --------------------------
(* Requests that meet: an original and a conflicting version of a, its voiding
   by b, a chain c -> b -> a, batches that insert in opposite orders, and a
   voiding of the voiding b. *)
EXTENDS StatementStore

CONSTANTS t1, t2, t3, a, b, c, x

TwoTxns == {t1, t2}
ThreeTxns == {t1, t2, t3}
ThreeIds == {a, b, c}

Plain(i, r, k) == [id |-> i, voids |-> FALSE, ref |-> r, activity |-> x, content |-> k]
Voids(i, r) == [id |-> i, voids |-> TRUE, ref |-> r, activity |-> None, content |-> 1]
POST(body) == [method |-> "POST", body |-> body]
PUT(s) == [method |-> "PUT", body |-> <<s>>]

AllRequests ==
    {POST(<<Plain(a, None, 1)>>), PUT(Plain(a, None, 2)), POST(<<Voids(b, a)>>),
     POST(<<Voids(c, a), Plain(a, None, 1)>>),
     POST(<<Plain(a, None, 1), Plain(c, b, 1)>>)}

(* For the disagreements: two PUTs of one id; a voiding of a voiding. *)
PutRequests == {PUT(Plain(a, None, 1)), PUT(Plain(a, None, 2))}
VoidRequests == {POST(<<Plain(a, None, 1)>>), POST(<<Voids(b, a)>>), POST(<<Voids(c, b)>>)}
=============================================================================
