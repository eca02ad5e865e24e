--------------------------- MODULE MCLiveService ---------------------------
(* Two event streams of one address and one of the admin page; no more than one
   event stream at a time where the limit is wanted. *)
EXTENDS LiveService, TLC

CONSTANTS s1, s2, a1, ip

TwoAndOne == {s1, s2, a1}
Kinds == s1 :> "xapi" @@ s2 :> "xapi" @@ a1 :> "admin"
OneIp == [s \in TwoAndOne |-> ip]
Limits == "xapi" :> 1 @@ "admin" :> 1
=============================================================================
