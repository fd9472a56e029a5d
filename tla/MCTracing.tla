----------------------------- MODULE MCTracing -----------------------------
(* The layer around its sinks, the fields of its records and the           *)
(* credentials of a sink, in one run: they share no state.                 *)
EXTENDS SlsLayer, SlsEvent, SlsCredentials

VARIABLE part

(* Two sinks that both declare "error", and a level that none declares.    *)
TwoSpecs == <<{"error"}, {"error", "info"}>>

(* Names that sanitize alike ("a b" and "a_b"), a name that is another one *)
(* with a suffix, a name that the layer uses itself, and two spans of one  *)
(* name.                                                                   *)
Plain(k, n) == [pre |-> "", base |-> k, suf |-> n]

Keys == [n \in {"message", "a b", "a_b", "a_b_2", "__span__"} |->
          CASE n = "a b" -> Plain("a_b", <<>>)
            [] n = "a_b_2" -> Plain("a_b", <<2>>)
            [] OTHER -> Plain(n, <<>>)]

F(n, k) == [name |-> n, kind |-> k]

Shapes == {<<F("message", "loud"), F("__span__", "plain")>>,
           <<F("message", "num"), F("a b", "plain"), F("a_b", "loud"), F("a_b_2", "num")>>}

SameName == <<"span.f.", "span.f.">>

Chains == {<<>>, <<1>>, <<1, 2>>}

(* Expired before they arrive, within Ahead, just out of it, and longer.   *)
MCLifetimes == {-1, 2, 4, 6, 9, Forever}

(* Where the credentials are not the subject, they are a static key.       *)
MCInit ==
  /\ Init /\ EventInit /\ CredInit
  /\ part \in {"layer", "event", "credentials"}
  /\ part # "credentials" => interval = Forever /\ expiry = Forever

MCNext ==
  /\ UNCHANGED part
  /\ \/ part = "layer" /\ Next /\ UNCHANGED <<spanVars, credVars>>
     \/ part = "event" /\ EventNext /\ UNCHANGED <<vars, credVars>>
     \/ part = "credentials" /\ CredNext /\ UNCHANGED <<vars, spanVars>>

MCSpec ==
  /\ MCInit /\ [][MCNext]_<<vars, spanVars, credVars, part>>
  /\ LayerFairness /\ EventFairness

PartsTypeOK == TypeOK /\ EventTypeOK /\ CredTypeOK
=============================================================================
