-------------------------- MODULE MCGatewayRequests --------------------------
(* A small instance of GatewayRequests: one request of any kind, and one   *)
(* that may meet it, of every kind that leaves something in its context.   *)
EXTENDS GatewayRequests

TwoRequests == {"first", "other"}
AnyAndOther ==
    [first |-> Route \X UNION {Credentials[a] : a \in DOMAIN Credentials},
     other |-> {<<"open", "none">>, <<"user", "named">>, <<"job", "plain">>,
                <<"job", "realm">>}]
=============================================================================
