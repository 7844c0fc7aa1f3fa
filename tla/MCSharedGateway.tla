--------------------------- MODULE MCSharedGateway ---------------------------
(* One device of two providers, two requests, and a shared server that gets    *)
(* another target and is then taken from everybody.                            *)
EXTENDS SharedGateway

CONSTANTS u1, u2
Allowing(providers, t) == [on |-> providers, for |-> Provider, target |-> t]
Moved == <<Allowing(Provider, u1), Allowing(Provider, u2)>>
MovedThenTaken == Append(Moved, Allowing({}, u2))
=============================================================================
