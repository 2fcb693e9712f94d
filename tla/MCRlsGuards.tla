----------------------------- MODULE MCRlsGuards -----------------------------
(***************************************************************************)
(* A small deployment: booking is a model of the project, email a table of *)
(* an adopted app, which the router keeps off the second database.         *)
(***************************************************************************)
EXTENDS RlsGuards

CONSTANTS t1, t2, default, eu, booking, email

Migrations == <<[op |-> "create", table |-> booking],
                [op |-> "enable", table |-> booking],
                [op |-> "policy", table |-> booking],
                [op |-> "create", table |-> email],
                [op |-> "adopt",  table |-> email],
                [op |-> "drop",   table |-> booking]>>

\* As the hint of E007 has it, with one more adoption.
AdoptAgain == Append(Migrations, [op |-> "adopt", table |-> email])

\* The queries all end alike, or one of them times out.
OneTimesOut ==
    {[q \in Queries |-> answer] : answer \in {"answered", "unreachable", "refused"}}
        \cup {[q \in Queries |-> IF q = slow THEN "timeout" ELSE "answered"] : slow \in Queries}

NoEmailInEu == [a \in Aliases |-> IF a = eu THEN {booking} ELSE Tables]
==============================================================================
