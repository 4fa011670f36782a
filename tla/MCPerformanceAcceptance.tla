---------------------- MODULE MCPerformanceAcceptance ----------------------
(* TLC instance of the performance acceptance run: two phases, of one and two requests. *)
EXTENDS PerformanceAcceptance, TLC

CONSTANTS a1, a2, a3, s1, s2, s3, s4, x1, x2, x3

MCPhaseLimits == <<1, 2>>
MCNonceOf  == [t \in Tickets |-> t]
MCActionOf == [t \in Tickets |-> IF t \in {a1, a2, a3} THEN "acquire"
                                 ELSE IF t \in {s1, s2, s3, s4} THEN "assert" ELSE "release"]
=============================================================================
