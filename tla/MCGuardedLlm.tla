---------------------------- MODULE MCGuardedLlm ----------------------------
(* GuardedLlm on two connections of one IP, which send two calls for one challenge and *)
(* a malformed one.                                                                    *)
EXTENDS GuardedLlm

CONSTANTS c1, c2, g1, g2, m1, qwen, GenerateChallenge

MCClients == {c1, c2}
MCPeerOf == [c \in Clients |-> "ip"]
MCMethods == {GenerateChallenge}
MCBudget == [m \in Methods |-> 1]
MCCalls == {g1, g2, m1}
MCRequestOf == [c \in Calls |-> [base |-> IF c = m1 THEN "m" ELSE "ch", v2 |-> "",
                                 tone |-> "serious", shown |-> "all"]]
MCAttempts == [m \in Models |-> 3]
MCClientOf == [c \in Calls |-> IF c = g2 THEN c2 ELSE c1]
MCMethodOf == [c \in Calls |-> GenerateChallenge]
=============================================================================
