----------------------------- MODULE GuardedLlm -----------------------------
(***************************************************************************)
(* The RPCs of LlmRpc behind the token buckets of RateLimit: the limiter   *)
(* decides which calls reach a model, so that its budget per minute bounds *)
(* what the models are asked for, retries included.                        *)
(*                                                                         *)
(* The interceptor awaits the servicer's coroutine right after it has taken *)
(* the token: nothing runs between the token and the first await of the    *)
(* handler.  Buckets and calls are lost together in a restart.             *)
(***************************************************************************)
EXTENDS RateLimit

CONSTANTS
    Calls, RequestOf, Malformed, Trivial, InBand, Models, Attempts, Nothing,
    MaxFaults, MaxDrops, \* see LlmRpc
    ClientOf,     \* ClientOf[c]: the connection that sends call c
    MethodOf,     \* MethodOf[c]: the method it calls
    MostAttempts  \* no provider makes more requests for a call

VARIABLES
    pc, asked, draft, reply, cache, model, measured, purged, faults, drops, \* see LlmRpc
    ticket  \* ticket[c]: whether c took a token, "early" or "in" the observer's window

Rpc == INSTANCE LlmRpc

rpcVars == <<pc, asked, draft, reply, cache, model, measured, purged, faults, drops>>
guardedVars == <<vars, rpcVars, ticket>>

ASSUME GuardedAssumption ==
    /\ IsFiniteSet(Calls)
    /\ ClientOf \in [Calls -> Clients]
    /\ MethodOf \in [Calls -> Methods]
    /\ Attempts \in [Models -> Nat \ {0}]
    /\ MostAttempts \in Nat
    /\ \A m \in Models : Attempts[m] <= MostAttempts

GuardedInit ==
    /\ Init
    /\ Rpc!Init
    /\ ticket = [c \in Calls |-> "none"]

\* The observer of the window notes when a call took its token.
Stamp(c) == ticket' = [ticket EXCEPT ![c] = IF now >= since THEN "in" ELSE "early"]

\* Mutated form of Pass: the handler starts whatever the limiter says.
PassUnguarded(c) ==
    /\ Rpc!EndAtOnce(c) \/ Rpc!Begin(c)
    /\ Stamp(c)
    /\ UNCHANGED vars

\* A call gets its token, and its handler starts.
Pass(c) ==
    /\ Admit(ClientOf[c], MethodOf[c])
    /\ Rpc!EndAtOnce(c) \/ Rpc!Begin(c)
    /\ Stamp(c)

\* It gets none: RESOURCE_EXHAUSTED.
TurnAway(c) ==
    /\ Refuse(ClientOf[c], MethodOf[c])
    /\ Rpc!Refuse(c)
    /\ UNCHANGED ticket

\* What is under way does not know the limiter.
Work(c) == Rpc!Proceed(c) /\ UNCHANGED <<vars, ticket>>
GiveUp(c) == Rpc!Cancel(c) /\ UNCHANGED <<vars, ticket>>

TimePasses == Tick /\ UNCHANGED <<rpcVars, ticket>>

EntryDropped(k) == Rpc!Drop(k) /\ UNCHANGED <<vars, ticket>>

\* One process: the buckets and the calls go together.
NewProcess ==
    /\ Restart
    /\ Rpc!Restart
    /\ UNCHANGED ticket

GuardedNext ==
    \/ \E c \in Calls : Pass(c) \/ TurnAway(c) \/ Work(c) \/ GiveUp(c)
    \/ \E k \in Rpc!Keys : EntryDropped(k)
    \/ TimePasses
    \/ NewProcess

GuardedSpec == GuardedInit /\ [][GuardedNext]_guardedVars

\* The fairness of LlmRpc: answers and errors arrive; nobody has to call.
GuardedFairSpec == GuardedSpec /\ \A c \in Calls : WF_guardedVars(Work(c))

-----------------------------------------------------------------------------
(* Properties *)

\* The calls of k that took no token before the window, and their requests to a model.
KeyOf(c) == <<PeerOf[ClientOf[c]], MethodOf[c]>>
CallsOf(k) == {c \in Calls : KeyOf(c) = k /\ ticket[c] # "early"}
ModelRequests(k) == UNION {{c} \X (1 .. asked[c]) : c \in CallsOf(k)}

\* What the limiter is there for: in any window, the calls of a peer to a method cost no
\* more requests to the models than the calls its budget allows in the window, times the
\* attempts of a provider, however retries of clients and providers, cache misses, Redis
\* errors, cancellations and restarts fall.
SpendWithinBudget ==
    \A k \in Keys : ModelRequests(k) # {} =>
        Cardinality(ModelRequests(k)) * Token
          <= MostAttempts * (Capacity(k) * (1 + reboots)
                             + Refill(k) * (now - since))

\* A call whose handler has started ends, however late the limiter let it pass.
EveryCallEnds == Rpc!EveryCallEnds

-----------------------------------------------------------------------------
(* The inductive strengthening of SpendWithinBudget (GuardedLlmProofs). *)

\* A call that is at work, or has cost anything, has had its token; it costs no more
\* requests than a provider makes.
TicketInv ==
    /\ pc \in [Calls -> {"idle", "reading", "asking", "storing", "stored", "over"}]
    /\ asked \in [Calls -> Nat]
    /\ ticket \in [Calls -> {"none", "early", "in"}]
    /\ model \in Models
    /\ \A c \in Calls :
          /\ asked[c] <= MostAttempts
          /\ pc[c] \notin {"idle", "over"} \/ asked[c] > 0 => ticket[c] # "none"

\* The limiter has counted every call with a token of the window.
InWindow(k) == {c \in Calls : KeyOf(c) = k /\ ticket[c] = "in"}
CountInv == \A k \in Keys : Cardinality(InWindow(k)) <= admitted[k]
=============================================================================
