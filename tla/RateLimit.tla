------------------------------ MODULE RateLimit ------------------------------
(***************************************************************************)
(* RateLimitInterceptor of src/grpc_server/_rate_limit.py: one token       *)
(* bucket per (peer, method), created at the first call and lost with the  *)
(* process.                                                                *)
(*                                                                         *)
(* Time is counted in ticks, Minute of them to 60 seconds.  A token is     *)
(* Minute units, so that the refill of capacity / 60 tokens per second is  *)
(* Budget[m] units per tick and the arithmetic is exact: the rounding of   *)
(* the code's floats is left out.                                          *)
(***************************************************************************)
EXTENDS Integers, FiniteSets

CONSTANTS
    Clients,    \* connections that send RPCs
    PeerOf,     \* PeerOf[c]: the IP of c, or "unknown" when introspection fails
    Methods,    \* methods with a budget; any other goes through and leaves no trace
    Budget,     \* Budget[m]: calls per minute, the capacity of m's buckets
    Minute,     \* ticks in 60 seconds
    MaxSkew,    \* ticks between the two clock reads of a call that creates a bucket
    NoBucket,   \* a key that is not in self._buckets
    MaxTime,    \* bound: the clock stops there
    MaxRestarts \* bound: restarts of the process

Keys == {PeerOf[c] : c \in Clients} \X Methods

ASSUME RateLimitAssumption ==
    /\ Budget \in [Methods -> Nat \ {0}]
    /\ Minute \in Nat \ {0}
    /\ MaxSkew \in Nat
    \* Creating a bucket takes less time than refilling all but one of its tokens.
    /\ \A m \in Methods : MaxSkew * Budget[m] <= Minute * (Budget[m] - 1)
    /\ NoBucket \notin [tokens : Int, last : Int]
    /\ MaxTime \in Nat
    /\ MaxRestarts \in Nat

VARIABLES
    now,      \* time.monotonic()
    bucket,   \* bucket[k]: _Bucket, or NoBucket
    \* An observer counts over a window that starts at an arbitrary time:
    since,    \* when the window starts
    admitted, \* admitted[k]: calls let through in it
    reboots,  \* restarts of the process in it
    \* and one keeps the calls of the last minute:
    recent,   \* recent[k]: their times, numbered, until k has overrun its budget
    overrun,  \* keys with more than Budget calls in some minute
    refused,  \* keys of which a call was refused
    restarts

vars == <<now, bucket, since, admitted, reboots, recent, overrun, refused, restarts>>

Capacity(k) == Budget[k[2]] * Minute
\* Mutated form of Refill: capacity // 60 tokens per second.
RefillInteger(k) == (Budget[k[2]] \div Minute) * Minute
Refill(k) == Budget[k[2]]
Token == Minute

Init ==
    /\ now = 0
    /\ bucket = [k \in Keys |-> NoBucket]
    /\ since \in 0 .. MaxTime
    /\ admitted = [k \in Keys |-> 0]
    /\ reboots = 0
    /\ recent = [k \in Keys |-> {}]
    /\ overrun = {} /\ refused = {}
    /\ restarts = 0

-----------------------------------------------------------------------------

\* Mutated form of Available: the refill is not capped at the capacity.
AvailableUncapped(k, skew) ==
    IF bucket[k] = NoBucket
    THEN Capacity(k) - skew * Refill(k)
    ELSE bucket[k].tokens + (now - bucket[k].last) * Refill(k)

\* What the bucket holds after the refill.  A new bucket takes last_refill from a
\* later clock read than now: its elapsed time is negative.
Available(k, skew) ==
    LET filled == IF bucket[k] = NoBucket
                  THEN Capacity(k) - skew * Refill(k)
                  ELSE bucket[k].tokens + (now - bucket[k].last) * Refill(k)
    IN  IF filled < Capacity(k) THEN filled ELSE Capacity(k)

\* The time between the clock reads passes during a call that creates a bucket.
Skews(k) == IF bucket[k] = NoBucket THEN 0 .. MaxSkew ELSE {0}

\* Mutated form of Refilled: the bucket holds more than its capacity.
RefilledDouble(k, units, at) ==
    [bucket EXCEPT ![k] = [tokens |-> units + Capacity(k), last |-> at]]

Refilled(k, units, at) == [bucket EXCEPT ![k] = [tokens |-> units, last |-> at]]

\* The observer of the last minute notes a call, refused or not.
LastMinute(k) == {call \in recent[k] : call[1] > now - Minute}
Current(k) == {call \in recent[k] : call[1] = now}
Note(k) ==
    LET calls == LastMinute(k) \cup {<<now, Cardinality(Current(k))>>}
    IN  IF k \in overrun \/ Cardinality(calls) > Budget[k[2]]
        THEN /\ overrun' = overrun \cup {k}
             /\ recent' = [recent EXCEPT ![k] = {}]
        ELSE /\ recent' = [recent EXCEPT ![k] = calls]
             /\ UNCHANGED overrun

\* _check_and_consume returns True.
Admit(c, m) ==
    LET k == <<PeerOf[c], m>>
    IN  \E skew \in Skews(k) :
          /\ now + skew <= MaxTime
          /\ Available(k, skew) >= Token
          /\ bucket' = Refilled(k, Available(k, skew) - Token, now)
          /\ now' = now + skew
          /\ admitted' = [admitted EXCEPT ![k] = IF now >= since THEN @ + 1 ELSE @]
          /\ Note(k)
          /\ UNCHANGED <<since, reboots, refused, restarts>>

\* It returns False: the call is aborted with RESOURCE_EXHAUSTED.
Refuse(c, m) ==
    LET k == <<PeerOf[c], m>>
    IN  \E skew \in Skews(k) :
          /\ now + skew <= MaxTime
          /\ Available(k, skew) < Token
          /\ bucket' = Refilled(k, Available(k, skew), now)
          /\ now' = now + skew
          /\ refused' = refused \cup {k}
          /\ Note(k)
          /\ UNCHANGED <<since, admitted, reboots, restarts>>

Tick ==
    /\ now < MaxTime
    /\ now' = now + 1
    /\ UNCHANGED <<bucket, since, admitted, reboots, recent, overrun, refused, restarts>>

\* The interceptor lives in memory: a new process starts with no bucket.
Restart ==
    /\ restarts < MaxRestarts
    /\ restarts' = restarts + 1
    /\ bucket' = [k \in Keys |-> NoBucket]
    /\ reboots' = IF now >= since THEN reboots + 1 ELSE reboots
    /\ UNCHANGED <<now, since, admitted, recent, overrun, refused>>

Next ==
    \/ \E c \in Clients, m \in Methods : Admit(c, m) \/ Refuse(c, m)
    \/ Tick
    \/ Restart

Spec == Init /\ [][Next]_vars

-----------------------------------------------------------------------------
(* Properties *)

\* A bucket holds between nothing and its capacity, and was last refilled in the
\* past: tokens never go negative, not even when the elapsed time does.
TypeOK ==
    /\ now \in 0 .. MaxTime
    /\ \A k \in Keys :
          \/ bucket[k] = NoBucket
          \/ /\ bucket[k] \in [tokens : Nat, last : Nat]
             /\ bucket[k].tokens <= Capacity(k)
             /\ bucket[k].last <= now
    /\ bucket \in [Keys -> [tokens : Nat, last : Nat] \cup {NoBucket}]
    /\ since \in 0 .. MaxTime
    /\ admitted \in [Keys -> Nat]
    /\ reboots \in 0 .. restarts
    /\ recent \in [Keys -> SUBSET (Nat \X Nat)]
    /\ \A k \in Keys : IsFiniteSet(recent[k])
    /\ overrun \in SUBSET Keys
    /\ refused \in SUBSET Keys
    /\ restarts \in 0 .. MaxRestarts

\* What protects the LLM budget: in any window of w seconds a peer gets at most
\* capacity + w * capacity / 60 calls of a method through, and one capacity more
\* for every restart of the process in it.
WindowBound ==
    \A k \in Keys : admitted[k] > 0 =>
        admitted[k] * Token <= Capacity(k) * (1 + reboots) + Refill(k) * (now - since)

\* The strengthening of WindowBound that is inductive: what a bucket holds, and
\* what it has refilled since it was last used, is not yet given away.  A key
\* without a bucket may give a whole capacity away.
WindowInv ==
    \A k \in Keys : admitted[k] > 0 =>
        /\ now >= since
        /\ LET spare == IF bucket[k] = NoBucket
                        THEN Capacity(k)
                        ELSE bucket[k].tokens + Refill(k) * (now - bucket[k].last)
           IN  admitted[k] * Token + spare
                 <= Capacity(k) * (1 + reboots) + Refill(k) * (now - since)

\* A peer that keeps to the documented calls per minute, in every window of sixty
\* seconds, is never refused, however its calls are spread and whenever the
\* process restarts.
CompliantNeverRefused == refused \subseteq overrun

\* The strengthening that is inductive.  The calls at one time are numbered; and until a key
\* has overrun its budget, what it has called in the last minute is all that its bucket
\* lacks, at any time from now on: d ticks later, the refill since then makes up for the
\* calls that are a minute old by then.
CompliantInv ==
    /\ \A k \in Keys : \A call \in recent[k] :
          call[1] <= now /\ call[2] < Cardinality({other \in recent[k] : other[1] = call[1]})
    /\ \A k \in Keys \ overrun : \A d \in 0 .. Minute :
          LET spare == IF bucket[k] = NoBucket
                       THEN Capacity(k)
                       ELSE bucket[k].tokens + Refill(k) * (now - bucket[k].last)
          IN  Capacity(k) <=
                 spare + Refill(k) * d
                 + Token * Cardinality({call \in recent[k] : call[1] > now + d - Minute})
    /\ CompliantNeverRefused
=============================================================================
