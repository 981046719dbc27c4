--------------------------- MODULE AnswerContract ---------------------------
(***************************************************************************)
(* What the gRPC backend may rely on when it calls a method that a language *)
(* model answers, without cache, retries, interceptors or failures: a call  *)
(* ends once; its answer was generated by a model for a prompt that fits its *)
(* own parameters, for this call or another, and for this call if the      *)
(* request is one that must not share answers.                              *)
(***************************************************************************)
CONSTANTS Calls,     \* RPCs
          Artifacts, \* what models may generate: records with prompt and by, a call
          PromptsOf, \* PromptsOf[c]: the prompts that fit the request of c
          Own,       \* calls whose answer no other call may have caused
          Trivial,   \* calls answered without a model
          Nothing    \* no artifact

VARIABLES artifacts, \* what models have generated
          outcome    \* outcome[c]: how c ended, and with what

vars == <<artifacts, outcome>>

Outcome(status, artifact) == [status |-> status, artifact |-> artifact]
Unanswered == Outcome("none", Nothing)
Failures == {"declined", "aborted", "refused", "cancelled", "lost"}

Init == /\ artifacts = {}
        /\ outcome = [c \in Calls |-> Unanswered]

\* A model answers c: it has something of its own.
Generate(c) ==
    /\ outcome[c] = Unanswered
    /\ \A a \in artifacts : a.by # c
    /\ \E a \in artifacts' : /\ a \in Artifacts /\ a.by = c /\ a.prompt \in PromptsOf[c]
                             /\ artifacts' = artifacts \cup {a}

\* What c may be answered with, out of a set of artifacts.
Fitting(c, set) ==
    IF c \in Trivial THEN {Nothing}
                     ELSE {a \in set : a.prompt \in PromptsOf[c] /\ (c \in Own => a.by = c)}

Answer(c) ==
    /\ outcome[c] = Unanswered
    /\ \E a \in Fitting(c, artifacts') :
          outcome' = [outcome EXCEPT ![c] = Outcome("answer", a)]

Fail(c) ==
    /\ outcome[c] = Unanswered
    /\ \E f \in Failures : outcome' = [outcome EXCEPT ![c] = Outcome(f, Nothing)]

\* The process stops under the calls it was serving.
Lose ==
    /\ \E lost \in SUBSET {c \in Calls : outcome[c] = Unanswered} :
          outcome' = [c \in Calls |-> IF c \in lost THEN Outcome("lost", Nothing)
                                                    ELSE outcome[c]]
    /\ UNCHANGED artifacts

Next ==
    \/ \E c \in Calls :
          \/ Generate(c) /\ UNCHANGED outcome
          \/ Generate(c) /\ Answer(c)
          \/ (Answer(c) \/ Fail(c)) /\ UNCHANGED artifacts
    \/ Lose

Spec == Init /\ [][Next]_vars
=============================================================================
