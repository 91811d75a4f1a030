--------------------------- MODULE SubmitContract ---------------------------
(***************************************************************************)
(* What submitting promises, without threads, connections or limits: the   *)
(* jobs made so far, and the answers 201, 409 and 500.  A request is a     *)
(* tenant, a body and the Idempotency-Key it carries, which may be none.   *)
(***************************************************************************)
EXTENDS Sequences, Naturals

CONSTANTS
    Requests,   \* [tenant, body, key]
    Null        \* no Idempotency-Key, no job in the answer

VARIABLES
    made,       \* the request each job was made for, in the order they were made
    answers     \* the answers: [request, code, job]

contractVars == <<made, answers>>

ContractInit ==
    /\ made = <<>>
    /\ answers = {}

Reply(r, code, job) == [request |-> r, code |-> code, job |-> job]

Answer(r, code, job) ==
    /\ answers' = answers \cup {Reply(r, code, job)}
    /\ UNCHANGED made

\* A key makes one job at most.  The client may get to know of it later, or
\* never, or be told of an error.
Make(r) ==
    /\ r.key = Null \/ \A i \in DOMAIN made : made[i].key # r.key
    /\ made' = Append(made, r)
    /\ answers' \in {answers, answers \cup {Reply(r, "error", Null)}}

\* 201 names a job made for this very request, its own when it has no key.
Accept(r) ==
    \E i \in DOMAIN made :
        /\ made[i] = r
        /\ r.key = Null => \A a \in answers : a.job # i
        /\ Answer(r, "accepted", i)

\* 409 says that the key made a job for another request.
Conflict(r) ==
    /\ r.key # Null
    /\ \E i \in DOMAIN made : made[i].key = r.key /\ made[i] # r
    /\ Answer(r, "conflict", Null)

\* 500 promises nothing about the job.
Fail(r) == Answer(r, "error", Null)

ContractNext ==
    \E r \in Requests : Make(r) \/ Accept(r) \/ Conflict(r) \/ Fail(r)

ContractSpec == ContractInit /\ [][ContractNext]_contractVars
=============================================================================
