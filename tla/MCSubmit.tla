------------------------------ MODULE MCSubmit ------------------------------
(***************************************************************************)
(* Small instances of SubmitPath for TLC.                                  *)
(***************************************************************************)
EXTENDS SubmitPath, TLC

CONSTANTS t1, t2, b1, k

Ask(t, b, key) == [tenant |-> t, body |-> b, key |-> key]

\* One key for two tenants; an empty key; none; a body that is refused.
Mixed == {Ask(t1, b1, k), Ask(t2, b1, k), Ask(t2, b1, EmptyKey), Ask(t2, b1, Null),
          Ask(t2, "huge", k)}

\* Duplicates of one request.
Same == {Ask(t1, b1, k)}

Threads == Permutations(Handlers)
=============================================================================
