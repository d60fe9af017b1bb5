------------------------------ MODULE MCLegacy ------------------------------
(* Instances of LegacyContexts: contexts with two fields of two values.     *)
EXTENDS LegacyContexts

CONSTANTS c1, c2, i1, i2, n1, title, done, d1, d2

MCFields == {title, done}
MCCreates == {[f \in MCFields |-> d1], None}
MCUpdates == {Fieldless, [f \in {title} |-> d2], [f \in {done} |-> d2]}

SetTitle == [f \in {title} |-> d2]
SetDone == [f \in {done} |-> d2]

\* One client; two clients that share a context; updates that name another
\* id; Redis failing.
Alone == [clients |-> {c1}, uuids |-> {i1, i2}, updates |-> MCUpdates, named |-> {}, faulty |-> FALSE]
Racing == [clients |-> {c1, c2}, uuids |-> {i1}, updates |-> {SetTitle, SetDone}, named |-> {}, faulty |-> FALSE]
Renaming == [clients |-> {c1, c2}, uuids |-> {i1}, updates |-> {Fieldless}, named |-> {i1, n1}, faulty |-> FALSE]
Failing == [clients |-> {c1, c2}, uuids |-> {i1}, updates |-> {SetTitle}, named |-> {}, faulty |-> TRUE]
MCWorkloads == {Alone, Racing, Renaming, Failing}
=============================================================================
