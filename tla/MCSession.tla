----------------------------- MODULE MCSession -----------------------------
(* Small instances of SessionLifecycle for TLC. *)
EXTENDS SessionLifecycle, TLC

\* All selections: some of the items, in any order, or none.
AllSelections ==
    {s \in [Items -> 0 .. Cardinality(Items)] :
        \A i \in Items :
            /\ \A j \in Items : s[i] = s[j] /\ s[i] # 0 => i = j
            /\ \A n \in 1 .. s[i] : \E j \in Items : s[j] = n}

\* The form asks for one of the items, now this one and now that one.
OneMapped == {{i} : i \in Items}
AnyMapping == SUBSET Items

\* Slots and items are only compared with each other.
Symmetry == {p @@ q : p \in Permutations(Requests), q \in Permutations(Items)}
=============================================================================
