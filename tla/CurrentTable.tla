--------------------------- MODULE CurrentTable ---------------------------
(***************************************************************************)
(* What the local inventory promises those that read its views: each table *)
(* maps keys to the values that were written last; a write changes what    *)
(* one key is mapped to, and nothing is ever forgotten.                    *)
(***************************************************************************)
CONSTANT Tables

VARIABLE entries    \* for each table, pairs <<key, value>>

Init == entries = [t \in Tables |-> {}]

(* A pair is put in place of all there is of its key.                      *)
Next ==
  \E t \in Tables : \E e \in entries'[t] :
    entries' = [entries EXCEPT ![t] = {f \in @ : f[1] # e[1]} \cup {e}]

Spec == Init /\ [][Next]_entries
=============================================================================
