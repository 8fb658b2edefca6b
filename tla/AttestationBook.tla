--------------------------- MODULE AttestationBook ---------------------------
(***************************************************************************)
(* What the attestation instructions promise to their readers, without      *)
(* signatures, layouts or clocks: a book with at most one entry under a key. *)
(* Nothing rewrites an entry; an entry leaves the book only if its schema is *)
(* closeable; a key of the compressed store is used once in its life.        *)
(* SatiAttestation implements this specification.                            *)
(***************************************************************************)
CONSTANT Closeable      \* the schemas whose entries may be withdrawn

VARIABLES book,         \* entries [store, key, schema, body]
          spent         \* keys of the compressed store that were ever used

Init == book = {} /\ spent = {}

Post(e) ==
    /\ e \notin book
    /\ \A f \in book : <<f.store, f.key>> # <<e.store, e.key>>
    /\ e.store = "compressed" => e.key \notin spent
    /\ book' = book \cup {e}
    /\ spent' = IF e.store = "compressed" THEN spent \cup {e.key} ELSE spent

Withdraw(e) ==
    /\ e.schema \in Closeable
    /\ book' = book \ {e}
    /\ UNCHANGED spent

Next ==
    \/ \E e \in book' : Post(e)
    \/ \E e \in book : Withdraw(e)

Spec == Init /\ [][Next]_<<book, spent>>
=============================================================================
