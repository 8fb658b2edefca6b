----------------------------- MODULE AgentLedger -----------------------------
(***************************************************************************)
(* What the registry promises to its readers, without accounts, PDAs,       *)
(* transactions or clients: an append-only list of agents in which nobody   *)
(* appears twice, administered by at most one authority that can step down  *)
(* once and for all, and a book of schema configurations in which every     *)
(* page is written once.  SatiRegistry implements this specification.       *)
(***************************************************************************)
EXTENDS Naturals, Sequences

CONSTANTS Agents,       \* agent identities (mint addresses)
          Admins,       \* wallets that may administer the registry
          NoAdmin,      \* nobody: before initialisation, and after renouncing
          Pages,        \* schemas that can be configured
          Contents,     \* schema configurations
          Blank         \* the content of a page not written yet

VARIABLES members,      \* the agents, in order of registration
          open,         \* the registry has been initialised
          admin,        \* who administers it
          book          \* the configuration of every schema

vars == <<members, open, admin, book>>

Init ==
    /\ members = <<>>
    /\ open = FALSE
    /\ admin = NoAdmin
    /\ book = [p \in Pages |-> Blank]

Open(w) ==
    /\ ~open
    /\ open' = TRUE
    /\ admin' = w
    /\ UNCHANGED <<members, book>>

Admit(a) ==
    /\ open
    /\ \A i \in 1..Len(members) : members[i] # a
    /\ members' = Append(members, a)
    /\ UNCHANGED <<open, admin, book>>

\* Handing over the administration, or (w = NoAdmin) giving it up for good.
HandOver(w) ==
    /\ open /\ admin # NoAdmin
    /\ admin' = w
    /\ UNCHANGED <<members, open, book>>

Write(p, c) ==
    /\ open /\ admin # NoAdmin
    /\ book[p] = Blank
    /\ book' = [book EXCEPT ![p] = c]
    /\ UNCHANGED <<members, open, admin>>

Next ==
    \/ \E w \in Admins : Open(w)
    \/ \E a \in Agents : Admit(a)
    \/ \E w \in Admins \cup {NoAdmin} : HandOver(w)
    \/ \E p \in Pages, c \in Contents : Write(p, c)

Spec == Init /\ [][Next]_vars

=============================================================================
