---------------------------- MODULE DocumentLedger -----------------------------
(***************************************************************************)
(* What the document operations of ProjectVault promise of one project: a  *)
(* set of visible documents with their sizes, and two totals that go with  *)
(* it.  A document becomes visible once, and once removed or rejected it   *)
(* never comes back.                                                       *)
(***************************************************************************)
EXTENDS Integers

CONSTANTS
    Docs,   \* the documents
    Sizes,  \* the sizes a document can have, in bytes
    Limit   \* the bytes a project may hold; zero or less: no limit

VARIABLES
    live,              \* the visible documents
    retired,           \* the documents that were removed or rejected
    size,              \* the recorded size of each visible document
    documents_count,
    total_size_bytes

ledgerVars == <<live, retired, size, documents_count, total_size_bytes>>

Init ==
    /\ live = {}
    /\ retired = {}
    /\ size = [d \in Docs |-> 0]
    /\ documents_count = 0
    /\ total_size_bytes = 0

Add(d, n) ==
    /\ d \notin live \cup retired
    /\ Limit > 0 => total_size_bytes + n <= Limit
    /\ live' = live \cup {d}
    /\ size' = [size EXCEPT ![d] = n]
    /\ documents_count' = documents_count + 1
    /\ total_size_bytes' = total_size_bytes + n
    /\ UNCHANGED retired

Remove(d) ==
    /\ d \in live
    /\ live' = live \ {d}
    /\ retired' = retired \cup {d}
    /\ size' = [size EXCEPT ![d] = 0]
    /\ documents_count' = documents_count - 1
    /\ total_size_bytes' = total_size_bytes - size[d]

Reject(d) ==
    /\ d \notin live \cup retired
    /\ retired' = retired \cup {d}
    /\ UNCHANGED <<live, size, documents_count, total_size_bytes>>

Next ==
    \E d \in Docs :
        \/ \E n \in Sizes : Add(d, n)
        \/ Remove(d)
        \/ Reject(d)

Spec == Init /\ [][Next]_ledgerVars

================================================================================
