----------------------------- MODULE MCRegistry -----------------------------
(* Instances of Registry for TLC. *)
EXTENDS Registry, TLC

CONSTANTS c1, c2, l1, n1, n2, never, t1, h1, h2

\* One chat asks for everything; it tags a link with n1 at most and renames n1
\* to n2.  Its neighbour adds the same link without a tag.
ChatAndNeighbour ==
    {q \in Requests :
        /\ q.chat = c2 => q.op \in {"list", "add"}
        /\ q.op = "add" => q.names \subseteq (IF q.chat = c1 THEN {n1} ELSE {})
        /\ q.op = "renameTag" => q.name = n1 /\ q.new = n2}

\* GET /list meets POST /links.
ListAndAdd == {q \in Requests : q.op \in {"list", "add", "registerChat"}}
=============================================================================
