------------------------------ MODULE MCRouting ------------------------------
(* Model values for the routing runs. *)
EXTENDS Routing

\* One rule of a tag nobody touches and an old rule of tag 1.
MCInitFile == {[tag |-> MaxTag, port |-> FirstPort + 1],
               [tag |-> 1, port |-> FirstPort + 2]}
Mapping(t, n) == [tag |-> t, nth |-> n]
\* The last tag is nobody's, the others have a manager each.
MCMappings == [m \in Managers |-> {Mapping(m, 1)}]
\* A list may hold two mappings with the first tag.
MCOneMappings ==
    [m \in Managers |-> {Mapping(t, 1) : t \in 1..(MaxTag - 1)} \cup {Mapping(1, 2)}]
=============================================================================
