------------------------------ MODULE MCMirror ------------------------------
EXTENDS Mirror

\* A pull of the packed buckets stops at its cap, one page, and the others
\* have room for two: a second order in processing or shipped is cut off.
MCMaxPages == [b \in Buckets |-> IF b \in {"processing", "shipped"} THEN 1 ELSE 2]

\* An order is packed or canceled; or it is packed, and then shipped or not.
MCShort == {<<"new", "processing">>, <<"new", "canceled">>}
MCFlow == MCShort \cup {<<"processing", "shipped">>, <<"processing", "completed">>}

=============================================================================
