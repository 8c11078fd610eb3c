--------------------------- MODULE MCSessionEngine ---------------------------
(***************************************************************************)
(* Small instances of the session engine.  The model "pixel-2" has the     *)
(* name that dedupeAlias gives to the second "pixel".                      *)
(***************************************************************************)
EXTENDS SessionEngine, Sequences, TLC

MCSlugs == {"pixel", "pixel-2"}
MCMaxSuffix == Cardinality(Sessions)
MCAliasName ==
    [p \in MCSlugs \X (1..MCMaxSuffix) |->
        IF p[2] = 1 THEN p[1] ELSE p[1] \o "-" \o ToString(p[2])]
MCAliases == {MCAliasName[p] : p \in DOMAIN MCAliasName}

Interchangeable == Permutations(Sessions) \union Permutations(Sockets)

\* What nobody claims goes away: a link (LinkEnds) and a connection (UnclaimedSocketCloses).
UnclaimedEnds == LinkEnds /\ UnclaimedSocketCloses
===============================================================================
