------------------------- MODULE SessionsRefinement -------------------------
(***************************************************************************)
(* Sessions implements TokenChain.  The documents hold life and current;   *)
(* which tokens were minted and spent is read off the tokens themselves.   *)
(***************************************************************************)
EXTENDS Sessions

Life(s) ==
    IF s \in docs THEN IF Revoked(s) THEN "revoked" ELSE "live"
    ELSE IF \E t \in issued : tok[t].sid = s THEN "removed" ELSE "unborn"

life == [s \in Sids |-> Life(s)]
current == [s \in Sids |-> sess[s].hash]
minted == {t \in issued : tok[t].sid # None}
spent == {t \in minted : \E u \in issued : tok[u].parent = t}

Chain == INSTANCE TokenChain WITH Tokens <- Tokens \ LegacyTokens

\* Every behaviour of the services is one of the abstract store: whatever
\* races, a token is swapped only while current, a session that ended stays
\* ended, and a bulk revocation is one step (session.repository.js:40-111).
ChainSpec == Chain!Spec
=============================================================================
