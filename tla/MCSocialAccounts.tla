--------------------------- MODULE MCSocialAccounts ---------------------------
(***************************************************************************)
(* An instance of SocialAccounts for TLC: two accounts at one provider and *)
(* one at another, whose address is also that of the first.                *)
(***************************************************************************)
EXTENDS SocialAccounts

CONSTANTS k1, k2, g1, kakao, google, e1, e2

MCProviderOf == [s \in Social |-> IF s = g1 THEN google ELSE kakao]
MCMailOf     == [s \in Social |-> IF s = k2 THEN e2 ELSE e1]
=============================================================================
