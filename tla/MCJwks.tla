-------------------------------- MODULE MCJwks --------------------------------
(* Instances of Jwks for TLC.                                                  *)
EXTENDS Jwks

CONSTANTS t1, t2

Role(n) == [name |-> n, prefixed |-> FALSE]
Str(s) == [array |-> FALSE, strings |-> <<s>>]
Arr(strings) == [array |-> TRUE, strings |-> strings]
Token(alg, kid, aud) ==
  [alg |-> alg, kid |-> kid, key |-> kid, exp |-> "future",
   claims |-> [sub |-> Str("u"), preferred_username |-> Arr(<<"u">>), iss |-> Str("sso"), aud |-> aud],
   grants |-> [roles |-> <<Role("x"), Role("x")>>]]
MCTokens == {Token("RS256", "k1", Arr(<<"other", "api">>)), Token("RS256", "k2", Str("api"))}
MCSymmetry == Permutations(Threads)
MCConfig == resolveSecurityConfig(
  [Unset EXCEPT !.issuer = "sso", !.resourceID = "api", !.audiences = {"api"}], Unset)
=============================================================================
