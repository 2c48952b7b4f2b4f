------------------------------- MODULE Security -------------------------------
(***************************************************************************)
(* What framework/security and the security middleware decide from         *)
(* settings, claims and directories: pure functions.  "" is an absent      *)
(* string.  A claim is a string or an array with the strings it holds: a   *)
(* record [array, strings]; any other JSON value is an array of none.  A   *)
(* key is the name of what it verifies, a role is its name and whether it  *)
(* has the configured prefix.                                              *)
(***************************************************************************)
EXTENDS Integers, Sequences, SequencesExt, FiniteSets

ToUpper(alg) == IF alg = "rs256" THEN "RS256" ELSE alg

-----------------------------------------------------------------------------
(* Settings: [enabled, issuer, jwks, algorithm, secret, publicKey,         *)
(* principalClaim, authoritiesClaim, resourceID, prefix, audiences].       *)

isOAuth2Configured(p) == ~p.enabled \/ "" # p.issuer \/ "" # p.jwks \/ "" # p.secret \/ "" # p.publicKey
isLegacyJwtConfigured(p) == "" # p.secret \/ "" # p.jwks \/ "" # p.publicKey
OrElse(value, default) == IF value = "" THEN default ELSE value

\* An issuer without a JWKS address has the one of Keycloak below it.
buildOAuth2Config(p) == [p EXCEPT
  !.jwks = OrElse(p.jwks, p.issuer), !.algorithm = ToUpper(OrElse(@, "RS256")),
  !.principalClaim = OrElse(@, "preferred_username"), !.prefix = OrElse(@, "ROLE_")]

buildLegacyJwtConfig(p) == [p EXCEPT
  !.enabled = TRUE, !.issuer = "", !.audiences = {}, !.algorithm = OrElse(@, "HS256"),
  !.principalClaim = "sub", !.authoritiesClaim = "", !.resourceID = "", !.prefix = "ROLE_"]

Unset == [enabled |-> TRUE, issuer |-> "", jwks |-> "", algorithm |-> "", secret |-> "",
          publicKey |-> "", principalClaim |-> "", authoritiesClaim |-> "", resourceID |-> "",
          prefix |-> "", audiences |-> {}]

resolveSecurityConfig(oauth2, legacy) ==
  CASE isOAuth2Configured(oauth2) -> buildOAuth2Config(oauth2)
    [] ~isOAuth2Configured(oauth2) /\ isLegacyJwtConfigured(legacy) -> buildLegacyJwtConfig(legacy)
    [] OTHER -> buildLegacyJwtConfig(Unset)

\* The checks at the start of a production profile, of either kind of settings.
isDevSecret(secret) == secret \in {"", "default-secret"}
TooShort(secret) == secret = "short"
Validate(p, default) ==
  LET alg == ToUpper(OrElse(p.algorithm, default))
  IN \/ alg = "RS256" /\ ("" # p.jwks \/ "" # p.publicKey \/ (default = "RS256" /\ "" # p.issuer))
     \/ alg = "HS256" /\ ~isDevSecret(p.secret) /\ ~TooShort(p.secret)

-----------------------------------------------------------------------------
(* Tokens: [alg, kid, key, exp, claims].                                   *)

NeedsJwks(token, cfg) ==
  token.alg = cfg.algorithm /\ token.alg = "RS256" /\ cfg.jwks # "" /\ token.kid # ""

\* published is what GetPublicKey answered, "" for an error.
resolveKey(token, cfg, published) ==
  CASE token.alg # cfg.algorithm -> ""
    [] token.alg = cfg.algorithm /\ token.alg = "RS256" ->
         IF cfg.jwks = "" THEN cfg.publicKey ELSE IF token.kid = "" THEN "" ELSE published
    [] OTHER -> cfg.secret

ValidateToken(token, cfg, published) ==
  LET key == resolveKey(token, cfg, published)
  IN key # "" /\ token.key = key /\ token.exp = "future"

Claim(claims, name) ==
  IF name \in DOMAIN claims THEN SelectSeq(claims[name].strings, LAMBDA s : s # "") ELSE <<>>

\* An array is not a name, though it holds one.
extractNamedClaim(claims, name) ==
  IF name \in DOMAIN claims /\ ~claims[name].array THEN claims[name].strings[1] ELSE ""

issuerValid(claims, cfg) == cfg.issuer = "" \/ extractNamedClaim(claims, "iss") = cfg.issuer
audienceValid(claims, cfg) ==
  cfg.audiences = {} \/ ToSet(Claim(claims, "aud")) \cap cfg.audiences # {}

\* The validators registered by the program come last; others stands for them.
validateClaims(claims, cfg, others) == issuerValid(claims, cfg) /\ audienceValid(claims, cfg) /\ others

ExtractPrincipal(claims, name) == OrElse(extractNamedClaim(claims, name), extractNamedClaim(claims, "sub"))

formatRoleItem(role, prefix) == IF prefix = "" THEN role ELSE [role EXCEPT !.prefixed = TRUE]

\* Duplicates go, the first of each stays.
formatRolesWithPrefix(roles, prefix) ==
  FoldLeft(LAMBDA done, role :
             IF formatRoleItem(role, prefix) \in ToSet(done) THEN done
             ELSE Append(done, formatRoleItem(role, prefix)), <<>>, roles)

\* resource_access is given by its clients: ["resource_access", client].
getTargetClient(claims, resourceID) == OrElse(resourceID, extractNamedClaim(claims, "azp"))
Roles(claims, name) == IF name \in DOMAIN claims THEN claims[name] ELSE <<>>

ExtractRoles(claims, authoritiesClaim, resourceID, prefix) ==
  LET client == getTargetClient(claims, resourceID)
      direct == Roles(claims, authoritiesClaim)
      access == IF client = "" THEN <<>> ELSE Roles(claims, client)
      raw == CASE direct # <<>> -> direct
               [] direct = <<>> /\ access # <<>> -> access
               [] OTHER -> Roles(claims, "roles")
  IN formatRolesWithPrefix(raw, prefix)

\* checkAuthorization: exact names.
hasRequiredRole(required, roles) == required = {} \/ required \cap ToSet(roles) # {}

-----------------------------------------------------------------------------
(* LDAP: settings [enabled, scheme, startTLS, requireTLS, manager], a      *)
(* directory [users, groups], and how its servers behave this time.        *)

dialLDAP(p, prod, works) ==
  CASE ~works.dial -> "refused"
    [] works.dial /\ p.scheme = "ldaps" -> "tls"
    [] works.dial /\ p.scheme = "ldap" /\ p.startTLS /\ works.tls -> "tls"
    [] works.dial /\ p.scheme = "ldap" /\ ~(p.startTLS /\ works.tls) ->
         IF p.requireTLS \/ prod THEN "refused" ELSE "plain"
    [] OTHER -> "refused"

\* The entries a name finds: one, or the search fails.
searchUser(p, directory, user, works) ==
  LET found == {e \in directory : e.uid = user}
  IN IF (p.manager => works.bind) /\ works.search /\ Cardinality(found) = 1 THEN found ELSE {}

\* A failed search of groups is not an error, and gives none.
searchGroups(entry, works) ==
  IF works.groups THEN formatRolesWithPrefix(entry.groups, "ROLE_") ELSE <<>>

\* The roles of an authenticated user, or refused.
Refused == [ok |-> FALSE, roles |-> <<>>]
Authenticate(p, prod, directory, user, password, works) ==
  IF /\ p.enabled /\ user # "" /\ password # "" /\ p.scheme \in {"ldap", "ldaps"}
     /\ dialLDAP(p, prod, works) # "refused"
     /\ \E e \in searchUser(p, directory, user, works) : e.password = password
  THEN [ok |-> TRUE,
        roles |-> searchGroups(CHOOSE e \in searchUser(p, directory, user, works) : TRUE, works)]
  ELSE Refused

-----------------------------------------------------------------------------
(* What the functions should mean, over small inputs.                      *)

Names == {"", "a", "b"}
RoleLists == BoundedSeq([name : {"x", "y"}, prefixed : BOOLEAN], 2)

\* The roles granted are those of the first source that has any, each once and,
\* with a prefix, each with it.
ASSUME RolesAssumption ==
  \A direct, access, plain \in RoleLists, prefix \in {"", "ROLE_"} :
    LET claims == [d |-> direct, c |-> access, roles |-> plain]
        given == ExtractRoles(claims, "d", "c", prefix)
        source == CHOOSE s \in {direct, access, plain} :
          \/ s = direct /\ direct # <<>>
          \/ s = access /\ direct = <<>> /\ access # <<>>
          \/ s = plain /\ direct = <<>> /\ access = <<>>
    IN /\ Cardinality(ToSet(given)) = Len(given)
       /\ {r.name : r \in ToSet(given)} = {r.name : r \in ToSet(source)}
       /\ prefix # "" => \A r \in ToSet(given) : r.prefixed

\* Settings that pass the checks of production can verify a token.  Of the legacy
\* settings this holds for upper case only: Validate normalises the name of the
\* algorithm, buildLegacyJwtConfig does not.
ASSUME UsableAssumption ==
  \A issuer, jwks, publicKey \in {"", "a"}, secret \in {"", "default-secret", "short", "long"},
     algorithm \in {"", "RS256", "HS256", "rs256"}, legacy \in BOOLEAN :
    LET p == [Unset EXCEPT !.issuer = issuer, !.jwks = jwks, !.publicKey = publicKey,
                           !.secret = secret, !.algorithm = algorithm]
        cfg == IF legacy THEN resolveSecurityConfig(Unset, p) ELSE resolveSecurityConfig(p, Unset)
    IN Validate(p, IF legacy THEN "HS256" ELSE "RS256") /\ (legacy => algorithm # "rs256") =>
         \E alg \in {"RS256", "HS256"}, key \in {"a", "long"} :
           ValidateToken([alg |-> alg, kid |-> "k", key |-> key, exp |-> "future"], cfg, "a")

\* In production no password leaves in plain text, and a wrong one is refused
\* whichever step of the conversation fails.
ASSUME LdapAssumption ==
  \A p \in [enabled : BOOLEAN, scheme : {"ldap", "ldaps", "http"}, startTLS : BOOLEAN,
            requireTLS : BOOLEAN, manager : BOOLEAN],
     works \in [dial : BOOLEAN, tls : BOOLEAN, bind : BOOLEAN, search : BOOLEAN, groups : BOOLEAN],
     prod \in BOOLEAN, user \in Names, password \in Names :
    LET directory == {[uid |-> "a", dn |-> 1, password |-> "b", groups |-> <<>>],
                      [uid |-> "b", dn |-> 2, password |-> "a", groups |-> <<>>],
                      [uid |-> "b", dn |-> 3, password |-> "b", groups |-> <<>>]}
        result == Authenticate(p, prod, directory, user, password, works)
    IN /\ prod \/ p.requireTLS => dialLDAP(p, prod, works) # "plain"
       /\ result.ok => p.enabled /\ user = "a" /\ password = "b" /\ works.search
=============================================================================
