-------------------------------- MODULE Paths --------------------------------
(***************************************************************************)
(* The path patterns of interceptors (interceptor.go: MatchPath) and of    *)
(* public paths (security_middleware.go: isPublicPath).  A path is the     *)
(* sequence of its segments; {name} and :name are written "{}".            *)
(***************************************************************************)
EXTENDS Integers, Sequences, SequencesExt

matchSingleSegment(p, s) == p \in {"*", "{}"} \/ p = s

From(s, i) == SubSeq(s, i, Len(s))

matchParts[p \in Seq(STRING), s \in Seq(STRING)] ==
  CASE p = <<>> -> s = <<>>
    [] p # <<>> /\ p[1] = "**" ->
         Len(p) = 1 \/ \E i \in 1..(Len(s) + 1) : matchParts[Tail(p), From(s, i)]
    [] OTHER ->
         s # <<>> /\ matchSingleSegment(p[1], s[1]) /\ matchParts[Tail(p), Tail(s)]

MatchPath(p, s) ==
  IF p = <<>> \/ s = <<>> THEN p = s \/ p = <<"**">> ELSE matchParts[p, s]

\* What MatchPath should mean: the path can be cut into one piece per part of the
\* pattern, of any length for **, of one segment otherwise.
Matches(p, s) ==
  \E cut \in [0..Len(p) -> 0..Len(s)] :
    /\ cut[0] = 0 /\ cut[Len(p)] = Len(s)
    /\ \A i \in 1..Len(p) :
         IF p[i] = "**" THEN cut[i] >= cut[i - 1]
         ELSE cut[i] = cut[i - 1] + 1 /\ matchSingleSegment(p[i], s[cut[i]])

\* The two agree, but that a root path is matched by no pattern longer than **.
ASSUME PathsAssumption ==
  \A p \in BoundedSeq({"**", "*", "a", "b"}, 3), s \in BoundedSeq({"a", "b"}, 4) :
    MatchPath(p, s) = (Matches(p, s) /\ (s = <<>> => Len(p) <= 1))

\* An interceptor's registration: exclusions first, no inclusion means all.
match(ir, path) ==
  /\ ~\E p \in ir.excludes : MatchPath(p, path)
  /\ ir.includes = {} \/ \E p \in ir.includes : MatchPath(p, path)

\* Public paths: /x/** and /x also stand for what is below, /x/* for what is
\* below only, and /* for at most one segment.
matchWildcardPath(cur, p) ==
  LET base == Front(p)
  IN CASE p = <<>> -> cur = <<>>
       [] p # <<>> /\ Last(p) = "**" -> IsPrefix(base, cur)
       [] p # <<>> /\ Last(p) = "*" ->
            IF base = <<>> THEN Len(cur) <= 1 ELSE IsStrictPrefix(base, cur)
       [] OTHER -> IsPrefix(p, cur)

isPublicPath(path, publicPaths) == \E p \in publicPaths : matchWildcardPath(path, p)
isActuatorPath(path) == path # <<>> /\ path[1] = "actuator"
=============================================================================
