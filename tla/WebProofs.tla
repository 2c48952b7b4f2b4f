------------------------------ MODULE WebProofs ------------------------------
(***************************************************************************)
(* Theorems about Request and Jwks.  For every number of requests and of   *)
(* pooled states, any routes, interceptors and settings: a request that is *)
(* over holds nothing and was answered as it should, and a controller      *)
(* reads the identity of its own request.  For every number of threads,    *)
(* keys and tokens, and any durations: the server of the keys is asked by  *)
(* one request at a time and once per interval, and a key it withdrew is   *)
(* forgotten in time.                                                      *)
(***************************************************************************)
EXTENDS Request, Jwks, SequenceTheorems, TLAPS

-----------------------------------------------------------------------------
(* Request: the invariant.  Its parts are about a record x of req under a  *)
(* configuration c, so that a step can be reasoned about without the state.*)

\* Where a request can be: not yet at the interceptors, before the dispatcher, in
\* it, past the pool of states, past Recoverer, and on its way back.
Outside == {"new", "cors", "csrf", "scope", "acquire"}
Entering == Outside \cup {"pre", "auth"}
Working == {"authorize", "begin", "resolve", "call", "respond", "commit", "rollback"}
Gone == {"destroy", "capture", "end"}
Recovered == Gone \cup {"release"}
Returning == {"post", "complete", "recover"} \cup Recovered

Answers == {"error", "success", "denied", "blank", "preflight", "cut"}
RequestType(c) ==
  [at : Entering \cup Working \cup Returning,
   route : c.routes \cup {Nil},
   user : Requests \cup {Nil},
   answers : Seq(Answers),
   pre : Nat,
   after : [DOMAIN c.interceptors -> Nat],
   panicking : {"no", "panic", "abort"},
   faulty : BOOLEAN,
   tx : {"none", "open", "committed", "rolled back"},
   files : BOOLEAN, scoped : BOOLEAN,
   state : States \cup {Nil},
   listener : {"none", "running", "done"},
   seen : SUBSET (Requests \cup {Nil}), heard : SUBSET (Requests \cup {Nil})]

\* i let x pass.
Passed(c, x, i) == \E k \in 1..x.pre : matching(c.interceptors, x.route.path)[k] = i

\* AfterCompletion runs on one way only between the dispatcher and Recoverer.
Passing(c, x) ==
  /\ x.at \in Outside => x.pre = 0
  /\ ~x.faulty /\ x.at \in Entering \cup Working \cup {"post", "complete"} =>
       \A i \in DOMAIN c.interceptors : x.after[i] = 0
  /\ ~x.faulty /\ x.at \in Recovered \cup {"recover"} =>
       \A i \in DOMAIN c.interceptors : x.after[i] = IF Passed(c, x, i) THEN 1 ELSE 0

\* What is acquired and given back.
Holding(x) ==
  /\ x.at \in (Outside \ {"acquire"}) \cup {"capture", "end"} => ~x.scoped
  /\ x.at \in Entering \cup {"authorize", "begin"} => x.tx = "none" /\ ~x.files
  /\ x.at \in {"resolve", "call", "respond"} => x.tx = IF x.route.tx THEN "open" ELSE "none"
  /\ x.at \in {"commit", "rollback"} => x.tx = "open"
  /\ x.at = "begin" => x.route.tx
  /\ x.tx = "open" =>
       x.at \in {"resolve", "call", "respond", "commit", "rollback"} /\ x.route.tx
  /\ x.files => x.route.tx \/ x.at \in {"call", "respond"}

\* The answers of a request that is not in the dispatcher any more.
Well(x) ==
  /\ x.tx \in {"none", "committed"} => Len(x.answers) <= 1
  /\ x.tx = "rolled back" /\ x.answers # <<>> =>
       \/ Last(x.answers) = "error" /\ Len(x.answers) <= 2
       \/ x.answers = <<"cut">>

Answering(x) ==
  /\ x.at \in Entering \cup {"authorize", "begin", "resolve", "call", "respond"} =>
       x.answers = <<>>
  /\ x.at \in Entering \cup Working \cup {"post"} => x.panicking = "no"
  /\ x.at = "commit" => x.answers # <<>> /\ Len(x.answers) <= 1
  /\ x.at = "rollback" => Len(x.answers) <= 1
  /\ x.at \in Returning => Well(x)
  /\ x.at \in {"post", "complete", "recover"} => x.answers # <<>> \/ x.panicking # "no"
  /\ x.at \in Recovered => x.answers # <<>> \/ x.panicking = "abort"

\* What a request knows of an identity is its own.
Knowing(c, x) ==
  /\ x.at \in Entering =>
       x.user = Nil /\ x.seen = {} /\ x.heard = {} /\ x.listener = "none"
  /\ x.seen \subseteq {x.user}
  /\ ~c.optimized => x.state = Nil /\ x.heard \subseteq {x.user} /\ x.at # "acquire"
  /\ x.at \in Outside => x.state = Nil
  /\ x.at = "release" => x.state # Nil /\ x.panicking # "abort"

Sound(c, x) ==
  x \in RequestType(c) /\ Passing(c, x) /\ Holding(x) /\ Answering(x) /\ Knowing(c, x)

\* x has a state of the pool; x has given its state back.
Held(x) ==
  x.state # Nil /\ x.at \in {"pre", "auth", "post", "complete", "recover", "release"} \cup Working
Released(x) == x.state # Nil /\ x.panicking # "abort" /\ x.at \in Gone

\* States are with one request at a time, and carry its identity or none.
Pooled ==
  /\ \A r \in Requests : Held(req[r]) =>
       /\ req[r].state \notin free /\ holder[req[r].state] = req[r].user
       /\ \A q \in Requests \ {r} : req[q].state = req[r].state => ~Held(req[q])
  /\ \A s \in free : holder[s] = Nil
  /\ \A s \in States : (\A r \in Requests : req[r].state # s) => holder[s] = Nil
  /\ \A r \in Requests : Released(req[r]) =>
       req[r].state \in free \/ \E q \in Requests \ {r} : req[q].state = req[r].state

PoolTypes ==
  /\ DOMAIN req = Requests
  /\ holder \in [States -> Requests \cup {Nil}]
  /\ free \in SUBSET States

RequestInv == PoolTypes /\ Pooled /\ \A r \in Requests : Sound(conf, req[r])

-----------------------------------------------------------------------------
(* Request: answers.                                                       *)

LEMMA AnswerAdded ==
  ASSUME NEW s \in Seq(Answers), NEW a \in Answers
  PROVE  /\ Append(s, a) \in Seq(Answers) /\ s \o <<a>> = Append(s, a)
         /\ Len(s) \in Nat /\ Len(Append(s, a)) = Len(s) + 1
         /\ Append(s, a) # <<>> /\ Last(Append(s, a)) = a
         /\ s = <<>> <=> Len(s) = 0
<1>1. Append(s, a) \in Seq(Answers) /\ Len(s) \in Nat /\ Len(Append(s, a)) = Len(s) + 1
  OBVIOUS
<1>2. Append(s, a)[Len(s) + 1] = a
  BY <1>1
<1>3. s \o <<a>> = Append(s, a)
  OBVIOUS
<1> QED
  BY <1>1, <1>2, <1>3, EmptySeq DEF Last

LEMMA NoAnswer == Len(<<>>) <= 1
<1>1. Len(<<>>) = 0
  OBVIOUS
<1> DEFINE n == Len(<<>>)
<1>2. n = 0
  BY <1>1
<1> HIDE DEF n
<1>3. n <= 1
  BY <1>2
<1> QED
  BY <1>3 DEF n

-----------------------------------------------------------------------------
(* Request: what becomes of the record of a request that is sound.         *)

Ran(c, x) == [i \in DOMAIN c.interceptors |-> x.after[i] + IF Passed(c, x, i) THEN 1 ELSE 0]

\* Nothing that concerns the pool of states.
Kept(x, y) ==
  /\ y.state = x.state /\ y.user = x.user
  /\ Held(y) => Held(x)
  /\ Released(y) => Released(x)

LEMMA Nowhere == Nil \notin Requests \cup States
BY RequestAssumption

\* The first answer to a request.
LEMMA FirstAnswer ==
  ASSUME NEW c, NEW x, Sound(c, x), NEW a \in Answers,
         x.at \in Entering \cup {"authorize", "begin", "resolve", "call", "respond"}
  PROVE  LET z == Append(x.answers, a)
         IN  z \in Seq(Answers) /\ z # <<>> /\ Len(z) <= 1 /\ x.answers \o <<a>> = z
<1>1. x.answers \in Seq(Answers) /\ x.answers = <<>>
  BY DEF Sound, RequestType, Answering
<1> DEFINE z == Append(x.answers, a)
<1>2. /\ z \in Seq(Answers) /\ z # <<>> /\ x.answers \o <<a>> = z
      /\ Len(z) = Len(x.answers) + 1 /\ Len(x.answers) = 0
  BY <1>1, AnswerAdded
<1> HIDE DEF z
<1>3. Len(z) = 1
  BY <1>2
<1> DEFINE n == Len(z)
<1>4. n = 1
  BY <1>3
<1> HIDE DEF n
<1>5. n <= 1
  BY <1>4
<1> QED
  BY <1>2, <1>5 DEF n, z

\* The answer of a transaction that failed comes first or second.
LEMMA SecondAnswer ==
  ASSUME NEW c, NEW x, Sound(c, x), NEW a \in Answers, x.at \in {"commit", "rollback"}
  PROVE  LET z == Append(x.answers, a)
         IN  z \in Seq(Answers) /\ z # <<>> /\ Last(z) = a /\ Len(z) <= 2
<1>1. x.answers \in Seq(Answers) /\ Len(x.answers) <= 1
  BY DEF Sound, RequestType, Answering
<1> DEFINE z == Append(x.answers, a)
<1>2. /\ z \in Seq(Answers) /\ z # <<>> /\ Last(z) = a
      /\ Len(z) = Len(x.answers) + 1 /\ Len(x.answers) \in Nat
  BY <1>1, AnswerAdded
<1> HIDE DEF z
<1> DEFINE n == Len(x.answers)
           m == Len(z)
<1>3. n \in Nat /\ n <= 1 /\ m = n + 1
  BY <1>1, <1>2
<1> HIDE DEF n, m
<1>4. m <= 2
  BY <1>3
<1> QED
  BY <1>2, <1>4 DEF m, z

LEMMA CutAnswer ==
  LET z == <<"cut">> IN z \in Seq(Answers) /\ z # <<>> /\ Len(z) <= 1
<1>1. <<"cut">> \in Seq(Answers) /\ <<"cut">> # <<>>
  BY DEF Answers
<1> DEFINE n == Len(<<"cut">>)
<1>2. n = 1
  OBVIOUS
<1> HIDE DEF n
<1>3. n <= 1
  BY <1>2
<1> QED
  BY <1>1, <1>3 DEF n

LEMMA OneAnswer ==
  LET z == <<"error">> IN z \in Seq(Answers) /\ z # <<>> /\ Len(z) <= 1 /\ Last(z) = "error"
<1>1. <<"error">> \in Seq(Answers) /\ <<"error">> # <<>>
  BY DEF Answers
<1> DEFINE n == Len(<<"error">>)
<1>2. n = 1 /\ Last(<<"error">>) = "error"
  BY DEF Last
<1> HIDE DEF n
<1>3. n <= 1
  BY <1>2
<1> QED
  BY <1>1, <1>2, <1>3 DEF n

\* A route is found.
LEMMA Arrived ==
  ASSUME NEW c, NEW x, Sound(c, x), NEW route \in c.routes,
         x.at = "new"
  PROVE  LET y == [x EXCEPT !.route = route, !.at = "cors"]
         IN  Sound(c, y) /\ Kept(x, y)
<1> USE DEF Outside, Entering, Working, Gone, Recovered, Returning
<1> DEFINE y == [x EXCEPT !.route = route, !.at = "cors"]
<1>1. x \in RequestType(c) /\ Passing(c, x) /\ Holding(x) /\ Answering(x) /\ Knowing(c, x)
  BY DEF Sound
<1>2. y \in RequestType(c)
  BY <1>1 DEF RequestType
<1>3. /\ y.at = "cors" /\ y.route = route /\ y.user = x.user
      /\ y.answers = x.answers /\ y.pre = x.pre /\ y.after = x.after
      /\ y.panicking = x.panicking /\ y.faulty = x.faulty /\ y.tx = x.tx
      /\ y.files = x.files /\ y.scoped = x.scoped /\ y.state = x.state
      /\ y.listener = x.listener /\ y.seen = x.seen /\ y.heard = x.heard
  BY <1>1 DEF RequestType
<1> HIDE DEF y
<1>4. Passing(c, y)
  BY <1>1, <1>3 DEF Passing, Passed
<1>5. Holding(y)
  BY <1>1, <1>3 DEF Holding
<1>6. Answering(y)
  BY <1>1, <1>3 DEF Answering, Well
<1>7. Knowing(c, y)
  BY <1>1, <1>3, Nowhere DEF Knowing
<1>8. Kept(x, y)
  BY <1>1, <1>3 DEF Kept, Held, Released, Knowing
<1> QED
  BY <1>2, <1>4, <1>5, <1>6, <1>7, <1>8 DEF Sound, y

\* The request goes on, and nothing else.
LEMMA Moved ==
  ASSUME NEW c, NEW x, Sound(c, x), NEW at,
         \/ x.at = "cors" /\ at = "csrf"
         \/ x.at = "csrf" /\ at = "scope"
         \/ x.at = "pre" /\ at = "auth"
         \/ x.at = "auth" /\ at = "authorize"
         \/ x.at = "authorize" /\ at = "begin" /\ x.route.tx
         \/ x.at = "authorize" /\ at = "resolve" /\ ~x.route.tx
         \/ x.at = "capture" /\ at = "end"
  PROVE  LET y == [x EXCEPT !.at = at]
         IN  Sound(c, y) /\ Kept(x, y)
<1> USE DEF Outside, Entering, Working, Gone, Recovered, Returning
<1> DEFINE y == [x EXCEPT !.at = at]
<1>1. x \in RequestType(c) /\ Passing(c, x) /\ Holding(x) /\ Answering(x) /\ Knowing(c, x)
  BY DEF Sound
<1>2. y \in RequestType(c)
  BY <1>1 DEF RequestType
<1>3. /\ y.at = at /\ y.route = x.route /\ y.user = x.user
      /\ y.answers = x.answers /\ y.pre = x.pre /\ y.after = x.after
      /\ y.panicking = x.panicking /\ y.faulty = x.faulty /\ y.tx = x.tx
      /\ y.files = x.files /\ y.scoped = x.scoped /\ y.state = x.state
      /\ y.listener = x.listener /\ y.seen = x.seen /\ y.heard = x.heard
  BY <1>1 DEF RequestType
<1> HIDE DEF y
<1>4. Passing(c, y)
  BY <1>1, <1>3 DEF Passing, Passed
<1>5. Holding(y)
  BY <1>1, <1>3 DEF Holding
<1>6. Answering(y)
  BY <1>1, <1>3 DEF Answering, Well
<1>7. Knowing(c, y)
  BY <1>1, <1>3, Nowhere DEF Knowing
<1>8. Kept(x, y)
  BY <1>1, <1>3 DEF Kept, Held, Released, Knowing
<1> QED
  BY <1>2, <1>4, <1>5, <1>6, <1>7, <1>8 DEF Sound, y

\* Its state goes back to the pool.
LEMMA GaveBack ==
  ASSUME NEW c, NEW x, Sound(c, x),
         x.at = "release"
  PROVE  Sound(c, [x EXCEPT !.at = "destroy"])
<1> USE DEF Outside, Entering, Working, Gone, Recovered, Returning
<1> DEFINE y == [x EXCEPT !.at = "destroy"]
<1>1. x \in RequestType(c) /\ Passing(c, x) /\ Holding(x) /\ Answering(x) /\ Knowing(c, x)
  BY DEF Sound
<1>2. y \in RequestType(c)
  BY <1>1 DEF RequestType
<1>3. /\ y.at = "destroy" /\ y.route = x.route /\ y.user = x.user
      /\ y.answers = x.answers /\ y.pre = x.pre /\ y.after = x.after
      /\ y.panicking = x.panicking /\ y.faulty = x.faulty /\ y.tx = x.tx
      /\ y.files = x.files /\ y.scoped = x.scoped /\ y.state = x.state
      /\ y.listener = x.listener /\ y.seen = x.seen /\ y.heard = x.heard
  BY <1>1 DEF RequestType
<1> HIDE DEF y
<1>4. Passing(c, y)
  BY <1>1, <1>3 DEF Passing, Passed
<1>5. Holding(y)
  BY <1>1, <1>3 DEF Holding
<1>6. Answering(y)
  BY <1>1, <1>3 DEF Answering, Well
<1>7. Knowing(c, y)
  BY <1>1, <1>3, Nowhere DEF Knowing
<1> QED
  BY <1>2, <1>4, <1>5, <1>6, <1>7 DEF Sound, y

\* CORS or CSRF answers.
LEMMA TurnedAway ==
  ASSUME NEW c, NEW x, Sound(c, x), NEW z \in Seq(Answers),
         x.at \in {"cors", "csrf"},
         z # <<>> /\ Len(z) <= 1
  PROVE  LET y == [x EXCEPT !.answers = z, !.at = "end"]
         IN  Sound(c, y) /\ Kept(x, y)
<1> USE DEF Outside, Entering, Working, Gone, Recovered, Returning
<1> DEFINE y == [x EXCEPT !.answers = z, !.at = "end"]
<1>1. x \in RequestType(c) /\ Passing(c, x) /\ Holding(x) /\ Answering(x) /\ Knowing(c, x)
  BY DEF Sound
<1>2. y \in RequestType(c)
  BY <1>1 DEF RequestType
<1>3. /\ y.at = "end" /\ y.route = x.route /\ y.user = x.user
      /\ y.answers = z /\ y.pre = x.pre /\ y.after = x.after
      /\ y.panicking = x.panicking /\ y.faulty = x.faulty /\ y.tx = x.tx
      /\ y.files = x.files /\ y.scoped = x.scoped /\ y.state = x.state
      /\ y.listener = x.listener /\ y.seen = x.seen /\ y.heard = x.heard
  BY <1>1 DEF RequestType
<1> HIDE DEF y
<1>4. x.tx = "none"
  BY <1>1 DEF Holding, Answering
<1>5. Passing(c, y)
  BY <1>1, <1>3 DEF Passing, Passed
<1>6. Holding(y)
  BY <1>1, <1>3 DEF Holding
<1>7. Well(y)
  BY <1>3, <1>4 DEF Well
<1>8. Answering(y)
  BY <1>1, <1>3, <1>4, <1>7 DEF Answering
<1>9. Knowing(c, y)
  BY <1>1, <1>3, Nowhere DEF Knowing
<1>10. Kept(x, y)
  BY <1>1, <1>3 DEF Kept, Held, Released, Knowing
<1> QED
  BY <1>2, <1>5, <1>6, <1>8, <1>9, <1>10 DEF Sound, y

\* The request gets a registry.
LEMMA Scoped ==
  ASSUME NEW c, NEW x, Sound(c, x), NEW at,
         x.at = "scope",
         \/ c.optimized /\ at = "acquire"
         \/ ~c.optimized /\ at = "pre"
  PROVE  LET y == [x EXCEPT !.scoped = TRUE, !.at = at]
         IN  Sound(c, y) /\ Kept(x, y)
<1> USE DEF Outside, Entering, Working, Gone, Recovered, Returning
<1> DEFINE y == [x EXCEPT !.scoped = TRUE, !.at = at]
<1>1. x \in RequestType(c) /\ Passing(c, x) /\ Holding(x) /\ Answering(x) /\ Knowing(c, x)
  BY DEF Sound
<1>2. y \in RequestType(c)
  BY <1>1 DEF RequestType
<1>3. /\ y.at = at /\ y.route = x.route /\ y.user = x.user
      /\ y.answers = x.answers /\ y.pre = x.pre /\ y.after = x.after
      /\ y.panicking = x.panicking /\ y.faulty = x.faulty /\ y.tx = x.tx
      /\ y.files = x.files /\ y.scoped = TRUE /\ y.state = x.state
      /\ y.listener = x.listener /\ y.seen = x.seen /\ y.heard = x.heard
  BY <1>1 DEF RequestType
<1> HIDE DEF y
<1>4. Passing(c, y)
  BY <1>1, <1>3 DEF Passing, Passed
<1>5. Holding(y)
  BY <1>1, <1>3 DEF Holding
<1>6. Answering(y)
  BY <1>1, <1>3 DEF Answering, Well
<1>7. Knowing(c, y)
  BY <1>1, <1>3, Nowhere DEF Knowing
<1>8. Kept(x, y)
  BY <1>1, <1>3 DEF Kept, Held, Released, Knowing
<1> QED
  BY <1>2, <1>4, <1>5, <1>6, <1>7, <1>8 DEF Sound, y

\* The request gets a state.
LEMMA Acquired ==
  ASSUME NEW c, NEW x, Sound(c, x), NEW s \in States,
         x.at = "acquire"
  PROVE  Sound(c, [x EXCEPT !.state = s, !.at = "pre"])
<1> USE DEF Outside, Entering, Working, Gone, Recovered, Returning
<1> DEFINE y == [x EXCEPT !.state = s, !.at = "pre"]
<1>1. x \in RequestType(c) /\ Passing(c, x) /\ Holding(x) /\ Answering(x) /\ Knowing(c, x)
  BY DEF Sound
<1>2. y \in RequestType(c)
  BY <1>1 DEF RequestType
<1>3. /\ y.at = "pre" /\ y.route = x.route /\ y.user = x.user
      /\ y.answers = x.answers /\ y.pre = x.pre /\ y.after = x.after
      /\ y.panicking = x.panicking /\ y.faulty = x.faulty /\ y.tx = x.tx
      /\ y.files = x.files /\ y.scoped = x.scoped /\ y.state = s
      /\ y.listener = x.listener /\ y.seen = x.seen /\ y.heard = x.heard
  BY <1>1 DEF RequestType
<1> HIDE DEF y
<1>4. Passing(c, y)
  BY <1>1, <1>3 DEF Passing, Passed
<1>5. Holding(y)
  BY <1>1, <1>3 DEF Holding
<1>6. Answering(y)
  BY <1>1, <1>3 DEF Answering, Well
<1>7. Knowing(c, y)
  BY <1>1, <1>3, Nowhere DEF Knowing
<1> QED
  BY <1>2, <1>4, <1>5, <1>6, <1>7 DEF Sound, y

\* An interceptor lets it pass.
LEMMA LetPass ==
  ASSUME NEW c, NEW x, Sound(c, x), NEW n \in Nat,
         x.at = "pre"
  PROVE  LET y == [x EXCEPT !.pre = n]
         IN  Sound(c, y) /\ Kept(x, y)
<1> USE DEF Outside, Entering, Working, Gone, Recovered, Returning
<1> DEFINE y == [x EXCEPT !.pre = n]
<1>1. x \in RequestType(c) /\ Passing(c, x) /\ Holding(x) /\ Answering(x) /\ Knowing(c, x)
  BY DEF Sound
<1>2. y \in RequestType(c)
  BY <1>1 DEF RequestType
<1>3. /\ y.at = x.at /\ y.route = x.route /\ y.user = x.user
      /\ y.answers = x.answers /\ y.pre = n /\ y.after = x.after
      /\ y.panicking = x.panicking /\ y.faulty = x.faulty /\ y.tx = x.tx
      /\ y.files = x.files /\ y.scoped = x.scoped /\ y.state = x.state
      /\ y.listener = x.listener /\ y.seen = x.seen /\ y.heard = x.heard
  BY <1>1 DEF RequestType
<1> HIDE DEF y
<1>4. Passing(c, y)
  BY <1>1, <1>3 DEF Passing, Passed
<1>5. Holding(y)
  BY <1>1, <1>3 DEF Holding
<1>6. Answering(y)
  BY <1>1, <1>3 DEF Answering, Well
<1>7. Knowing(c, y)
  BY <1>1, <1>3, Nowhere DEF Knowing
<1>8. Kept(x, y)
  BY <1>1, <1>3 DEF Kept, Held, Released, Knowing
<1> QED
  BY <1>2, <1>4, <1>5, <1>6, <1>7, <1>8 DEF Sound, y

\* An interceptor answers instead.
LEMMA WasDenied ==
  ASSUME NEW c, NEW x, Sound(c, x), NEW z \in Seq(Answers), NEW f \in [DOMAIN c.interceptors -> Nat],
         x.at = "pre",
         z # <<>> /\ Len(z) <= 1,
         f = Ran(c, x)
  PROVE  LET y == [x EXCEPT !.at = "recover", !.answers = z, !.after = f]
         IN  Sound(c, y) /\ Kept(x, y)
<1> USE DEF Outside, Entering, Working, Gone, Recovered, Returning
<1> DEFINE y == [x EXCEPT !.at = "recover", !.answers = z, !.after = f]
<1>1. x \in RequestType(c) /\ Passing(c, x) /\ Holding(x) /\ Answering(x) /\ Knowing(c, x)
  BY DEF Sound
<1>2. y \in RequestType(c)
  BY <1>1 DEF RequestType
<1>3. /\ y.at = "recover" /\ y.route = x.route /\ y.user = x.user
      /\ y.answers = z /\ y.pre = x.pre /\ y.after = f
      /\ y.panicking = x.panicking /\ y.faulty = x.faulty /\ y.tx = x.tx
      /\ y.files = x.files /\ y.scoped = x.scoped /\ y.state = x.state
      /\ y.listener = x.listener /\ y.seen = x.seen /\ y.heard = x.heard
  BY <1>1 DEF RequestType
<1> HIDE DEF y
<1>4. x.tx = "none"
  BY <1>1 DEF Holding, Answering
<1>5. Passing(c, y)
  BY <1>1, <1>3 DEF Passing, Passed, Ran
<1>6. Holding(y)
  BY <1>1, <1>3 DEF Holding
<1>7. Well(y)
  BY <1>3, <1>4 DEF Well
<1>8. Answering(y)
  BY <1>1, <1>3, <1>4, <1>7 DEF Answering
<1>9. Knowing(c, y)
  BY <1>1, <1>3, Nowhere DEF Knowing
<1>10. Kept(x, y)
  BY <1>1, <1>3 DEF Kept, Held, Released, Knowing
<1> QED
  BY <1>2, <1>5, <1>6, <1>8, <1>9, <1>10 DEF Sound, y

\* An interceptor panics.
LEMMA PreHandlePanicked ==
  ASSUME NEW c, NEW x, Sound(c, x),
         x.at = "pre"
  PROVE  LET y == [x EXCEPT !.panicking = "panic", !.faulty = TRUE, !.at = "recover"]
         IN  Sound(c, y) /\ Kept(x, y)
<1> USE DEF Outside, Entering, Working, Gone, Recovered, Returning
<1> DEFINE y == [x EXCEPT !.panicking = "panic", !.faulty = TRUE, !.at = "recover"]
<1>1. x \in RequestType(c) /\ Passing(c, x) /\ Holding(x) /\ Answering(x) /\ Knowing(c, x)
  BY DEF Sound
<1>2. y \in RequestType(c)
  BY <1>1 DEF RequestType
<1>3. /\ y.at = "recover" /\ y.route = x.route /\ y.user = x.user
      /\ y.answers = x.answers /\ y.pre = x.pre /\ y.after = x.after
      /\ y.panicking = "panic" /\ y.faulty = TRUE /\ y.tx = x.tx
      /\ y.files = x.files /\ y.scoped = x.scoped /\ y.state = x.state
      /\ y.listener = x.listener /\ y.seen = x.seen /\ y.heard = x.heard
  BY <1>1 DEF RequestType
<1> HIDE DEF y
<1>4. x.tx = "none" /\ x.answers = <<>> /\ Len(x.answers) <= 1
  BY <1>1 DEF Holding, Answering
<1>5. Passing(c, y)
  BY <1>1, <1>3 DEF Passing, Passed
<1>6. Holding(y)
  BY <1>1, <1>3 DEF Holding
<1>7. Answering(y)
  BY <1>1, <1>3, <1>4 DEF Answering, Well
<1>8. Knowing(c, y)
  BY <1>1, <1>3, Nowhere DEF Knowing
<1>9. Kept(x, y)
  BY <1>1, <1>3 DEF Kept, Held, Released, Knowing
<1> QED
  BY <1>2, <1>5, <1>6, <1>7, <1>8, <1>9 DEF Sound, y

\* No identity is accepted.
LEMMA Unauthenticated ==
  ASSUME NEW c, NEW x, Sound(c, x), NEW z \in Seq(Answers),
         x.at = "auth",
         z # <<>> /\ Len(z) <= 1
  PROVE  LET y == [x EXCEPT !.answers = z, !.at = "post"]
         IN  Sound(c, y) /\ Kept(x, y)
<1> USE DEF Outside, Entering, Working, Gone, Recovered, Returning
<1> DEFINE y == [x EXCEPT !.answers = z, !.at = "post"]
<1>1. x \in RequestType(c) /\ Passing(c, x) /\ Holding(x) /\ Answering(x) /\ Knowing(c, x)
  BY DEF Sound
<1>2. y \in RequestType(c)
  BY <1>1 DEF RequestType
<1>3. /\ y.at = "post" /\ y.route = x.route /\ y.user = x.user
      /\ y.answers = z /\ y.pre = x.pre /\ y.after = x.after
      /\ y.panicking = x.panicking /\ y.faulty = x.faulty /\ y.tx = x.tx
      /\ y.files = x.files /\ y.scoped = x.scoped /\ y.state = x.state
      /\ y.listener = x.listener /\ y.seen = x.seen /\ y.heard = x.heard
  BY <1>1 DEF RequestType
<1> HIDE DEF y
<1>4. x.tx = "none"
  BY <1>1 DEF Holding, Answering
<1>5. Passing(c, y)
  BY <1>1, <1>3 DEF Passing, Passed
<1>6. Holding(y)
  BY <1>1, <1>3 DEF Holding
<1>7. Well(y)
  BY <1>3, <1>4 DEF Well
<1>8. Answering(y)
  BY <1>1, <1>3, <1>4, <1>7 DEF Answering
<1>9. Knowing(c, y)
  BY <1>1, <1>3, Nowhere DEF Knowing
<1>10. Kept(x, y)
  BY <1>1, <1>3 DEF Kept, Held, Released, Knowing
<1> QED
  BY <1>2, <1>5, <1>6, <1>8, <1>9, <1>10 DEF Sound, y

\* An identity is accepted.
LEMMA Authenticated ==
  ASSUME NEW c, NEW x, Sound(c, x), NEW r \in Requests,
         x.at = "auth"
  PROVE  Sound(c, [x EXCEPT !.user = r, !.at = "authorize"])
<1> USE DEF Outside, Entering, Working, Gone, Recovered, Returning
<1> DEFINE y == [x EXCEPT !.user = r, !.at = "authorize"]
<1>1. x \in RequestType(c) /\ Passing(c, x) /\ Holding(x) /\ Answering(x) /\ Knowing(c, x)
  BY DEF Sound
<1>2. y \in RequestType(c)
  BY <1>1 DEF RequestType
<1>3. /\ y.at = "authorize" /\ y.route = x.route /\ y.user = r
      /\ y.answers = x.answers /\ y.pre = x.pre /\ y.after = x.after
      /\ y.panicking = x.panicking /\ y.faulty = x.faulty /\ y.tx = x.tx
      /\ y.files = x.files /\ y.scoped = x.scoped /\ y.state = x.state
      /\ y.listener = x.listener /\ y.seen = x.seen /\ y.heard = x.heard
  BY <1>1 DEF RequestType
<1> HIDE DEF y
<1>4. Passing(c, y)
  BY <1>1, <1>3 DEF Passing, Passed
<1>5. Holding(y)
  BY <1>1, <1>3 DEF Holding
<1>6. Answering(y)
  BY <1>1, <1>3 DEF Answering, Well
<1>7. Knowing(c, y)
  BY <1>1, <1>3, Nowhere DEF Knowing
<1> QED
  BY <1>2, <1>4, <1>5, <1>6, <1>7 DEF Sound, y

\* The dispatcher answers and returns.
LEMMA Left ==
  ASSUME NEW c, NEW x, Sound(c, x), NEW z \in Seq(Answers), NEW b \in BOOLEAN,
         x.at \in {"authorize", "begin"} \/ (x.at = "respond" /\ ~x.route.tx),
         b => x.route.tx,
         z # <<>> /\ Len(z) <= 1
  PROVE  LET y == [x EXCEPT !.answers = z, !.files = b, !.at = "post"]
         IN  Sound(c, y) /\ Kept(x, y)
<1> USE DEF Outside, Entering, Working, Gone, Recovered, Returning
<1> DEFINE y == [x EXCEPT !.answers = z, !.files = b, !.at = "post"]
<1>1. x \in RequestType(c) /\ Passing(c, x) /\ Holding(x) /\ Answering(x) /\ Knowing(c, x)
  BY DEF Sound
<1>2. y \in RequestType(c)
  BY <1>1 DEF RequestType
<1>3. /\ y.at = "post" /\ y.route = x.route /\ y.user = x.user
      /\ y.answers = z /\ y.pre = x.pre /\ y.after = x.after
      /\ y.panicking = x.panicking /\ y.faulty = x.faulty /\ y.tx = x.tx
      /\ y.files = b /\ y.scoped = x.scoped /\ y.state = x.state
      /\ y.listener = x.listener /\ y.seen = x.seen /\ y.heard = x.heard
  BY <1>1 DEF RequestType
<1> HIDE DEF y
<1>4. x.tx = "none" /\ x.panicking = "no"
  BY <1>1 DEF Holding, Answering
<1>5. Passing(c, y)
  BY <1>1, <1>3 DEF Passing, Passed
<1>6. Holding(y)
  BY <1>1, <1>3 DEF Holding
<1>7. Well(y)
  BY <1>3, <1>4 DEF Well
<1>8. Answering(y)
  BY <1>1, <1>3, <1>4, <1>7 DEF Answering
<1>9. Knowing(c, y)
  BY <1>1, <1>3, Nowhere DEF Knowing
<1>10. Kept(x, y)
  BY <1>1, <1>3 DEF Kept, Held, Released, Knowing
<1> QED
  BY <1>2, <1>5, <1>6, <1>8, <1>9, <1>10 DEF Sound, y

\* A transaction is open.
LEMMA Begun ==
  ASSUME NEW c, NEW x, Sound(c, x),
         x.at = "begin"
  PROVE  LET y == [x EXCEPT !.tx = "open", !.at = "resolve"]
         IN  Sound(c, y) /\ Kept(x, y)
<1> USE DEF Outside, Entering, Working, Gone, Recovered, Returning
<1> DEFINE y == [x EXCEPT !.tx = "open", !.at = "resolve"]
<1>1. x \in RequestType(c) /\ Passing(c, x) /\ Holding(x) /\ Answering(x) /\ Knowing(c, x)
  BY DEF Sound
<1>2. y \in RequestType(c)
  BY <1>1 DEF RequestType
<1>3. /\ y.at = "resolve" /\ y.route = x.route /\ y.user = x.user
      /\ y.answers = x.answers /\ y.pre = x.pre /\ y.after = x.after
      /\ y.panicking = x.panicking /\ y.faulty = x.faulty /\ y.tx = "open"
      /\ y.files = x.files /\ y.scoped = x.scoped /\ y.state = x.state
      /\ y.listener = x.listener /\ y.seen = x.seen /\ y.heard = x.heard
  BY <1>1 DEF RequestType
<1> HIDE DEF y
<1>4. Passing(c, y)
  BY <1>1, <1>3 DEF Passing, Passed
<1>5. Holding(y)
  BY <1>1, <1>3 DEF Holding
<1>6. Answering(y)
  BY <1>1, <1>3 DEF Answering, Well
<1>7. Knowing(c, y)
  BY <1>1, <1>3, Nowhere DEF Knowing
<1>8. Kept(x, y)
  BY <1>1, <1>3 DEF Kept, Held, Released, Knowing
<1> QED
  BY <1>2, <1>4, <1>5, <1>6, <1>7, <1>8 DEF Sound, y

\* The arguments are there.
LEMMA Resolved ==
  ASSUME NEW c, NEW x, Sound(c, x), NEW b \in BOOLEAN,
         x.at = "resolve"
  PROVE  LET y == [x EXCEPT !.files = b, !.at = "call"]
         IN  Sound(c, y) /\ Kept(x, y)
<1> USE DEF Outside, Entering, Working, Gone, Recovered, Returning
<1> DEFINE y == [x EXCEPT !.files = b, !.at = "call"]
<1>1. x \in RequestType(c) /\ Passing(c, x) /\ Holding(x) /\ Answering(x) /\ Knowing(c, x)
  BY DEF Sound
<1>2. y \in RequestType(c)
  BY <1>1 DEF RequestType
<1>3. /\ y.at = "call" /\ y.route = x.route /\ y.user = x.user
      /\ y.answers = x.answers /\ y.pre = x.pre /\ y.after = x.after
      /\ y.panicking = x.panicking /\ y.faulty = x.faulty /\ y.tx = x.tx
      /\ y.files = b /\ y.scoped = x.scoped /\ y.state = x.state
      /\ y.listener = x.listener /\ y.seen = x.seen /\ y.heard = x.heard
  BY <1>1 DEF RequestType
<1> HIDE DEF y
<1>4. Passing(c, y)
  BY <1>1, <1>3 DEF Passing, Passed
<1>5. Holding(y)
  BY <1>1, <1>3 DEF Holding
<1>6. Answering(y)
  BY <1>1, <1>3 DEF Answering, Well
<1>7. Knowing(c, y)
  BY <1>1, <1>3, Nowhere DEF Knowing
<1>8. Kept(x, y)
  BY <1>1, <1>3 DEF Kept, Held, Released, Knowing
<1> QED
  BY <1>2, <1>4, <1>5, <1>6, <1>7, <1>8 DEF Sound, y

\* An argument is refused.
LEMMA ArgumentsRefused ==
  ASSUME NEW c, NEW x, Sound(c, x),
         NEW z \in Seq(Answers), NEW b \in BOOLEAN, NEW at,
         x.at = "resolve",
         b => x.route.tx,
         \/ x.route.tx /\ at = "rollback"
         \/ ~x.route.tx /\ at = "post",
         z # <<>> /\ Len(z) <= 1
  PROVE  LET y == [x EXCEPT !.answers = z, !.files = b, !.at = at]
         IN  Sound(c, y) /\ Kept(x, y)
<1> USE DEF Outside, Entering, Working, Gone, Recovered, Returning
<1> DEFINE y == [x EXCEPT !.answers = z, !.files = b, !.at = at]
<1>1. x \in RequestType(c) /\ Passing(c, x) /\ Holding(x) /\ Answering(x) /\ Knowing(c, x)
  BY DEF Sound
<1>2. y \in RequestType(c)
  BY <1>1 DEF RequestType
<1>3. /\ y.at = at /\ y.route = x.route /\ y.user = x.user
      /\ y.answers = z /\ y.pre = x.pre /\ y.after = x.after
      /\ y.panicking = x.panicking /\ y.faulty = x.faulty /\ y.tx = x.tx
      /\ y.files = b /\ y.scoped = x.scoped /\ y.state = x.state
      /\ y.listener = x.listener /\ y.seen = x.seen /\ y.heard = x.heard
  BY <1>1 DEF RequestType
<1> HIDE DEF y
<1>4. x.panicking = "no" /\ (~x.route.tx => x.tx = "none") /\ (x.route.tx => x.tx = "open")
  BY <1>1 DEF Holding, Answering
<1>5. Passing(c, y)
  BY <1>1, <1>3 DEF Passing, Passed
<1>6. Holding(y)
  BY <1>1, <1>3 DEF Holding
<1>7. Well(y)
  BY <1>3, <1>4 DEF Well
<1>8. Answering(y)
  BY <1>1, <1>3, <1>4, <1>7 DEF Answering
<1>9. Knowing(c, y)
  BY <1>1, <1>3, Nowhere DEF Knowing
<1>10. Kept(x, y)
  BY <1>1, <1>3 DEF Kept, Held, Released, Knowing
<1> QED
  BY <1>2, <1>5, <1>6, <1>8, <1>9, <1>10 DEF Sound, y

\* The controller returns.
LEMMA Called ==
  ASSUME NEW c, NEW x, Sound(c, x), NEW l \in {"none", "running"}, NEW at,
         x.at = "call",
         at = "respond" \/ (at = "rollback" /\ x.route.tx)
  PROVE  LET y == [x EXCEPT !.seen = x.seen \cup {x.user}, !.listener = l, !.at = at]
         IN  Sound(c, y) /\ Kept(x, y)
<1> USE DEF Outside, Entering, Working, Gone, Recovered, Returning
<1> DEFINE y == [x EXCEPT !.seen = x.seen \cup {x.user}, !.listener = l, !.at = at]
<1>1. x \in RequestType(c) /\ Passing(c, x) /\ Holding(x) /\ Answering(x) /\ Knowing(c, x)
  BY DEF Sound
<1>2. y \in RequestType(c)
  BY <1>1 DEF RequestType
<1>3. /\ y.at = at /\ y.route = x.route /\ y.user = x.user
      /\ y.answers = x.answers /\ y.pre = x.pre /\ y.after = x.after
      /\ y.panicking = x.panicking /\ y.faulty = x.faulty /\ y.tx = x.tx
      /\ y.files = x.files /\ y.scoped = x.scoped /\ y.state = x.state
      /\ y.listener = l /\ y.seen = x.seen \cup {x.user} /\ y.heard = x.heard
  BY <1>1 DEF RequestType
<1> HIDE DEF y
<1>4. x.answers = <<>> /\ Len(x.answers) <= 1
  BY <1>1 DEF Holding, Answering
<1>5. Passing(c, y)
  BY <1>1, <1>3 DEF Passing, Passed
<1>6. Holding(y)
  BY <1>1, <1>3 DEF Holding
<1>7. Answering(y)
  BY <1>1, <1>3, <1>4 DEF Answering, Well
<1>8. Knowing(c, y)
  BY <1>1, <1>3, Nowhere DEF Knowing
<1>9. Kept(x, y)
  BY <1>1, <1>3 DEF Kept, Held, Released, Knowing
<1> QED
  BY <1>2, <1>5, <1>6, <1>7, <1>8, <1>9 DEF Sound, y

\* The controller fails, and the error is answered.
LEMMA CallFailed ==
  ASSUME NEW c, NEW x, Sound(c, x), NEW z \in Seq(Answers), NEW l \in {"none", "running"},
         x.at = "call" /\ ~x.route.tx,
         z # <<>> /\ Len(z) <= 1
  PROVE  LET y == [x EXCEPT !.seen = x.seen \cup {x.user}, !.listener = l, !.answers = z,
                          !.files = FALSE, !.at = "post"]
         IN  Sound(c, y) /\ Kept(x, y)
<1> USE DEF Outside, Entering, Working, Gone, Recovered, Returning
<1> DEFINE y == [x EXCEPT !.seen = x.seen \cup {x.user}, !.listener = l, !.answers = z,
                          !.files = FALSE, !.at = "post"]
<1>1. x \in RequestType(c) /\ Passing(c, x) /\ Holding(x) /\ Answering(x) /\ Knowing(c, x)
  BY DEF Sound
<1>2. y \in RequestType(c)
  BY <1>1 DEF RequestType
<1>3. /\ y.at = "post" /\ y.route = x.route /\ y.user = x.user
      /\ y.answers = z /\ y.pre = x.pre /\ y.after = x.after
      /\ y.panicking = x.panicking /\ y.faulty = x.faulty /\ y.tx = x.tx
      /\ y.files = FALSE /\ y.scoped = x.scoped /\ y.state = x.state
      /\ y.listener = l /\ y.seen = x.seen \cup {x.user} /\ y.heard = x.heard
  BY <1>1 DEF RequestType
<1> HIDE DEF y
<1>4. x.tx = "none" /\ x.panicking = "no"
  BY <1>1 DEF Holding, Answering
<1>5. Passing(c, y)
  BY <1>1, <1>3 DEF Passing, Passed
<1>6. Holding(y)
  BY <1>1, <1>3 DEF Holding
<1>7. Well(y)
  BY <1>3, <1>4 DEF Well
<1>8. Answering(y)
  BY <1>1, <1>3, <1>4, <1>7 DEF Answering
<1>9. Knowing(c, y)
  BY <1>1, <1>3, Nowhere DEF Knowing
<1>10. Kept(x, y)
  BY <1>1, <1>3 DEF Kept, Held, Released, Knowing
<1> QED
  BY <1>2, <1>5, <1>6, <1>8, <1>9, <1>10 DEF Sound, y

\* The controller panics.
LEMMA CallPanicked ==
  ASSUME NEW c, NEW x, Sound(c, x),
         NEW l \in {"none", "running"}, NEW b \in BOOLEAN, NEW p \in {"panic", "abort"}, NEW t,
         x.at = "call",
         b => x.route.tx,
         \/ x.tx = "open" /\ t = "rolled back"
         \/ x.tx # "open" /\ t = x.tx
  PROVE  LET y == [x EXCEPT !.seen = x.seen \cup {x.user}, !.listener = l, !.panicking = p,
                          !.files = b, !.tx = t, !.at = "complete"]
         IN  Sound(c, y) /\ Kept(x, y)
<1> USE DEF Outside, Entering, Working, Gone, Recovered, Returning
<1> DEFINE y == [x EXCEPT !.seen = x.seen \cup {x.user}, !.listener = l, !.panicking = p,
                          !.files = b, !.tx = t, !.at = "complete"]
<1>1. x \in RequestType(c) /\ Passing(c, x) /\ Holding(x) /\ Answering(x) /\ Knowing(c, x)
  BY DEF Sound
<1>2. x.seen \cup {x.user} \in SUBSET (Requests \cup {Nil})
  BY <1>1 DEF RequestType
<1>3. y \in RequestType(c)
  BY <1>1, <1>2 DEF RequestType
<1>4. /\ y.at = "complete" /\ y.route = x.route /\ y.user = x.user
      /\ y.answers = x.answers /\ y.pre = x.pre /\ y.after = x.after
      /\ y.panicking = p /\ y.faulty = x.faulty /\ y.tx = t
      /\ y.files = b /\ y.scoped = x.scoped /\ y.state = x.state
      /\ y.listener = l /\ y.seen = x.seen \cup {x.user} /\ y.heard = x.heard
  BY <1>1 DEF RequestType
<1> HIDE DEF y
<1>5. x.answers = <<>>
  BY <1>1 DEF Holding, Answering
<1>6. Len(<<>>) <= 1
  BY NoAnswer
<1>7. Passing(c, y)
  BY <1>1, <1>4 DEF Passing, Passed
<1>8. Holding(y)
  BY <1>1, <1>4 DEF Holding
<1>9. Answering(y)
  BY <1>1, <1>4, <1>5, <1>6 DEF Answering, Well
<1>10. Knowing(c, y)
  BY <1>1, <1>4, Nowhere DEF Knowing
<1>11. Kept(x, y)
  BY <1>1, <1>4 DEF Kept, Held, Released, Knowing
<1> QED
  BY <1>3, <1>7, <1>8, <1>9, <1>10, <1>11 DEF Sound, y

\* A resolver panics, or the encoder of the response, which is cut.
Unfinished(z) == z \in Seq(Answers) /\ Len(z) <= 1 /\ (z = <<>> \/ z = <<"cut">>)
LEMMA WorkPanicked ==
  ASSUME NEW c, NEW x, Sound(c, x),
         NEW z, NEW b \in BOOLEAN, NEW p \in {"panic", "abort"}, NEW t,
         x.at = "resolve" \/ x.at = "respond",
         Unfinished(z),
         b => x.route.tx,
         \/ x.tx = "open" /\ t = "rolled back"
         \/ x.tx # "open" /\ t = x.tx
  PROVE  LET y == [x EXCEPT !.answers = z, !.panicking = p, !.files = b, !.tx = t,
                            !.at = "complete"]
         IN  Sound(c, y) /\ Kept(x, y)
<1> USE DEF Outside, Entering, Working, Gone, Recovered, Returning
<1> DEFINE y == [x EXCEPT !.answers = z, !.panicking = p, !.files = b, !.tx = t, !.at = "complete"]
<1>1. x \in RequestType(c) /\ Passing(c, x) /\ Holding(x) /\ Answering(x) /\ Knowing(c, x)
  BY DEF Sound
<1>2. t \in {"none", "committed", "rolled back"}
  BY <1>1 DEF RequestType
<1>3. y \in RequestType(c)
  BY <1>1, <1>2 DEF RequestType, Unfinished
<1>4. /\ y.at = "complete" /\ y.route = x.route /\ y.user = x.user
      /\ y.answers = z /\ y.pre = x.pre /\ y.after = x.after
      /\ y.panicking = p /\ y.faulty = x.faulty /\ y.tx = t
      /\ y.files = b /\ y.scoped = x.scoped /\ y.state = x.state
      /\ y.listener = x.listener /\ y.seen = x.seen /\ y.heard = x.heard
  BY <1>1 DEF RequestType
<1> HIDE DEF y
<1>5. Passing(c, y)
  BY <1>1, <1>4 DEF Passing, Passed
<1>6. Holding(y)
  BY <1>1, <1>4 DEF Holding
<1>7. Well(y)
  BY <1>4 DEF Well, Unfinished
<1>8. Answering(y)
  BY <1>4, <1>7 DEF Answering
<1>9. Knowing(c, y)
  BY <1>1, <1>4, Nowhere DEF Knowing
<1>10. Kept(x, y)
  BY <1>1, <1>4 DEF Kept, Held, Released, Knowing
<1> QED
  BY <1>3, <1>5, <1>6, <1>8, <1>9, <1>10 DEF Sound, y

\* The response is written in the transaction.
LEMMA Responded ==
  ASSUME NEW c, NEW x, Sound(c, x), NEW z \in Seq(Answers),
         x.at = "respond" /\ x.route.tx,
         z # <<>> /\ Len(z) <= 1
  PROVE  LET y == [x EXCEPT !.answers = z, !.at = "commit"]
         IN  Sound(c, y) /\ Kept(x, y)
<1> USE DEF Outside, Entering, Working, Gone, Recovered, Returning
<1> DEFINE y == [x EXCEPT !.answers = z, !.at = "commit"]
<1>1. x \in RequestType(c) /\ Passing(c, x) /\ Holding(x) /\ Answering(x) /\ Knowing(c, x)
  BY DEF Sound
<1>2. y \in RequestType(c)
  BY <1>1 DEF RequestType
<1>3. /\ y.at = "commit" /\ y.route = x.route /\ y.user = x.user
      /\ y.answers = z /\ y.pre = x.pre /\ y.after = x.after
      /\ y.panicking = x.panicking /\ y.faulty = x.faulty /\ y.tx = x.tx
      /\ y.files = x.files /\ y.scoped = x.scoped /\ y.state = x.state
      /\ y.listener = x.listener /\ y.seen = x.seen /\ y.heard = x.heard
  BY <1>1 DEF RequestType
<1> HIDE DEF y
<1>4. x.tx = "open"
  BY <1>1 DEF Holding, Answering
<1>5. Passing(c, y)
  BY <1>1, <1>3 DEF Passing, Passed
<1>6. Holding(y)
  BY <1>1, <1>3 DEF Holding
<1>7. Well(y)
  BY <1>3, <1>4 DEF Well
<1>8. Answering(y)
  BY <1>1, <1>3, <1>4, <1>7 DEF Answering
<1>9. Knowing(c, y)
  BY <1>1, <1>3, Nowhere DEF Knowing
<1>10. Kept(x, y)
  BY <1>1, <1>3 DEF Kept, Held, Released, Knowing
<1> QED
  BY <1>2, <1>5, <1>6, <1>8, <1>9, <1>10 DEF Sound, y

\* The transaction commits.
LEMMA TxCommitted ==
  ASSUME NEW c, NEW x, Sound(c, x),
         x.at = "commit"
  PROVE  LET y == [x EXCEPT !.tx = "committed", !.at = "post"]
         IN  Sound(c, y) /\ Kept(x, y)
<1> USE DEF Outside, Entering, Working, Gone, Recovered, Returning
<1> DEFINE y == [x EXCEPT !.tx = "committed", !.at = "post"]
<1>1. x \in RequestType(c) /\ Passing(c, x) /\ Holding(x) /\ Answering(x) /\ Knowing(c, x)
  BY DEF Sound
<1>2. y \in RequestType(c)
  BY <1>1 DEF RequestType
<1>3. /\ y.at = "post" /\ y.route = x.route /\ y.user = x.user
      /\ y.answers = x.answers /\ y.pre = x.pre /\ y.after = x.after
      /\ y.panicking = x.panicking /\ y.faulty = x.faulty /\ y.tx = "committed"
      /\ y.files = x.files /\ y.scoped = x.scoped /\ y.state = x.state
      /\ y.listener = x.listener /\ y.seen = x.seen /\ y.heard = x.heard
  BY <1>1 DEF RequestType
<1> HIDE DEF y
<1>4. x.answers # <<>> /\ Len(x.answers) <= 1 /\ x.panicking = "no"
  BY <1>1 DEF Holding, Answering
<1>5. Passing(c, y)
  BY <1>1, <1>3 DEF Passing, Passed
<1>6. Holding(y)
  BY <1>1, <1>3 DEF Holding
<1>7. Answering(y)
  BY <1>1, <1>3, <1>4 DEF Answering, Well
<1>8. Knowing(c, y)
  BY <1>1, <1>3, Nowhere DEF Knowing
<1>9. Kept(x, y)
  BY <1>1, <1>3 DEF Kept, Held, Released, Knowing
<1> QED
  BY <1>2, <1>5, <1>6, <1>7, <1>8, <1>9 DEF Sound, y

\* The transaction fails.
LEMMA TxRolledBack ==
  ASSUME NEW c, NEW x, Sound(c, x), NEW z \in Seq(Answers),
         x.at \in {"commit", "rollback"},
         z # <<>> /\ Len(z) <= 2 /\ Last(z) = "error"
  PROVE  LET y == [x EXCEPT !.tx = "rolled back", !.answers = z, !.at = "post"]
         IN  Sound(c, y) /\ Kept(x, y)
<1> USE DEF Outside, Entering, Working, Gone, Recovered, Returning
<1> DEFINE y == [x EXCEPT !.tx = "rolled back", !.answers = z, !.at = "post"]
<1>1. x \in RequestType(c) /\ Passing(c, x) /\ Holding(x) /\ Answering(x) /\ Knowing(c, x)
  BY DEF Sound
<1>2. y \in RequestType(c)
  BY <1>1 DEF RequestType
<1>3. /\ y.at = "post" /\ y.route = x.route /\ y.user = x.user
      /\ y.answers = z /\ y.pre = x.pre /\ y.after = x.after
      /\ y.panicking = x.panicking /\ y.faulty = x.faulty /\ y.tx = "rolled back"
      /\ y.files = x.files /\ y.scoped = x.scoped /\ y.state = x.state
      /\ y.listener = x.listener /\ y.seen = x.seen /\ y.heard = x.heard
  BY <1>1 DEF RequestType
<1> HIDE DEF y
<1>4. x.panicking = "no"
  BY <1>1 DEF Holding, Answering
<1>5. Passing(c, y)
  BY <1>1, <1>3 DEF Passing, Passed
<1>6. Holding(y)
  BY <1>1, <1>3 DEF Holding
<1>7. Answering(y)
  BY <1>1, <1>3, <1>4 DEF Answering, Well
<1>8. Knowing(c, y)
  BY <1>1, <1>3, Nowhere DEF Knowing
<1>9. Kept(x, y)
  BY <1>1, <1>3 DEF Kept, Held, Released, Knowing
<1> QED
  BY <1>2, <1>5, <1>6, <1>7, <1>8, <1>9 DEF Sound, y

\* AfterCompletion runs.
LEMMA Completes ==
  ASSUME NEW c, NEW x, Sound(c, x), NEW f \in [DOMAIN c.interceptors -> Nat],
         x.at \in {"post", "complete"},
         f = Ran(c, x)
  PROVE  LET y == [x EXCEPT !.after = f, !.at = "recover"]
         IN  Sound(c, y) /\ Kept(x, y)
<1> USE DEF Outside, Entering, Working, Gone, Recovered, Returning
<1> DEFINE y == [x EXCEPT !.after = f, !.at = "recover"]
<1>1. x \in RequestType(c) /\ Passing(c, x) /\ Holding(x) /\ Answering(x) /\ Knowing(c, x)
  BY DEF Sound
<1>2. y \in RequestType(c)
  BY <1>1 DEF RequestType
<1>3. /\ y.at = "recover" /\ y.route = x.route /\ y.user = x.user
      /\ y.answers = x.answers /\ y.pre = x.pre /\ y.after = f
      /\ y.panicking = x.panicking /\ y.faulty = x.faulty /\ y.tx = x.tx
      /\ y.files = x.files /\ y.scoped = x.scoped /\ y.state = x.state
      /\ y.listener = x.listener /\ y.seen = x.seen /\ y.heard = x.heard
  BY <1>1 DEF RequestType
<1> HIDE DEF y
<1>4. Passing(c, y)
  BY <1>1, <1>3 DEF Passing, Passed, Ran
<1>5. Holding(y)
  BY <1>1, <1>3 DEF Holding
<1>6. Answering(y)
  BY <1>1, <1>3 DEF Answering, Well
<1>7. Knowing(c, y)
  BY <1>1, <1>3, Nowhere DEF Knowing
<1>8. Kept(x, y)
  BY <1>1, <1>3 DEF Kept, Held, Released, Knowing
<1> QED
  BY <1>2, <1>4, <1>5, <1>6, <1>7, <1>8 DEF Sound, y

\* PostHandle panics.
LEMMA PostHandlePanicked ==
  ASSUME NEW c, NEW x, Sound(c, x),
         x.at = "post"
  PROVE  LET y == [x EXCEPT !.panicking = "panic", !.at = "complete"]
         IN  Sound(c, y) /\ Kept(x, y)
<1> USE DEF Outside, Entering, Working, Gone, Recovered, Returning
<1> DEFINE y == [x EXCEPT !.panicking = "panic", !.at = "complete"]
<1>1. x \in RequestType(c) /\ Passing(c, x) /\ Holding(x) /\ Answering(x) /\ Knowing(c, x)
  BY DEF Sound
<1>2. y \in RequestType(c)
  BY <1>1 DEF RequestType
<1>3. /\ y.at = "complete" /\ y.route = x.route /\ y.user = x.user
      /\ y.answers = x.answers /\ y.pre = x.pre /\ y.after = x.after
      /\ y.panicking = "panic" /\ y.faulty = x.faulty /\ y.tx = x.tx
      /\ y.files = x.files /\ y.scoped = x.scoped /\ y.state = x.state
      /\ y.listener = x.listener /\ y.seen = x.seen /\ y.heard = x.heard
  BY <1>1 DEF RequestType
<1> HIDE DEF y
<1>4. Passing(c, y)
  BY <1>1, <1>3 DEF Passing, Passed
<1>5. Holding(y)
  BY <1>1, <1>3 DEF Holding
<1>6. Answering(y)
  BY <1>1, <1>3 DEF Answering, Well
<1>7. Knowing(c, y)
  BY <1>1, <1>3, Nowhere DEF Knowing
<1>8. Kept(x, y)
  BY <1>1, <1>3 DEF Kept, Held, Released, Knowing
<1> QED
  BY <1>2, <1>4, <1>5, <1>6, <1>7, <1>8 DEF Sound, y

\* AfterCompletion panics.
LEMMA AfterCompletionPanicked ==
  ASSUME NEW c, NEW x, Sound(c, x), NEW f \in [DOMAIN c.interceptors -> Nat],
         x.at = "post"
  PROVE  LET y == [x EXCEPT !.panicking = "panic", !.faulty = TRUE, !.at = "complete",
                          !.after = f]
         IN  Sound(c, y) /\ Kept(x, y)
<1> USE DEF Outside, Entering, Working, Gone, Recovered, Returning
<1> DEFINE y == [x EXCEPT !.panicking = "panic", !.faulty = TRUE, !.at = "complete",
                          !.after = f]
<1>1. x \in RequestType(c) /\ Passing(c, x) /\ Holding(x) /\ Answering(x) /\ Knowing(c, x)
  BY DEF Sound
<1>2. y \in RequestType(c)
  BY <1>1 DEF RequestType
<1>3. /\ y.at = "complete" /\ y.route = x.route /\ y.user = x.user
      /\ y.answers = x.answers /\ y.pre = x.pre /\ y.after = f
      /\ y.panicking = "panic" /\ y.faulty = TRUE /\ y.tx = x.tx
      /\ y.files = x.files /\ y.scoped = x.scoped /\ y.state = x.state
      /\ y.listener = x.listener /\ y.seen = x.seen /\ y.heard = x.heard
  BY <1>1 DEF RequestType
<1> HIDE DEF y
<1>4. Passing(c, y)
  BY <1>1, <1>3 DEF Passing, Passed
<1>5. Holding(y)
  BY <1>1, <1>3 DEF Holding
<1>6. Answering(y)
  BY <1>1, <1>3 DEF Answering, Well
<1>7. Knowing(c, y)
  BY <1>1, <1>3, Nowhere DEF Knowing
<1>8. Kept(x, y)
  BY <1>1, <1>3 DEF Kept, Held, Released, Knowing
<1> QED
  BY <1>2, <1>4, <1>5, <1>6, <1>7, <1>8 DEF Sound, y

\* Recoverer is through.
LEMMA RecovererReturned ==
  ASSUME NEW c, NEW x, Sound(c, x),
         NEW z \in Seq(Answers), NEW p, NEW at,
         x.at = "recover",
         \/ z = x.answers /\ (x.panicking = "panic" => z # <<>>)
         \/ x.panicking = "panic" /\ z # <<>> /\ Len(z) <= 1 /\ Last(z) = "error",
         \/ x.panicking = "abort" /\ p = "abort"
         \/ x.panicking # "abort" /\ p = "no",
         \/ x.state # Nil /\ x.panicking # "abort" /\ at = "release"
         \/ ~(x.state # Nil /\ x.panicking # "abort") /\ at = "destroy"
  PROVE  LET y == [x EXCEPT !.answers = z, !.panicking = p, !.at = at]
         IN  Sound(c, y) /\ Kept(x, y)
<1> USE DEF Outside, Entering, Working, Gone, Recovered, Returning
<1> DEFINE y == [x EXCEPT !.answers = z, !.panicking = p, !.at = at]
<1>1. x \in RequestType(c) /\ Passing(c, x) /\ Holding(x) /\ Answering(x) /\ Knowing(c, x)
  BY DEF Sound
<1>2. y \in RequestType(c)
  BY <1>1 DEF RequestType
<1>3. /\ y.at = at /\ y.route = x.route /\ y.user = x.user
      /\ y.answers = z /\ y.pre = x.pre /\ y.after = x.after
      /\ y.panicking = p /\ y.faulty = x.faulty /\ y.tx = x.tx
      /\ y.files = x.files /\ y.scoped = x.scoped /\ y.state = x.state
      /\ y.listener = x.listener /\ y.seen = x.seen /\ y.heard = x.heard
  BY <1>1 DEF RequestType
<1> HIDE DEF y
<1>4. Well(x) /\ (x.answers # <<>> \/ x.panicking # "no") /\ x.panicking \in {"no", "panic", "abort"}
  BY <1>1 DEF RequestType, Holding, Answering
<1>5. Len(z) <= 1 => Len(z) <= 2
  OBVIOUS
<1>6. Passing(c, y)
  BY <1>1, <1>3 DEF Passing, Passed
<1>7. Holding(y)
  BY <1>1, <1>3 DEF Holding
<1>8. Well(y)
  BY <1>3, <1>4, <1>5 DEF Well
<1>9. Answering(y)
  BY <1>1, <1>3, <1>4, <1>5, <1>8 DEF Answering
<1>10. Knowing(c, y)
  BY <1>1, <1>3, Nowhere DEF Knowing
<1>11. Kept(x, y)
  BY <1>1, <1>3 DEF Kept, Held, Released, Knowing
<1> QED
  BY <1>2, <1>6, <1>7, <1>9, <1>10, <1>11 DEF Sound, y

\* The registry is destroyed.
LEMMA Destroyed ==
  ASSUME NEW c, NEW x, Sound(c, x), NEW at,
         x.at = "destroy",
         \/ x.panicking = "abort" /\ at = "end"
         \/ x.panicking # "abort" /\ at = "capture"
  PROVE  LET y == [x EXCEPT !.scoped = FALSE, !.at = at]
         IN  Sound(c, y) /\ Kept(x, y)
<1> USE DEF Outside, Entering, Working, Gone, Recovered, Returning
<1> DEFINE y == [x EXCEPT !.scoped = FALSE, !.at = at]
<1>1. x \in RequestType(c) /\ Passing(c, x) /\ Holding(x) /\ Answering(x) /\ Knowing(c, x)
  BY DEF Sound
<1>2. y \in RequestType(c)
  BY <1>1 DEF RequestType
<1>3. /\ y.at = at /\ y.route = x.route /\ y.user = x.user
      /\ y.answers = x.answers /\ y.pre = x.pre /\ y.after = x.after
      /\ y.panicking = x.panicking /\ y.faulty = x.faulty /\ y.tx = x.tx
      /\ y.files = x.files /\ y.scoped = FALSE /\ y.state = x.state
      /\ y.listener = x.listener /\ y.seen = x.seen /\ y.heard = x.heard
  BY <1>1 DEF RequestType
<1> HIDE DEF y
<1>4. Passing(c, y)
  BY <1>1, <1>3 DEF Passing, Passed
<1>5. Holding(y)
  BY <1>1, <1>3 DEF Holding
<1>6. Answering(y)
  BY <1>1, <1>3 DEF Answering, Well
<1>7. Knowing(c, y)
  BY <1>1, <1>3, Nowhere DEF Knowing
<1>8. Kept(x, y)
  BY <1>1, <1>3 DEF Kept, Held, Released, Knowing
<1> QED
  BY <1>2, <1>4, <1>5, <1>6, <1>7, <1>8 DEF Sound, y

\* Its listener runs.
LEMMA Listened ==
  ASSUME NEW c, NEW x, Sound(c, x), NEW u \in Requests \cup {Nil},
         x.listener = "running",
         ~c.optimized => u = x.user
  PROVE  LET y == [x EXCEPT !.listener = "done", !.heard = x.heard \cup {u}]
         IN  Sound(c, y) /\ Kept(x, y)
<1> USE DEF Outside, Entering, Working, Gone, Recovered, Returning
<1> DEFINE y == [x EXCEPT !.listener = "done", !.heard = x.heard \cup {u}]
<1>1. x \in RequestType(c) /\ Passing(c, x) /\ Holding(x) /\ Answering(x) /\ Knowing(c, x)
  BY DEF Sound
<1>2. x.heard \cup {u} \in SUBSET (Requests \cup {Nil})
  BY <1>1 DEF RequestType
<1>3. y \in RequestType(c)
  BY <1>1, <1>2 DEF RequestType
<1>4. /\ y.at = x.at /\ y.route = x.route /\ y.user = x.user
      /\ y.answers = x.answers /\ y.pre = x.pre /\ y.after = x.after
      /\ y.panicking = x.panicking /\ y.faulty = x.faulty /\ y.tx = x.tx
      /\ y.files = x.files /\ y.scoped = x.scoped /\ y.state = x.state
      /\ y.listener = "done" /\ y.seen = x.seen /\ y.heard = x.heard \cup {u}
  BY <1>1 DEF RequestType
<1> HIDE DEF y
<1>5. Passing(c, y)
  BY <1>1, <1>4 DEF Passing, Passed
<1>6. Holding(y)
  BY <1>1, <1>4 DEF Holding
<1>7. Answering(y)
  BY <1>1, <1>4 DEF Answering, Well
<1>8. Knowing(c, y)
  BY <1>1, <1>4, Nowhere DEF Knowing
<1>9. Kept(x, y)
  BY <1>1, <1>4 DEF Kept, Held, Released, Knowing
<1> QED
  BY <1>3, <1>5, <1>6, <1>7, <1>8, <1>9 DEF Sound, y

-----------------------------------------------------------------------------
(* Request: the steps.                                                     *)

\* A step of r changes the record of r only.
LEMMA Updated ==
  ASSUME RequestInv, NEW r \in Requests, NEW y, Update(r, y), conf' = conf, Sound(conf, y)
  PROVE  /\ DOMAIN req' = Requests /\ req'[r] = y
         /\ \A q \in Requests \ {r} : req'[q] = req[q]
         /\ \A q \in Requests : Sound(conf', req'[q])
<1>1. DOMAIN req' = Requests /\ req'[r] = y /\ \A q \in Requests \ {r} : req'[q] = req[q]
  BY DEF RequestInv, PoolTypes, Update
<1>2. \A q \in Requests : Sound(conf, req'[q])
  BY <1>1 DEF RequestInv
<1> QED
  BY <1>1, <1>2

\* One that leaves the pool alone keeps the invariant.
LEMMA UpdateKept ==
  ASSUME RequestInv, NEW r \in Requests, NEW y, Update(r, y), UNCHANGED <<conf, stateVars>>,
         Sound(conf, y), Kept(req[r], y)
  PROVE  RequestInv'
<1>1. conf' = conf /\ holder' = holder /\ free' = free
  BY DEF stateVars
<1>2. /\ DOMAIN req' = Requests /\ req'[r] = y
      /\ \A q \in Requests \ {r} : req'[q] = req[q]
      /\ \A q \in Requests : Sound(conf', req'[q])
  BY <1>1, Updated
<1>3. \A q \in Requests : Kept(req[q], req'[q])
  BY <1>2 DEF Kept
<1>4. Pooled'
  <2>1. \A q \in Requests : req'[q].state = req[q].state /\ req'[q].user = req[q].user
    BY <1>3 DEF Kept
  <2>2. \A q \in Requests : /\ Held(req'[q]) => Held(req[q])
                            /\ Released(req'[q]) => Released(req[q])
    BY <1>3 DEF Kept
  <2>3. Pooled
    BY DEF RequestInv
  <2> QED
    BY <1>1, <2>1, <2>2, <2>3 DEF Pooled
<1>5. PoolTypes'
  BY <1>1, <1>2 DEF RequestInv, PoolTypes
<1> QED
  BY <1>2, <1>4, <1>5 DEF RequestInv

LEMMA ArriveStep ==
  ASSUME RequestInv, NEW r \in Requests, Arrive(r)
  PROVE  RequestInv'
<1>1. Sound(conf, req[r]) /\ req[r].at = "new" /\ UNCHANGED <<conf, stateVars>>
  BY DEF RequestInv, Arrive, At
<1>2. PICK route \in conf.routes : Update(r, [req[r] EXCEPT !.route = route, !.at = "cors"])
  BY DEF Arrive
<1> DEFINE y == [req[r] EXCEPT !.route = route, !.at = "cors"]
<1>3. Sound(conf, y) /\ Kept(req[r], y)
  BY <1>1, Arrived
<1> QED
  BY <1>1, <1>2, <1>3, UpdateKept

LEMMA CorsStep ==
  ASSUME RequestInv, NEW r \in Requests, CorsMiddleware(r)
  PROVE  RequestInv'
<1> DEFINE x == req[r]
<1>1. Sound(conf, x) /\ x.at = "cors" /\ UNCHANGED <<conf, stateVars>>
  BY DEF RequestInv, CorsMiddleware, At
<1>2. CASE Go(r, "csrf")
  <2>1. Sound(conf, [x EXCEPT !.at = "csrf"]) /\ Kept(x, [x EXCEPT !.at = "csrf"])
    BY <1>1, Moved
  <2> QED
    BY <1>1, <1>2, <2>1, UpdateKept DEF Go
<1>3. ASSUME NEW a \in Answers, Answer(r, a, "end") PROVE RequestInv'
  <2> DEFINE z == Append(x.answers, a)
  <2>1. z \in Seq(Answers) /\ z # <<>> /\ Len(z) <= 1
    BY <1>1, FirstAnswer DEF Entering, Outside
  <2> DEFINE y == [x EXCEPT !.answers = z, !.at = "end"]
  <2>2. Sound(conf, y) /\ Kept(x, y)
    BY <1>1, <2>1, TurnedAway
  <2> QED
    BY <1>1, <1>3, <2>2, UpdateKept DEF Answer
<1> QED
  BY <1>2, <1>3 DEF CorsMiddleware, Answers

\* The state a request holds carries its identity.
LEMMA OwnState ==
  ASSUME RequestInv, NEW r \in Requests, req[r].at \in Working
  PROVE  GetUser(r) = req[r].user
<1>1. CASE req[r].state = Nil
  BY <1>1 DEF GetUser
<1>2. CASE req[r].state # Nil
  <2>1. Held(req[r])
    BY <1>2 DEF Held
  <2>2. Pooled
    BY DEF RequestInv
  <2> QED
    BY <1>2, <2>1, <2>2 DEF Pooled, GetUser
<1> QED
  BY <1>1, <1>2

LEMMA CsrfStep ==
  ASSUME RequestInv, NEW r \in Requests, CsrfMiddleware(r)
  PROVE  RequestInv'
<1> DEFINE x == req[r]
<1>1. Sound(conf, x) /\ x.at = "csrf" /\ UNCHANGED <<conf, stateVars>>
  BY DEF RequestInv, CsrfMiddleware, At
<1>2. CASE Go(r, "scope")
  <2> DEFINE y == [x EXCEPT !.at = "scope"]
  <2>1. Sound(conf, y) /\ Kept(x, y)
    BY <1>1, Moved
  <2> QED
    BY <1>1, <1>2, <2>1, UpdateKept DEF Go
<1>3. CASE HandleError(r, "end")
  <2> DEFINE z == Append(x.answers, "error")
  <2>1. z \in Seq(Answers) /\ z # <<>> /\ Len(z) <= 1 /\ x.answers \o <<"error">> = z
    BY <1>1, <1>3, FirstAnswer DEF Answers, Entering, Outside
  <2> DEFINE y == [x EXCEPT !.answers = z, !.at = "end"]
  <2> HIDE DEF z
  <2>2. Sound(conf, y) /\ Kept(x, y)
    BY <1>1, <1>3, <2>1, TurnedAway
  <2>3. Update(r, y)
    BY <1>3, <2>1 DEF HandleError, Answer, z
  <2> QED
    BY <1>1, <2>2, <2>3, UpdateKept
<1> QED
  BY <1>2, <1>3 DEF CsrfMiddleware

LEMMA ScopeStep ==
  ASSUME RequestInv, NEW r \in Requests, RequestScopeMiddleware(r)
  PROVE  RequestInv'
<1> DEFINE x == req[r]
<1>1. Sound(conf, x) /\ x.at = "scope" /\ UNCHANGED <<conf, stateVars>>
  BY DEF RequestInv, RequestScopeMiddleware, At
<1> DEFINE at == IF conf.optimized THEN "acquire" ELSE "pre"
           y == [x EXCEPT !.scoped = TRUE, !.at = at]
<1>2. \/ conf.optimized /\ at = "acquire"
      \/ ~conf.optimized /\ at = "pre"
  OBVIOUS
<1>3. Update(r, y)
  BY DEF RequestScopeMiddleware
<1> HIDE DEF at
<1>4. Sound(conf, y) /\ Kept(x, y)
  BY <1>1, <1>2, Scoped
<1> QED
  BY <1>1, <1>3, <1>4, UpdateKept

LEMMA RanIsCompleted ==
  ASSUME RequestInv, NEW r \in Requests
  PROVE  Completed(r) = Ran(conf, req[r]) /\ Completed(r) \in [DOMAIN conf.interceptors -> Nat]
<1>1. Completed(r) = Ran(conf, req[r])
  BY DEF Completed, Ran, Matched, Path, Passed
<1>2. req[r].after \in [DOMAIN conf.interceptors -> Nat]
  BY DEF RequestInv, Sound, RequestType
<1>3. ASSUME NEW i \in DOMAIN conf.interceptors
      PROVE  req[r].after[i] + (IF Passed(conf, req[r], i) THEN 1 ELSE 0) \in Nat
  BY <1>2
<1> QED
  BY <1>1, <1>3 DEF Ran

LEMMA PreHandleStep ==
  ASSUME RequestInv, NEW r \in Requests, PreHandle(r)
  PROVE  RequestInv'
<1> DEFINE x == req[r]
<1>1. Sound(conf, x) /\ x.at = "pre" /\ UNCHANGED <<conf, stateVars>>
  BY DEF RequestInv, PreHandle, At
<1>2. CASE Go(r, "auth")
  <2> DEFINE y == [x EXCEPT !.at = "auth"]
  <2>1. Sound(conf, y) /\ Kept(x, y)
    BY <1>1, Moved
  <2> QED
    BY <1>1, <1>2, <2>1, UpdateKept DEF Go
<1>3. CASE Update(r, [x EXCEPT !.pre = x.pre + 1])
  <2> DEFINE n == x.pre
  <2>1. n \in Nat
    BY <1>1 DEF Sound, RequestType
  <2>2. Sound(conf, [x EXCEPT !.pre = x.pre + 1]) /\ Kept(x, [x EXCEPT !.pre = x.pre + 1])
    <3>1. n + 1 \in Nat
      BY <2>1
    <3> QED
      BY <1>1, <3>1, LetPass
  <2> QED
    BY <1>1, <1>3, <2>2, UpdateKept
<1>4. ASSUME NEW deny \in {"error", "denied", "blank"}, Denied(r, deny) PROVE RequestInv'
  <2> DEFINE z == Append(x.answers, deny)
  <2>1. z \in Seq(Answers) /\ z # <<>> /\ Len(z) <= 1 /\ x.answers \o <<deny>> = z
    BY <1>1, <1>4, FirstAnswer DEF Answers, Entering, Outside
  <2>2. Completed(r) = Ran(conf, x) /\ Completed(r) \in [DOMAIN conf.interceptors -> Nat]
    BY RanIsCompleted
  <2> DEFINE y == [x EXCEPT !.at = "recover", !.answers = z, !.after = Completed(r)]
  <2> HIDE DEF z
  <2>3. Sound(conf, y) /\ Kept(x, y)
    BY <1>1, <1>4, <2>1, <2>2, WasDenied
  <2>4. Update(r, y)
    BY <1>4, <2>1, <2>2 DEF Denied, z
  <2> QED
    BY <1>1, <2>3, <2>4, UpdateKept
<1>5. CASE Update(r, [x EXCEPT !.panicking = "panic", !.faulty = TRUE, !.at = "recover"])
  <2> DEFINE y == [x EXCEPT !.panicking = "panic", !.faulty = TRUE, !.at = "recover"]
  <2>1. Sound(conf, y) /\ Kept(x, y)
    BY <1>1, PreHandlePanicked
  <2> QED
    BY <1>1, <1>5, <2>1, UpdateKept DEF Go
<1> QED
  BY <1>2, <1>3, <1>4, <1>5 DEF PreHandle

LEMMA AuthorizationStep ==
  ASSUME RequestInv, NEW r \in Requests, checkAuthorization(r)
  PROVE  RequestInv'
<1> DEFINE x == req[r]
<1>1. Sound(conf, x) /\ x.at = "authorize" /\ UNCHANGED <<conf, stateVars>>
  BY DEF RequestInv, checkAuthorization, At
<1>2. CASE Leave(r, <<"error">>)
  <2> DEFINE z == Append(x.answers, "error")
  <2>1. z \in Seq(Answers) /\ z # <<>> /\ Len(z) <= 1 /\ x.answers \o <<"error">> = z
    BY <1>1, <1>2, FirstAnswer DEF Answers, Entering, Outside
  <2> DEFINE b == x.files /\ x.route.tx
  <2>2. b \in BOOLEAN /\ (b => x.route.tx)
    BY DEF b
  <2> DEFINE y == [x EXCEPT !.answers = z, !.files = b, !.at = "post"]
  <2> HIDE DEF z, b
  <2>3. Sound(conf, y) /\ Kept(x, y)
    BY <1>1, <1>2, <2>1, <2>2, Left
  <2>4. Update(r, y)
    BY <1>2, <2>1, <2>2 DEF Leave, FilesAfter, z, b
  <2> QED
    BY <1>1, <2>3, <2>4, UpdateKept
<1>3. CASE Go(r, "begin") /\ x.route.tx
  <2> DEFINE y == [x EXCEPT !.at = "begin"]
  <2>1. Sound(conf, y) /\ Kept(x, y)
    BY <1>1, <1>3, Moved
  <2> QED
    BY <1>1, <1>3, <2>1, UpdateKept DEF Go
<1>4. CASE Go(r, "resolve") /\ ~x.route.tx
  <2> DEFINE y == [x EXCEPT !.at = "resolve"]
  <2>1. Sound(conf, y) /\ Kept(x, y)
    BY <1>1, <1>4, Moved
  <2> QED
    BY <1>1, <1>4, <2>1, UpdateKept DEF Go
<1> QED
  BY <1>2, <1>3, <1>4 DEF checkAuthorization

LEMMA BeginStep ==
  ASSUME RequestInv, NEW r \in Requests, BeginTransaction(r)
  PROVE  RequestInv'
<1> DEFINE x == req[r]
<1>1. Sound(conf, x) /\ x.at = "begin" /\ UNCHANGED <<conf, stateVars>>
  BY DEF RequestInv, BeginTransaction, At
<1>2. CASE Leave(r, <<"error">>)
  <2> DEFINE z == Append(x.answers, "error")
  <2>1. z \in Seq(Answers) /\ z # <<>> /\ Len(z) <= 1 /\ x.answers \o <<"error">> = z
    BY <1>1, <1>2, FirstAnswer DEF Answers, Entering, Outside
  <2> DEFINE b == x.files /\ x.route.tx
  <2>2. b \in BOOLEAN /\ (b => x.route.tx)
    BY DEF b
  <2> DEFINE y == [x EXCEPT !.answers = z, !.files = b, !.at = "post"]
  <2> HIDE DEF z, b
  <2>3. Sound(conf, y) /\ Kept(x, y)
    BY <1>1, <1>2, <2>1, <2>2, Left
  <2>4. Update(r, y)
    BY <1>2, <2>1, <2>2 DEF Leave, FilesAfter, z, b
  <2> QED
    BY <1>1, <2>3, <2>4, UpdateKept
<1>3. CASE Update(r, [x EXCEPT !.tx = "open", !.at = "resolve"])
  <2> DEFINE y == [x EXCEPT !.tx = "open", !.at = "resolve"]
  <2>1. Sound(conf, y) /\ Kept(x, y)
    BY <1>1, Begun
  <2> QED
    BY <1>1, <1>3, <2>1, UpdateKept DEF Go
<1> QED
  BY <1>2, <1>3 DEF BeginTransaction

LEMMA ResolveStep ==
  ASSUME RequestInv, NEW r \in Requests, resolveArguments(r)
  PROVE  RequestInv'
<1> DEFINE x == req[r]
<1>1. Sound(conf, x) /\ x.at = "resolve" /\ UNCHANGED <<conf, stateVars>>
  BY DEF RequestInv, resolveArguments, At
<1> DEFINE q(body) == [x EXCEPT !.files = body.spooled]
<1>2. PICK body \in IF x.route.body = "multipart" THEN BindMultipartRequest ELSE DecodeJSON :
        \/ body.ok /\ Update(r, [q(body) EXCEPT !.at = "call"])
        \/ /\ ~body.ok
           /\ Update(r, [q(body) EXCEPT !.answers = Append(q(body).answers, "error"),
                                       !.files = q(body).files /\ q(body).route.tx,
                                       !.at = IF q(body).route.tx THEN "rollback" ELSE "post"])
        \/ \E how \in Panics : Update(r, Panicked(q(body), how))
  BY DEF resolveArguments
<1>3. body.ok \in BOOLEAN /\ body.spooled \in BOOLEAN
  BY DEF BindMultipartRequest, DecodeJSON
<1>4. CASE body.ok /\ Update(r, [q(body) EXCEPT !.at = "call"])
  <2> DEFINE b == body.spooled
             y == [x EXCEPT !.files = b, !.at = "call"]
  <2>1. b \in BOOLEAN
    BY <1>3
  <2>2. [q(body) EXCEPT !.at = "call"] = y
    BY <1>1 DEF Sound, RequestType
  <2> HIDE DEF b
  <2>3. Sound(conf, y) /\ Kept(x, y)
    BY <1>1, <2>1, Resolved
  <2> QED
    BY <1>1, <1>4, <2>2, <2>3, UpdateKept
<1>5. CASE Update(r, [q(body) EXCEPT !.answers = Append(q(body).answers, "error"),
                                     !.files = q(body).files /\ q(body).route.tx,
                                     !.at = IF q(body).route.tx THEN "rollback" ELSE "post"])
  <2> DEFINE z == Append(x.answers, "error")
  <2>1. z \in Seq(Answers) /\ z # <<>> /\ Len(z) <= 1 /\ x.answers \o <<"error">> = z
    BY <1>1, FirstAnswer DEF Answers, Entering, Outside
  <2> DEFINE b == body.spooled /\ x.route.tx
             at == IF x.route.tx THEN "rollback" ELSE "post"
  <2>2. /\ b \in BOOLEAN /\ (b => x.route.tx)
        /\ (x.route.tx /\ at = "rollback") \/ (~x.route.tx /\ at = "post")
    BY DEF b, at
  <2> DEFINE y == [x EXCEPT !.answers = z, !.files = b, !.at = at]
  <2>3. q(body).answers = x.answers /\ q(body).files = body.spooled /\ q(body).route = x.route
    BY <1>1 DEF Sound, RequestType
  <2>4. Update(r, [q(body) EXCEPT !.answers = z, !.files = b, !.at = at])
    BY <1>5, <2>3
  <2> HIDE DEF z, b, at
  <2>5. Sound(conf, y) /\ Kept(x, y)
    BY <1>1, <2>1, <2>2, ArgumentsRefused
  <2>6. [q(body) EXCEPT !.answers = z, !.files = b, !.at = at] = y
    BY <1>1 DEF Sound, RequestType
  <2> QED
    BY <1>1, <2>4, <2>5, <2>6, UpdateKept
<1>6. ASSUME NEW how \in Panics, Update(r, Panicked(q(body), how)) PROVE RequestInv'
  <2> DEFINE b == body.spooled /\ x.route.tx
             t == IF x.tx = "open" THEN "rolled back" ELSE x.tx
             z == x.answers
             y == [x EXCEPT !.answers = z, !.panicking = how, !.files = b, !.tx = t,
                            !.at = "complete"]
  <2>1. b \in BOOLEAN /\ (b => x.route.tx) /\ how \in {"panic", "abort"}
    BY DEF b, Panics
  <2>2. (x.tx = "open" /\ t = "rolled back") \/ (x.tx # "open" /\ t = x.tx)
    OBVIOUS
  <2>3. q(body).files = body.spooled /\ q(body).route = x.route /\ q(body).tx = x.tx
    BY <1>1 DEF Sound, RequestType
  <2>4. Update(r, [q(body) EXCEPT !.panicking = how, !.files = b, !.tx = t, !.at = "complete"])
    BY <1>6, <2>3 DEF Panicked
  <2> HIDE DEF b, t
  <2>5. [q(body) EXCEPT !.panicking = how, !.files = b, !.tx = t, !.at = "complete"] = y
    BY <1>1 DEF Sound, RequestType
  <2>6. Unfinished(z)
    BY <1>1, NoAnswer DEF Sound, RequestType, Answering, Unfinished
  <2> HIDE DEF z
  <2>7. Sound(conf, y) /\ Kept(x, y)
    <3>1. Sound(conf, x) /\ x.at \in {"resolve", "respond"}
      BY <1>1
    <3> HIDE DEF x
    <3> QED
      BY <2>1, <2>2, <2>6, <3>1, WorkPanicked
  <2> QED
    BY <1>1, <2>4, <2>5, <2>7, UpdateKept
<1> QED
  BY <1>2, <1>4, <1>5, <1>6

LEMMA CallStep ==
  ASSUME RequestInv, NEW r \in Requests, Call(r)
  PROVE  RequestInv'
<1> DEFINE x == req[r]
<1>1. Sound(conf, x) /\ x.at = "call" /\ UNCHANGED <<conf, stateVars>>
  BY DEF RequestInv, Call, At
<1>2. GetUser(r) = x.user
  BY <1>1, OwnState DEF Working
<1>3. PICK listener \in {"none", "running"}, at \in {"respond", "fail"} \cup Panics :
        LET q == [x EXCEPT !.seen = x.seen \cup {GetUser(r)}, !.listener = listener]
        IN Update(r,
             CASE at = "respond" -> [q EXCEPT !.at = "respond"]
               [] at = "fail" /\ q.route.tx -> [q EXCEPT !.at = "rollback"]
               [] at = "fail" /\ ~q.route.tx ->
                    [q EXCEPT !.answers = Append(q.answers, "error"), !.files = FALSE, !.at = "post"]
               [] at \in Panics -> Panicked(q, at))
  BY DEF Call
<1> DEFINE q == [x EXCEPT !.seen = x.seen \cup {GetUser(r)}, !.listener = listener]
<1>4. q.route = x.route /\ q.answers = x.answers /\ q.tx = x.tx /\ q.files = x.files
  BY <1>1 DEF Sound, RequestType
<1>5. CASE at = "respond"
  <2> DEFINE y == [x EXCEPT !.seen = x.seen \cup {x.user}, !.listener = listener, !.at = "respond"]
  <2>1. Update(r, [q EXCEPT !.at = "respond"])
    BY <1>3, <1>5 DEF Panics
  <2>2. [q EXCEPT !.at = "respond"] = y
    BY <1>1, <1>2 DEF Sound, RequestType
  <2>3. Sound(conf, y) /\ Kept(x, y)
    BY <1>1, Called
  <2> QED
    BY <1>1, <2>1, <2>2, <2>3, UpdateKept
<1>6. CASE at = "fail" /\ x.route.tx
  <2> DEFINE y == [x EXCEPT !.seen = x.seen \cup {x.user}, !.listener = listener, !.at = "rollback"]
  <2>1. Update(r, [q EXCEPT !.at = "rollback"])
    BY <1>3, <1>4, <1>6 DEF Panics
  <2>2. [q EXCEPT !.at = "rollback"] = y
    BY <1>1, <1>2 DEF Sound, RequestType
  <2>3. Sound(conf, y) /\ Kept(x, y)
    BY <1>1, <1>6, Called
  <2> QED
    BY <1>1, <2>1, <2>2, <2>3, UpdateKept
<1>7. CASE at = "fail" /\ ~x.route.tx
  <2> DEFINE z == Append(x.answers, "error")
  <2>1. z \in Seq(Answers) /\ z # <<>> /\ Len(z) <= 1
    BY <1>1, FirstAnswer DEF Answers
  <2>2. Update(r, [q EXCEPT !.answers = z, !.files = FALSE, !.at = "post"])
    BY <1>3, <1>4, <1>7 DEF Panics
  <2> HIDE DEF z
  <2> DEFINE y == [x EXCEPT !.seen = x.seen \cup {x.user}, !.listener = listener, !.answers = z,
                            !.files = FALSE, !.at = "post"]
  <2>3. [q EXCEPT !.answers = z, !.files = FALSE, !.at = "post"] = y
    BY <1>1, <1>2 DEF Sound, RequestType
  <2>4. Sound(conf, y) /\ Kept(x, y)
    BY <1>1, <1>7, <2>1, CallFailed
  <2> QED
    BY <1>1, <2>2, <2>3, <2>4, UpdateKept
<1>8. CASE at \in Panics
  <2> DEFINE b == x.files /\ x.route.tx
             t == IF x.tx = "open" THEN "rolled back" ELSE x.tx
  <2>1. b \in BOOLEAN /\ (b => x.route.tx) /\ at \in {"panic", "abort"}
    BY <1>8 DEF b, Panics
  <2>2. (x.tx = "open" /\ t = "rolled back") \/ (x.tx # "open" /\ t = x.tx)
    OBVIOUS
  <2>3. Update(r, [q EXCEPT !.panicking = at, !.files = b, !.tx = t, !.at = "complete"])
    BY <1>3, <1>4, <1>8 DEF Panicked, Panics
  <2> HIDE DEF b, t
  <2> DEFINE y == [x EXCEPT !.seen = x.seen \cup {x.user}, !.listener = listener, !.panicking = at,
                            !.files = b, !.tx = t, !.at = "complete"]
  <2>4. [q EXCEPT !.panicking = at, !.files = b, !.tx = t, !.at = "complete"] = y
    BY <1>1, <1>2 DEF Sound, RequestType
  <2>5. Sound(conf, y) /\ Kept(x, y)
    <3>1. /\ Sound(conf, x) /\ x.at = "call"
          /\ listener \in {"none", "running"} /\ at \in {"panic", "abort"}
      BY <1>1, <2>1
    <3> HIDE DEF x
    <3> QED
      BY <2>1, <2>2, <3>1, CallPanicked
  <2> QED
    BY <1>1, <2>3, <2>4, <2>5, UpdateKept
<1> QED
  BY <1>5, <1>6, <1>7, <1>8

LEMMA RespondStep ==
  ASSUME RequestInv, NEW r \in Requests, Respond(r)
  PROVE  RequestInv'
<1> DEFINE x == req[r]
<1>1. Sound(conf, x) /\ x.at = "respond" /\ UNCHANGED <<conf, stateVars>>
  BY DEF RequestInv, Respond, At
<1>2. CASE WriteResponse(r) /\ x.route.tx
  <2> DEFINE z == Append(x.answers, "success")
  <2>1. z \in Seq(Answers) /\ z # <<>> /\ Len(z) <= 1 /\ x.answers \o <<"success">> = z
    BY <1>1, <1>2, FirstAnswer DEF Answers, Entering, Outside
  <2> DEFINE y == [x EXCEPT !.answers = z, !.at = "commit"]
  <2> HIDE DEF z
  <2>2. Sound(conf, y) /\ Kept(x, y)
    BY <1>1, <1>2, <2>1, Responded
  <2>3. Update(r, y)
    BY <1>2, <2>1 DEF WriteResponse, Answer, z
  <2> QED
    BY <1>1, <2>2, <2>3, UpdateKept
<1>3. CASE WriteResponse(r) /\ ~x.route.tx
  <2> DEFINE z == Append(x.answers, "success")
  <2>1. z \in Seq(Answers) /\ z # <<>> /\ Len(z) <= 1 /\ x.answers \o <<"success">> = z
    BY <1>1, <1>3, FirstAnswer DEF Answers, Entering, Outside
  <2> DEFINE b == x.files /\ x.route.tx
  <2>2. b \in BOOLEAN /\ (b => x.route.tx)
    BY DEF b
  <2> DEFINE y == [x EXCEPT !.answers = z, !.files = b, !.at = "post"]
  <2> HIDE DEF z, b
  <2>3. Sound(conf, y) /\ Kept(x, y)
    BY <1>1, <1>3, <2>1, <2>2, Left
  <2>4. Update(r, y)
    BY <1>3, <2>1, <2>2 DEF WriteResponse, Leave, FilesAfter, z, b
  <2> QED
    BY <1>1, <2>3, <2>4, UpdateKept
<1>4. ASSUME NEW how \in Panics,
             Update(r, Panicked([x EXCEPT !.answers = Append(x.answers, "cut")], how))
      PROVE  RequestInv'
  <2> DEFINE z == Append(x.answers, "cut")
             b == x.files /\ x.route.tx
             t == IF x.tx = "open" THEN "rolled back" ELSE x.tx
             q == [x EXCEPT !.answers = z]
             y == [x EXCEPT !.answers = z, !.panicking = how, !.files = b, !.tx = t,
                            !.at = "complete"]
  <2>1. Unfinished(z)
    <3>1. x.answers = <<>>
      BY <1>1 DEF Sound, Answering
    <3>2. Append(<<>>, "cut") = <<"cut">>
      OBVIOUS
    <3> QED
      BY <3>1, <3>2, CutAnswer DEF Unfinished
  <2>2. b \in BOOLEAN /\ (b => x.route.tx) /\ how \in {"panic", "abort"}
    BY DEF b, Panics
  <2>3. (x.tx = "open" /\ t = "rolled back") \/ (x.tx # "open" /\ t = x.tx)
    OBVIOUS
  <2> HIDE DEF z
  <2>4. q.files = x.files /\ q.route = x.route /\ q.tx = x.tx
    BY <1>1 DEF Sound, RequestType
  <2>5. Update(r, [q EXCEPT !.panicking = how, !.files = b, !.tx = t, !.at = "complete"])
    BY <1>4, <2>4 DEF Panicked, z
  <2> HIDE DEF b, t
  <2>6. [q EXCEPT !.panicking = how, !.files = b, !.tx = t, !.at = "complete"] = y
    BY <1>1 DEF Sound, RequestType
  <2>7. Sound(conf, y) /\ Kept(x, y)
    <3>1. /\ Sound(conf, x) /\ x.at \in {"resolve", "respond"} /\ Unfinished(z)
          /\ b \in BOOLEAN /\ (b => x.route.tx) /\ how \in {"panic", "abort"}
          /\ (x.tx = "open" /\ t = "rolled back") \/ (x.tx # "open" /\ t = x.tx)
      BY <1>1, <2>1, <2>2, <2>3
    <3> HIDE DEF x, q
    <3> QED
      BY <3>1, WorkPanicked
  <2> QED
    BY <1>1, <2>5, <2>6, <2>7, UpdateKept
<1> QED
  BY <1>2, <1>3, <1>4 DEF Respond

LEMMA EndStep ==
  ASSUME RequestInv, NEW r \in Requests, EndTransaction(r)
  PROVE  RequestInv'
<1> DEFINE x == req[r]
<1>1. Sound(conf, x) /\ x.at \in {"commit", "rollback"} /\ UNCHANGED <<conf, stateVars>>
  BY DEF RequestInv, EndTransaction, At
<1>2. CASE x.at = "commit" /\ Update(r, [x EXCEPT !.tx = "committed", !.at = "post"])
  <2> DEFINE y == [x EXCEPT !.tx = "committed", !.at = "post"]
  <2>1. Sound(conf, y) /\ Kept(x, y)
    BY <1>1, <1>2, TxCommitted
  <2> QED
    BY <1>1, <1>2, <2>1, UpdateKept
<1>3. CASE Update(r, [x EXCEPT !.tx = "rolled back", !.answers = Append(x.answers, "error"),
                               !.at = "post"])
  <2> DEFINE z == Append(x.answers, "error")
             y == [x EXCEPT !.tx = "rolled back", !.answers = z, !.at = "post"]
  <2>1. z \in Seq(Answers) /\ z # <<>> /\ Last(z) = "error" /\ Len(z) <= 2
    BY <1>1, SecondAnswer DEF Answers
  <2>2. Update(r, y)
    BY <1>3
  <2> HIDE DEF z
  <2>3. Sound(conf, y) /\ Kept(x, y)
    BY <1>1, <2>1, TxRolledBack
  <2> QED
    BY <1>1, <2>2, <2>3, UpdateKept
<1> QED
  BY <1>2, <1>3 DEF EndTransaction, At

LEMMA PostHandleStep ==
  ASSUME RequestInv, NEW r \in Requests, PostHandle(r)
  PROVE  RequestInv'
<1> DEFINE x == req[r]
<1>1. Sound(conf, x) /\ x.at = "post" /\ UNCHANGED <<conf, stateVars>>
  BY DEF RequestInv, PostHandle, At
<1>2. Completed(r) = Ran(conf, x) /\ Completed(r) \in [DOMAIN conf.interceptors -> Nat]
  BY RanIsCompleted
<1>3. CASE Update(r, [x EXCEPT !.after = Completed(r), !.at = "recover"])
  <2> DEFINE y == [x EXCEPT !.after = Completed(r), !.at = "recover"]
  <2>1. Sound(conf, y) /\ Kept(x, y)
    BY <1>1, <1>2, Completes
  <2> QED
    BY <1>1, <1>3, <2>1, UpdateKept
<1>4. CASE Update(r, [x EXCEPT !.panicking = "panic", !.at = "complete"])
  <2> DEFINE y == [x EXCEPT !.panicking = "panic", !.at = "complete"]
  <2>1. Sound(conf, y) /\ Kept(x, y)
    BY <1>1, PostHandlePanicked
  <2> QED
    BY <1>1, <1>4, <2>1, UpdateKept
<1>5. ASSUME NEW k \in 1..x.pre,
             Update(r, [x EXCEPT !.panicking = "panic", !.faulty = TRUE, !.at = "complete",
               !.after = [i \in DOMAIN conf.interceptors |->
                 x.after[i] + IF \E j \in k..x.pre : Matched(r)[j] = i THEN 1 ELSE 0]])
      PROVE  RequestInv'
  <2> DEFINE P(i) == \E j \in k..x.pre : Matched(r)[j] = i
             f == [i \in DOMAIN conf.interceptors |-> x.after[i] + IF P(i) THEN 1 ELSE 0]
             y == [x EXCEPT !.panicking = "panic", !.faulty = TRUE, !.at = "complete", !.after = f]
  <2>1. x.after \in [DOMAIN conf.interceptors -> Nat]
    BY <1>1 DEF Sound, RequestType
  <2>2. Update(r, y)
    BY <1>5
  <2> HIDE DEF P
  <2>3. ASSUME NEW i \in DOMAIN conf.interceptors
        PROVE  x.after[i] + (IF P(i) THEN 1 ELSE 0) \in Nat
    BY <2>1
  <2>4. f \in [DOMAIN conf.interceptors -> Nat]
    BY <2>3
  <2> HIDE DEF f
  <2>5. Sound(conf, y) /\ Kept(x, y)
    BY <1>1, <2>4, AfterCompletionPanicked
  <2> QED
    BY <1>1, <2>2, <2>5, UpdateKept
<1> QED
  BY <1>3, <1>4, <1>5 DEF PostHandle

LEMMA DeferredStep ==
  ASSUME RequestInv, NEW r \in Requests, runDeferredAfterCompletion(r)
  PROVE  RequestInv'
<1> DEFINE x == req[r]
<1>1. Sound(conf, x) /\ x.at = "complete" /\ UNCHANGED <<conf, stateVars>>
  BY DEF RequestInv, runDeferredAfterCompletion, At
<1> DEFINE y == [x EXCEPT !.after = Completed(r), !.at = "recover"]
<1>2. Completed(r) = Ran(conf, x) /\ Completed(r) \in [DOMAIN conf.interceptors -> Nat]
  BY RanIsCompleted
<1>3. Sound(conf, y) /\ Kept(x, y)
  BY <1>1, <1>2, Completes
<1>4. Update(r, y)
  BY DEF runDeferredAfterCompletion
<1> QED
  BY <1>1, <1>3, <1>4, UpdateKept

LEMMA RecovererStep ==
  ASSUME RequestInv, NEW r \in Requests, Recoverer(r)
  PROVE  RequestInv'
<1> DEFINE x == req[r]
<1>1. Sound(conf, x) /\ x.at = "recover" /\ UNCHANGED <<conf, stateVars>>
  BY DEF RequestInv, Recoverer, At
<1> DEFINE z == IF x.panicking = "panic" /\ x.answers = <<>> THEN <<"error">> ELSE x.answers
           p == IF x.panicking = "abort" THEN x.panicking ELSE "no"
           at == IF x.state # Nil /\ x.panicking # "abort" THEN "release" ELSE "destroy"
           y == [x EXCEPT !.answers = z, !.panicking = p, !.at = at]
<1>2. x.answers \in Seq(Answers)
  BY <1>1 DEF Sound, RequestType
<1>3. \/ z = x.answers /\ (x.panicking = "panic" => z # <<>>)
      \/ x.panicking = "panic" /\ z = <<"error">>
  OBVIOUS
<1>4. /\ <<"error">> \in Seq(Answers) /\ <<"error">> # <<>>
      /\ Len(<<"error">>) <= 1 /\ Last(<<"error">>) = "error"
  BY OneAnswer
<1>5. z \in Seq(Answers)
  BY <1>2, <1>3, <1>4
<1>6. \/ z = x.answers /\ (x.panicking = "panic" => z # <<>>)
      \/ x.panicking = "panic" /\ z # <<>> /\ Len(z) <= 1 /\ Last(z) = "error"
  BY <1>3, <1>4
<1>7. (x.panicking = "abort" /\ p = "abort") \/ (x.panicking # "abort" /\ p = "no")
  OBVIOUS
<1>8. \/ x.state # Nil /\ x.panicking # "abort" /\ at = "release"
      \/ ~(x.state # Nil /\ x.panicking # "abort") /\ at = "destroy"
  OBVIOUS
<1>9. Update(r, y)
  BY DEF Recoverer
<1>10. Sound(conf, y) /\ Kept(x, y)
  <2> HIDE DEF z, p, at, x
  <2> QED
    BY <1>1, <1>5, <1>6, <1>7, <1>8, RecovererReturned
<1> HIDE DEF y
<1> QED
  BY <1>1, <1>9, <1>10, UpdateKept

LEMMA DestroyStep ==
  ASSUME RequestInv, NEW r \in Requests, DestroyRequestRegistry(r)
  PROVE  RequestInv'
<1> DEFINE x == req[r]
<1>1. Sound(conf, x) /\ x.at = "destroy" /\ UNCHANGED <<conf, stateVars>>
  BY DEF RequestInv, DestroyRequestRegistry, At
<1> DEFINE at == IF x.panicking = "abort" THEN "end" ELSE "capture"
           y == [x EXCEPT !.scoped = FALSE, !.at = at]
<1>2. (x.panicking = "abort" /\ at = "end") \/ (x.panicking # "abort" /\ at = "capture")
  OBVIOUS
<1>3. Update(r, y)
  BY DEF DestroyRequestRegistry
<1> HIDE DEF at
<1>4. Sound(conf, y) /\ Kept(x, y)
  BY <1>1, <1>2, Destroyed
<1> QED
  BY <1>1, <1>3, <1>4, UpdateKept

LEMMA CaptureStep ==
  ASSUME RequestInv, NEW r \in Requests, captureHTTPSpan(r)
  PROVE  RequestInv'
<1> DEFINE x == req[r]
<1>1. Sound(conf, x) /\ x.at = "capture" /\ UNCHANGED <<conf, stateVars>>
  BY DEF RequestInv, captureHTTPSpan, At
<1>2. Sound(conf, [x EXCEPT !.at = "end"]) /\ Kept(x, [x EXCEPT !.at = "end"])
  BY <1>1, Moved
<1> QED
  BY <1>1, <1>2, UpdateKept DEF captureHTTPSpan, Go

LEMMA ListenStep ==
  ASSUME RequestInv, NEW r \in Requests, Listen(r)
  PROVE  RequestInv'
<1> DEFINE x == req[r]
<1>1. Sound(conf, x) /\ x.listener = "running" /\ UNCHANGED <<conf, stateVars>>
  BY DEF RequestInv, Listen, At
<1> DEFINE u == GetUser(r)
           y == [x EXCEPT !.listener = "done", !.heard = x.heard \cup {u}]
<1>2. x.state \in States \cup {Nil} /\ x.user \in Requests \cup {Nil}
  BY <1>1 DEF Sound, RequestType
<1>3. u \in Requests \cup {Nil}
  BY <1>2 DEF GetUser, RequestInv, PoolTypes
<1>4. ~conf.optimized => u = x.user
  BY <1>1 DEF GetUser, Sound, Knowing
<1>5. Update(r, y)
  BY DEF Listen
<1> HIDE DEF u
<1>6. Sound(conf, y) /\ Kept(x, y)
  BY <1>1, <1>3, <1>4, Listened
<1> QED
  BY <1>1, <1>5, <1>6, UpdateKept

\* A request that enters the handlers with a state takes it out of the pool.
LEMMA AcquireStep ==
  ASSUME RequestInv, NEW r \in Requests, AcquireRequestState(r)
  PROVE  RequestInv'
<1> DEFINE x == req[r]
<1>1. Sound(conf, x) /\ x.at = "acquire" /\ conf' = conf /\ holder' = holder
  BY DEF RequestInv, AcquireRequestState, At
<1>2. PICK s \in States :
        /\ \A q \in Requests \ {r} : req[q].state = s => s \in free
        /\ free' = free \ {s}
        /\ Update(r, [x EXCEPT !.state = s, !.at = "pre"])
  BY DEF AcquireRequestState
<1> DEFINE y == [x EXCEPT !.state = s, !.at = "pre"]
<1>3. Sound(conf, y)
  BY <1>1, Acquired
<1>4. y.state = s /\ y.at = "pre" /\ y.user = Nil /\ x.state = Nil
  BY <1>1 DEF Sound, RequestType, Knowing, Entering, Outside
<1>5. Update(r, y)
  BY <1>2
<1> HIDE DEF y
<1>6. /\ DOMAIN req' = Requests /\ req'[r] = y
      /\ \A q \in Requests \ {r} : req'[q] = req[q]
      /\ \A q \in Requests : Sound(conf', req'[q])
  BY <1>1, <1>3, <1>5, Updated
<1>7. Pooled /\ PoolTypes /\ s # Nil
  BY Nowhere DEF RequestInv
<1>8. \A q \in Requests \ {r} : Held(req[q]) => req[q].state # s
  BY <1>2, <1>7 DEF Pooled
<1>9. holder[s] = Nil
  <2>1. CASE s \in free
    BY <1>7, <2>1 DEF Pooled
  <2>2. CASE s \notin free
    <3>1. \A q \in Requests : req[q].state # s
      BY <1>2, <1>4, <1>7, <2>2
    <3> QED
      BY <1>7, <3>1 DEF Pooled
  <2> QED
    BY <2>1, <2>2
<1>10. Pooled'
  <2>1. ASSUME NEW q \in Requests, Held(req'[q])
        PROVE  /\ req'[q].state \notin free' /\ holder'[req'[q].state] = req'[q].user
               /\ \A p \in Requests \ {q} : req'[p].state = req'[q].state => ~Held(req'[p])
    <3>1. CASE q = r
      BY <1>1, <1>2, <1>4, <1>6, <1>8, <1>9, <3>1
    <3>2. CASE q # r
      <4>1. req'[q] = req[q] /\ Held(req[q]) /\ req[q].state # s
        BY <1>6, <1>8, <2>1, <3>2
      <4>2. /\ req[q].state \notin free /\ holder[req[q].state] = req[q].user
            /\ \A p \in Requests \ {q} : req[p].state = req[q].state => ~Held(req[p])
        BY <1>7, <4>1 DEF Pooled
      <4> QED
        BY <1>1, <1>2, <1>4, <1>6, <4>1, <4>2
    <3> QED
      BY <3>1, <3>2
  <2>2. \A t \in free' : holder'[t] = Nil
    BY <1>1, <1>2, <1>7 DEF Pooled
  <2>3. ASSUME NEW t \in States, \A q \in Requests : req'[q].state # t
        PROVE  holder'[t] = Nil
    <3>1. \A q \in Requests : req[q].state # t
      BY <1>4, <1>6, <2>3, Nowhere
    <3> QED
      BY <1>1, <1>7, <3>1 DEF Pooled
  <2>4. ASSUME NEW q \in Requests, Released(req'[q])
        PROVE  req'[q].state \in free' \/ \E p \in Requests \ {q} : req'[p].state = req'[q].state
    <3>1. q # r
      BY <1>4, <1>6, <2>4 DEF Released, Gone
    <3>2. req'[q] = req[q] /\ Released(req[q])
      BY <1>6, <2>4, <3>1
    <3>3. req[q].state \in free \/ \E p \in Requests \ {q} : req[p].state = req[q].state
      BY <1>7, <3>2 DEF Pooled
    <3>4. CASE req[q].state = s
      BY <1>4, <1>6, <3>1, <3>2, <3>4
    <3>5. CASE req[q].state # s /\ req[q].state \in free
      BY <1>2, <3>2, <3>5
    <3>6. ASSUME NEW p \in Requests \ {q}, req[p].state = req[q].state
          PROVE  \E o \in Requests \ {q} : req'[o].state = req'[q].state
      <4>1. p # r
        BY <1>4, <3>2, <3>6 DEF Released
      <4> QED
        BY <1>6, <3>2, <3>6, <4>1
    <3> QED
      BY <3>3, <3>4, <3>5, <3>6
  <2> QED
    BY <2>1, <2>2, <2>3, <2>4 DEF Pooled
<1>11. PoolTypes'
  BY <1>1, <1>2, <1>6, <1>7 DEF PoolTypes
<1> QED
  BY <1>6, <1>10, <1>11 DEF RequestInv

\* The identity goes into the state the request holds, which no other holds.
LEMMA AuthStep ==
  ASSUME RequestInv, NEW r \in Requests, AuthMiddleware(r)
  PROVE  RequestInv'
<1> DEFINE x == req[r]
<1>1. Sound(conf, x) /\ x.at = "auth" /\ conf' = conf /\ free' = free
  BY DEF RequestInv, AuthMiddleware, At
<1>2. CASE Go(r, "authorize") /\ UNCHANGED holder
  <2>1. Sound(conf, [x EXCEPT !.at = "authorize"]) /\ Kept(x, [x EXCEPT !.at = "authorize"])
    BY <1>1, Moved
  <2> QED
    BY <1>1, <1>2, <2>1, UpdateKept DEF Go, stateVars
<1>3. CASE HandleError(r, "post") /\ UNCHANGED holder
  <2> DEFINE z == Append(x.answers, "error")
  <2>1. z \in Seq(Answers) /\ z # <<>> /\ Len(z) <= 1
    BY <1>1, FirstAnswer DEF Answers, Entering
  <2> DEFINE y == [x EXCEPT !.answers = z, !.at = "post"]
  <2>2. Update(r, y)
    BY <1>3 DEF HandleError, Answer
  <2> HIDE DEF z
  <2>3. Sound(conf, y) /\ Kept(x, y)
    BY <1>1, <2>1, Unauthenticated
  <2> QED
    BY <1>1, <1>3, <2>2, <2>3, UpdateKept DEF stateVars
<1>4. ASSUME Update(r, [x EXCEPT !.user = r, !.at = "authorize"]),
             holder' = [s \in States |-> IF s = x.state THEN r ELSE holder[s]]
      PROVE  RequestInv'
  <2> DEFINE y == [x EXCEPT !.user = r, !.at = "authorize"]
  <2>1. Sound(conf, y)
    BY <1>1, Authenticated
  <2>2. y.state = x.state /\ y.at = "authorize" /\ y.user = r /\ x.state \in States \cup {Nil}
    BY <1>1 DEF Sound, RequestType
  <2>3. Update(r, y)
    BY <1>4
  <2> HIDE DEF y
  <2>4. /\ DOMAIN req' = Requests /\ req'[r] = y
        /\ \A q \in Requests \ {r} : req'[q] = req[q]
        /\ \A q \in Requests : Sound(conf', req'[q])
    BY <1>1, <2>1, <2>3, Updated
  <2>5. Pooled /\ PoolTypes
    BY DEF RequestInv
  <2>6. \A q \in Requests : Held(req'[q]) => Held(req[q])
    BY <1>1, <2>2, <2>4 DEF Held
  <2>7. \A q \in Requests : Released(req'[q]) => Released(req[q])
    BY <2>2, <2>4 DEF Released, Gone
  <2>8. \A q \in Requests : req'[q].state = req[q].state
    BY <2>2, <2>4
  <2>9. x.state # Nil => Held(x)
    BY <1>1 DEF Held
  <2>10. \A s \in States : s # x.state => holder'[s] = holder[s]
    BY <1>4
  <2>11. Pooled'
    <3>1. ASSUME NEW q \in Requests, Held(req'[q])
          PROVE  /\ req'[q].state \notin free' /\ holder'[req'[q].state] = req'[q].user
                 /\ \A p \in Requests \ {q} : req'[p].state = req'[q].state => ~Held(req'[p])
      <4>1. /\ req[q].state \notin free /\ holder[req[q].state] = req[q].user
            /\ \A p \in Requests \ {q} : req[p].state = req[q].state => ~Held(req[p])
            /\ req[q].state # Nil
        BY <2>5, <2>6, <3>1 DEF Pooled, Held
      <4>2. req[q].state \in States
        BY <4>1 DEF RequestInv, Sound, RequestType
      <4>3. holder'[req'[q].state] = req'[q].user
        <5>1. CASE q = r
          BY <1>4, <2>2, <2>4, <4>2, <5>1
        <5>2. CASE q # r
          <6>1. Held(req[q]) /\ req'[q] = req[q]
            BY <2>4, <2>6, <3>1, <5>2
          <6>2. req[q].state # x.state
            BY <2>5, <2>9, <4>1, <5>2, <6>1
          <6> QED
            BY <2>10, <4>1, <4>2, <6>1, <6>2
        <5> QED
          BY <5>1, <5>2
      <4> QED
        BY <1>1, <2>6, <2>8, <4>1, <4>3
    <3>2. ASSUME NEW s \in free' PROVE holder'[s] = Nil
      <4>1. s \in States /\ s \in free /\ s # Nil /\ holder[s] = Nil
        BY <1>1, <2>5, Nowhere DEF Pooled, PoolTypes
      <4>2. s # x.state
        BY <2>5, <2>9, <4>1 DEF Pooled
      <4> QED
        BY <2>10, <4>1, <4>2
    <3>3. ASSUME NEW s \in States, \A q \in Requests : req'[q].state # s
          PROVE  holder'[s] = Nil
      <4>1. \A q \in Requests : req[q].state # s
        BY <2>8, <3>3
      <4> QED
        BY <2>5, <2>10, <4>1 DEF Pooled
    <3>4. \A q \in Requests : Released(req'[q]) =>
            req'[q].state \in free' \/ \E p \in Requests \ {q} : req'[p].state = req'[q].state
      BY <1>1, <2>5, <2>7, <2>8 DEF Pooled
    <3> QED
      BY <3>1, <3>2, <3>3, <3>4 DEF Pooled
  <2>12. PoolTypes'
    BY <1>1, <1>4, <2>4, <2>5 DEF PoolTypes
  <2> QED
    BY <2>4, <2>11, <2>12 DEF RequestInv
<1> QED
  BY <1>2, <1>3, <1>4 DEF AuthMiddleware

\* A state goes back without the identity.
LEMMA ReleaseStep ==
  ASSUME RequestInv, NEW r \in Requests, ReleaseRequestState(r)
  PROVE  RequestInv'
<1> DEFINE x == req[r]
           y == [x EXCEPT !.at = "destroy"]
<1>1. Sound(conf, x) /\ x.at = "release" /\ conf' = conf
  BY DEF RequestInv, ReleaseRequestState, At
<1>2. free' = free \cup {x.state} /\ holder' = [holder EXCEPT ![x.state] = Nil] /\ Update(r, y)
  BY DEF ReleaseRequestState, Go
<1>3. Sound(conf, y)
  BY <1>1, GaveBack
<1>4. y.state = x.state /\ y.at = "destroy" /\ x.state \in States /\ x.state # Nil
  BY <1>1 DEF Sound, RequestType, Knowing
<1> HIDE DEF y
<1>5. /\ DOMAIN req' = Requests /\ req'[r] = y
      /\ \A q \in Requests \ {r} : req'[q] = req[q]
      /\ \A q \in Requests : Sound(conf', req'[q])
  BY <1>1, <1>2, <1>3, Updated
<1>6. Pooled /\ PoolTypes
  BY DEF RequestInv
<1>7. Held(x)
  BY <1>1, <1>4 DEF Held
<1>8. \A q \in Requests : Held(req'[q]) => q # r /\ Held(req[q])
  BY <1>4, <1>5 DEF Held, Working
<1>9. \A q \in Requests : req'[q].state = req[q].state
  BY <1>4, <1>5
<1>10. /\ \A s \in States : s # x.state => holder'[s] = holder[s]
       /\ holder'[x.state] = Nil
  BY <1>2, <1>4, <1>6 DEF PoolTypes
<1>11. Pooled'
  <2>1. ASSUME NEW q \in Requests, Held(req'[q])
        PROVE  /\ req'[q].state \notin free' /\ holder'[req'[q].state] = req'[q].user
               /\ \A p \in Requests \ {q} : req'[p].state = req'[q].state => ~Held(req'[p])
    <3>1. q # r /\ req'[q] = req[q] /\ Held(req[q])
      BY <1>5, <1>8, <2>1
    <3>2. /\ req[q].state \notin free /\ holder[req[q].state] = req[q].user
          /\ \A p \in Requests \ {q} : req[p].state = req[q].state => ~Held(req[p])
          /\ req[q].state # Nil
      BY <1>6, <3>1 DEF Pooled, Held
    <3>3. req[q].state # x.state
      BY <1>7, <3>1, <3>2
    <3>4. req[q].state \in States
      BY <3>2 DEF RequestInv, Sound, RequestType
    <3> QED
      BY <1>2, <1>8, <1>9, <1>10, <3>1, <3>2, <3>3, <3>4
  <2>2. \A s \in free' : holder'[s] = Nil
    BY <1>2, <1>4, <1>6, <1>10 DEF Pooled, PoolTypes
  <2>3. \A s \in States : (\A q \in Requests : req'[q].state # s) => holder'[s] = Nil
    BY <1>6, <1>9, <1>10 DEF Pooled
  <2>4. ASSUME NEW q \in Requests, Released(req'[q])
        PROVE  req'[q].state \in free' \/ \E p \in Requests \ {q} : req'[p].state = req'[q].state
    <3>1. CASE q = r
      BY <1>2, <1>9, <3>1
    <3>2. CASE q # r
      <4>1. Released(req[q])
        BY <1>5, <2>4, <3>2
      <4>2. req[q].state \in free \/ \E p \in Requests \ {q} : req[p].state = req[q].state
        BY <1>6, <4>1 DEF Pooled
      <4> QED
        BY <1>2, <1>9, <4>2
    <3> QED
      BY <3>1, <3>2
  <2> QED
    BY <2>1, <2>2, <2>3, <2>4 DEF Pooled
<1>12. PoolTypes'
  BY <1>2, <1>4, <1>5, <1>6 DEF PoolTypes
<1> QED
  BY <1>5, <1>11, <1>12 DEF RequestInv

LEMMA StutterKeeps ==
  ASSUME RequestInv, UNCHANGED <<conf, req, stateVars>>
  PROVE  RequestInv'
BY DEF RequestInv, Pooled, PoolTypes, stateVars

-----------------------------------------------------------------------------
(* Request: the theorems.                                                  *)

LEMMA InitHolds == Init => RequestInv
<1> SUFFICES ASSUME Init PROVE RequestInv
  OBVIOUS
<1>1. DOMAIN req = Requests /\ holder = [s \in States |-> Nil] /\ free = {}
  BY DEF Init
<1>2. ASSUME NEW r \in Requests
      PROVE  /\ req[r].at = "new" /\ req[r].route = Nil /\ req[r].user = Nil
             /\ req[r].answers = <<>> /\ req[r].pre = 0
             /\ req[r].after = [i \in DOMAIN conf.interceptors |-> 0]
             /\ req[r].panicking = "no" /\ req[r].tx = "none" /\ ~req[r].files /\ ~req[r].scoped
             /\ req[r].state = Nil /\ req[r].listener = "none"
             /\ req[r].seen = {} /\ req[r].heard = {}
             /\ req[r] \in RequestType(conf)
  BY DEF Init, RequestType, Entering, Outside
<1>3. ASSUME NEW r \in Requests PROVE Sound(conf, req[r])
  BY <1>2 DEF Sound, Passing, Holding, Answering, Knowing, Entering, Outside, Working, Returning,
              Recovered, Gone
<1>4. Pooled
  BY <1>1, <1>2 DEF Pooled, Held, Released
<1> QED
  BY <1>1, <1>3, <1>4 DEF RequestInv, PoolTypes

LEMMA StepHolds == RequestInv /\ [Next]_vars => RequestInv'
<1> SUFFICES ASSUME RequestInv, [Next]_vars PROVE RequestInv'
  OBVIOUS
<1>1. ASSUME NEW r \in Requests, Forward(r) PROVE RequestInv'
  BY <1>1, ArriveStep, CorsStep, CsrfStep, ScopeStep, AcquireStep, PreHandleStep, AuthStep
     DEF Forward
<1>2. ASSUME NEW r \in Requests, Dispatch(r) PROVE RequestInv'
  BY <1>2, AuthorizationStep, BeginStep, ResolveStep, CallStep, RespondStep, EndStep DEF Dispatch
<1>3. ASSUME NEW r \in Requests, Back(r) PROVE RequestInv'
  BY <1>3, PostHandleStep, DeferredStep, RecovererStep, ReleaseStep, DestroyStep, CaptureStep
     DEF Back
<1>4. ASSUME NEW r \in Requests, Listen(r) PROVE RequestInv'
  BY <1>4, ListenStep
<1>5. CASE Worker \/ CloseTelemetry
  BY <1>5, StutterKeeps DEF Worker, TakeSpan, FlushTick, StopWorker, CloseTelemetry
<1>6. CASE UNCHANGED vars
  BY <1>6, StutterKeeps DEF vars
<1> QED
  BY <1>1, <1>2, <1>3, <1>4, <1>5, <1>6 DEF Next

\* The invariant holds in every state: what each request has acquired, answered and
\* learnt is what its place in the chain says, and a pooled state is with one
\* request at a time and carries its identity or none.
THEOREM RequestInvariant == Spec => []RequestInv
BY InitHolds, StepHolds, PTL DEF Spec

\* Whatever stopped it, a request that is over holds nothing, and AfterCompletion
\* ran once for each interceptor that let it pass.
THEOREM UnwoundHolds == Spec => []Unwound
<1>1. RequestInv => Unwound
  <2> SUFFICES ASSUME RequestInv, NEW r \in Requests, Over(r)
               PROVE  /\ ~req[r].scoped
                      /\ req[r].state # Nil /\ req[r].panicking # "abort" =>
                           req[r].state \in free \/ \E q \in Requests \ {r} : req[q].state = req[r].state
                      /\ req[r].tx # "open" /\ (req[r].files => req[r].route.tx)
                      /\ ~req[r].faulty => \A k \in DOMAIN conf.interceptors :
                           req[r].after[k] = IF \E j \in 1..req[r].pre : Matched(r)[j] = k THEN 1 ELSE 0
    BY DEF Unwound
  <2>1. req[r].at = "end" /\ Sound(conf, req[r]) /\ Pooled
    BY DEF Over, At, RequestInv
  <2>2. ~req[r].scoped /\ req[r].tx # "open" /\ (req[r].files => req[r].route.tx)
    BY <2>1 DEF Sound, Holding
  <2>3. req[r].state # Nil /\ req[r].panicking # "abort" =>
          req[r].state \in free \/ \E q \in Requests \ {r} : req[q].state = req[r].state
    BY <2>1 DEF Pooled, Released, Gone
  <2>4. ~req[r].faulty => \A k \in DOMAIN conf.interceptors :
          req[r].after[k] = IF \E j \in 1..req[r].pre : Matched(r)[j] = k THEN 1 ELSE 0
    BY <2>1 DEF Sound, Passing, Passed, Recovered, Gone, Matched, Path
  <2> QED
    BY <2>2, <2>3, <2>4
<1> QED
  BY <1>1, RequestInvariant, PTL

\* A controller reads the identity of its own request and no other.
THEOREM OwnIdentityHolds == Spec => []OwnIdentity
<1>1. RequestInv => OwnIdentity
  BY DEF RequestInv, Sound, Knowing, OwnIdentity
<1> QED
  BY <1>1, RequestInvariant, PTL

\* A request that is over was answered, and once, but for an abort, a transaction
\* that failed after the answer, and a success whose encoding panicked: that one is
\* cut, and its transaction rolled back without another answer.
THEOREM AnsweredHolds == Spec => []Answered
<1>1. RequestInv => Answered
  BY DEF RequestInv, Sound, Answering, Well, Answered, Over, At, Recovered, Returning, Gone
<1> QED
  BY <1>1, RequestInvariant, PTL

-----------------------------------------------------------------------------
(* Jwks.                                                                   *)

Out(t) == thread[t].at \in {"fetching", "answered"}

\* The lock is with the request whose answer is outstanding, and the client's
\* record of its last attempt agrees with what the server has seen.
IInv ==
  /\ thread = [t \in Threads |-> thread[t]]
  /\ now \in Int /\ lastAttempt \in Int
  /\ asked = lastAttempt
  /\ \A t \in Threads : Out(t) <=> fetchMu = t

LEMMA InitIInv == KeysInit => IInv
BY JwksAssumption DEF KeysInit, IInv, Out, Idle, Long

\* What a step makes of a thread, when only that thread moves.
LEMMA GoChanges ==
  ASSUME NEW t \in Threads, NEW new, thread = [u \in Threads |-> thread[u]], Turn(t, new)
  PROVE  /\ thread' = [u \in Threads |-> thread'[u]]
         /\ thread'[t] = new
         /\ \A u \in Threads \ {t} : thread'[u] = thread[u]
BY DEF Turn

\* A request that ends, the lock being free afterwards and with no one else before.
LEMMA FinishIInv ==
  ASSUME IInv, NEW t \in Threads, NEW token, NEW key, Finish(t, token, key),
         now' = now, lastAttempt' = lastAttempt, asked' = asked,
         \/ fetchMu' = fetchMu /\ ~Out(t)
         \/ fetchMu' = Nobody /\ Out(t)
  PROVE  IInv'
<1>1. Turn(t, Idle)
  BY DEF Finish
<1>2. /\ thread' = [u \in Threads |-> thread'[u]] /\ thread'[t] = Idle
      /\ \A u \in Threads \ {t} : thread'[u] = thread[u]
  BY <1>1, GoChanges DEF IInv
<1>3. ~Out(t)'
  BY <1>2 DEF Out, Idle
<1>4. \A u \in Threads \ {t} : Out(u)' = Out(u)
  BY <1>2 DEF Out
<1>5. \A u \in Threads : Out(u)' <=> fetchMu' = u
  BY <1>3, <1>4, JwksAssumption DEF IInv
<1> QED
  BY <1>2, <1>3, <1>5 DEF IInv

LEMMA FetchIInv ==
  ASSUME IInv, NEW t \in Threads, ThreadIs(t, "waiting"), fetchMu = Nobody, Fetch(t)
  PROVE  IInv'
<1> DEFINE new == [at |-> "fetching", token |-> thread[t].token, since |-> now, keys |-> {}]
<1>1. Turn(t, new)
  BY DEF Fetch
<1>2. /\ thread' = [u \in Threads |-> thread'[u]] /\ thread'[t] = new
      /\ \A u \in Threads \ {t} : thread'[u] = thread[u]
  BY <1>1, GoChanges DEF IInv
<1>3. Out(t)'
  BY <1>2 DEF Out, IInv
<1>4. \A u \in Threads \ {t} : Out(u)' = Out(u) /\ ~Out(u)
  BY <1>2, JwksAssumption DEF Out, IInv
<1>5. /\ fetchMu' = t /\ now' = now /\ lastAttempt' = now /\ asked' = now
  BY DEF Fetch
<1> QED
  BY <1>2, <1>3, <1>4, <1>5 DEF IInv

LEMMA NextIInv == IInv /\ [KeysNext]_keysVars => IInv'
<1> SUFFICES ASSUME IInv, [KeysNext]_keysVars PROVE IInv'
  OBVIOUS
<1>1. ASSUME NEW t \in Threads, NEW token \in Tokens, authenticateRequest(t, token) PROVE IInv'
  <2>1. ~Out(t)
    BY <1>1 DEF authenticateRequest, ThreadIs, Out
  <2>2. now' = now /\ lastAttempt' = lastAttempt /\ asked' = asked /\ fetchMu' = fetchMu
    BY <1>1 DEF authenticateRequest, client, server
  <2>3. CASE NeedsJwks(token, Config) /\ ~Fresh(token.kid)
    <3> DEFINE new == [at |-> "waiting", token |-> token, since |-> now, keys |-> {}]
    <3>1. Turn(t, new)
      BY <1>1, <2>3 DEF authenticateRequest
    <3>2. /\ thread' = [u \in Threads |-> thread'[u]] /\ thread'[t] = new
          /\ \A u \in Threads \ {t} : thread'[u] = thread[u]
      BY <3>1, GoChanges DEF IInv
    <3>3. ~Out(t)' /\ \A u \in Threads \ {t} : Out(u)' = Out(u)
      BY <3>2 DEF Out
    <3> QED
      BY <2>1, <2>2, <3>2, <3>3 DEF IInv
  <2>4. CASE ~(NeedsJwks(token, Config) /\ ~Fresh(token.kid))
    <3>1. Finish(t, token, Cached(token.kid))
      BY <1>1, <2>4 DEF authenticateRequest
    <3> QED
      BY <2>1, <2>2, <3>1, FinishIInv
  <2> QED
    BY <2>3, <2>4
<1>2. ASSUME NEW t \in Threads, Refresh(t) PROVE IInv'
  <2>1. CASE Fresh(thread[t].token.kid) \/ now - lastAttempt < MinInterval
    <3>1. /\ Finish(t, thread[t].token, Cached(thread[t].token.kid))
          /\ now' = now /\ lastAttempt' = lastAttempt /\ asked' = asked /\ fetchMu' = fetchMu
      BY <1>2, <2>1 DEF Refresh, client, server
    <3>2. ~Out(t)
      BY <1>2 DEF Refresh, ThreadIs, Out
    <3> QED
      BY <3>1, <3>2, FinishIInv
  <2>2. CASE ~(Fresh(thread[t].token.kid) \/ now - lastAttempt < MinInterval)
    BY <1>2, <2>2, FetchIInv DEF Refresh
  <2> QED
    BY <2>1, <2>2
<1>3. ASSUME NEW t \in Threads, Serve(t) PROVE IInv'
  <2> DEFINE new == [at |-> "answered", token |-> thread[t].token, since |-> thread[t].since,
                     keys |-> published]
  <2>1. /\ thread' = [u \in Threads |-> thread'[u]] /\ thread'[t] = new
        /\ \A u \in Threads \ {t} : thread'[u] = thread[u]
    BY <1>3, GoChanges DEF Serve, IInv
  <2>2. Out(t) /\ Out(t)'
    BY <1>3, <2>1 DEF Serve, ThreadIs, Out, IInv
  <2>3. \A u \in Threads \ {t} : Out(u)' = Out(u)
    BY <2>1 DEF Out
  <2>4. now' = now /\ lastAttempt' = lastAttempt /\ asked' = asked /\ fetchMu' = fetchMu
    BY <1>3 DEF Serve, client, server
  <2> QED
    BY <2>1, <2>2, <2>3, <2>4 DEF IInv
<1>4. ASSUME NEW t \in Threads, Replace(t) PROVE IInv'
  <2>1. /\ now' = now /\ lastAttempt' = lastAttempt /\ asked' = asked /\ fetchMu' = Nobody
        /\ \E key : Finish(t, thread[t].token, key)
    BY <1>4 DEF Replace
  <2>2. Out(t)
    BY <1>4 DEF Replace, ThreadIs, Out
  <2> QED
    BY <2>1, <2>2, FinishIInv
<1>5. ASSUME NEW t \in Threads, FetchFails(t) PROVE IInv'
  <2>1. /\ now' = now /\ lastAttempt' = lastAttempt /\ asked' = asked /\ fetchMu' = Nobody
        /\ Finish(t, thread[t].token, Cached(thread[t].token.kid)) /\ Out(t)
    BY <1>5 DEF FetchFails, Out
  <2> QED
    BY <2>1, FinishIInv
<1>6. ASSUME Publish \/ Withdraw PROVE IInv'
  BY <1>6 DEF Publish, Withdraw, client, IInv, Out
<1>7. ASSUME Tick PROVE IInv'
  BY <1>7 DEF Tick, client, server, IInv, Out
<1>8. ASSUME UNCHANGED keysVars PROVE IInv'
  BY <1>8 DEF keysVars, client, server, IInv, Out
<1> QED
  BY <1>1, <1>2, <1>3, <1>4, <1>5, <1>6, <1>7, <1>8 DEF KeysNext

\* However many requests miss the cache together, the server is asked by one at
\* a time and once per interval (GetPublicKeyWithContext).
THEOREM ServerIsSpared == KeysSpec => FetchesSpaced
<1> DEFINE Step == \A t \in Threads : ~ThreadIs(t, "fetching") /\ thread'[t].at = "fetching" =>
       /\ now - asked >= MinInterval
       /\ \A u \in Threads : thread[u].at \notin {"fetching", "answered"}
<1>1. ASSUME IInv, KeysNext PROVE Step
  <2> SUFFICES ASSUME NEW t \in Threads, ~ThreadIs(t, "fetching"), thread'[t].at = "fetching"
               PROVE  /\ now - asked >= MinInterval
                      /\ \A u \in Threads : thread[u].at \notin {"fetching", "answered"}
    OBVIOUS
  <2>1. ASSUME NEW u \in Threads, NEW token, NEW key, Finish(u, token, key) PROVE FALSE
    <3>1. thread'[u] = Idle /\ (u # t => thread'[t] = thread[t])
      BY <1>1, <2>1, GoChanges DEF Finish, IInv
    <3> QED
      BY <3>1 DEF Idle, ThreadIs
  <2>2. PICK u \in Threads : Refresh(u) /\ Fetch(u)
    <3>1. ASSUME NEW u \in Threads, NEW token \in Tokens, authenticateRequest(u, token) PROVE FALSE
      <4>1. PICK new : Turn(u, new) /\ new.at # "fetching"
        BY <3>1, <2>1 DEF authenticateRequest
      <4>2. thread'[u] = new /\ (u # t => thread'[t] = thread[t])
        BY <1>1, <4>1, GoChanges DEF IInv
      <4> QED
        BY <4>1, <4>2 DEF ThreadIs
    <3>2. ASSUME NEW u \in Threads, Serve(u) PROVE FALSE
      <4>1. PICK new : Turn(u, new) /\ new.at # "fetching"
        BY <3>2 DEF Serve
      <4>2. thread'[u] = new /\ (u # t => thread'[t] = thread[t])
        BY <1>1, <4>1, GoChanges DEF IInv
      <4> QED
        BY <4>1, <4>2 DEF ThreadIs
    <3>3. ASSUME NEW u \in Threads, Replace(u) \/ FetchFails(u) PROVE FALSE
      BY <3>3, <2>1 DEF Replace, FetchFails
    <3>4. ASSUME Publish \/ Withdraw \/ Tick PROVE FALSE
      BY <3>4 DEF Publish, Withdraw, Tick, ThreadIs
    <3>5. PICK u \in Threads : Refresh(u)
      BY <1>1, <3>1, <3>2, <3>3, <3>4 DEF KeysNext
    <3>6. Fetch(u)
      BY <3>5, <2>1 DEF Refresh
    <3> QED
      BY <3>5, <3>6
  <2>3. fetchMu = Nobody /\ ~(now - lastAttempt < MinInterval)
    <3>1. fetchMu = Nobody
      BY <2>2 DEF Refresh
    <3>2. CASE Fresh(thread[u].token.kid) \/ now - lastAttempt < MinInterval
      BY <2>1, <2>2, <3>2 DEF Refresh
    <3> QED
      BY <3>1, <3>2
  <2> QED
    BY <1>1, <2>3, JwksAssumption DEF IInv, Out
<1>2. ASSUME IInv, [KeysNext]_keysVars PROVE [Step]_keysVars
  BY <1>1, <1>2
<1> QED
  BY InitIInv, NextIInv, <1>2, PTL DEF KeysSpec, FetchesSpaced

-----------------------------------------------------------------------------
(* How long a withdrawn key is trusted. *)

Times ==
  /\ goneAt \in [Kids -> Int] /\ published \subseteq Kids /\ keys \subseteq Kids
  /\ lastSuccess \in Int /\ lastSuccess <= now /\ lastAttempt <= now
  /\ \A k \in Kids : goneAt[k] <= now

\* The cache and an answer on its way are at most one request older than what
\* the server publishes; and an attempt that is over renewed the cache or failed.
Recent ==
  /\ \A k \in keys : k \in published \/ lastSuccess - goneAt[k] <= Timeout
  /\ fetchMu = Nobody => down \/ lastSuccess >= lastAttempt
  /\ \A t \in Threads : Out(t) =>
       thread[t].since \in Int /\ thread[t].since <= now /\ now - thread[t].since <= Timeout
  /\ \A t \in Threads : ThreadIs(t, "answered") =>
       /\ thread[t].keys \subseteq Kids
       /\ \A k \in thread[t].keys : k \in published \/ goneAt[k] >= thread[t].since

KInv == IInv /\ Times /\ Recent /\ context = [t \in Threads |-> context[t]]

LEMMA Durations ==
  /\ TTL \in Int /\ Timeout \in Int /\ MinInterval \in Int
  /\ 0 < Timeout /\ 0 < TTL /\ Timeout < TTL /\ MinInterval < TTL /\ Long \in Int /\ Long > 0
BY JwksAssumption DEF Long

LEMMA Sooner ==
  /\ \A m, a, b, c, d \in Int : m - a < c /\ b >= a /\ c < d => m - b < d
  /\ \A m, a, g, c, d \in Int : m - a < d /\ a - g <= c => m - g < d + c
  /\ \A m, s, g, c, d \in Int : m - s <= c /\ g >= s /\ 0 < d => m - g < d + c
OBVIOUS

LEMMA InitKInv == KeysInit => KInv
<1> SUFFICES ASSUME KeysInit PROVE KInv
  OBVIOUS
<1>1. \A t \in Threads : thread[t].at = "idle"
  BY DEF KeysInit, Idle
<1>2. Times
  BY Durations DEF KeysInit, Times
<1>3. Recent
  BY <1>1, Durations DEF KeysInit, Recent, Out, ThreadIs
<1>4. context = [t \in Threads |-> context[t]]
  BY DEF KeysInit
<1>. QED
  BY <1>2, <1>3, <1>4, InitIInv DEF KInv

\* A request moves to a state in which no answer to it is on its way, and
\* neither the cache nor the server changes.
LEMMA QuietMove ==
  ASSUME KInv, NEW t \in Threads, NEW new, Turn(t, new), new.at \notin {"fetching", "answered"},
         UNCHANGED <<now, client, server>>
  PROVE  Times' /\ Recent'
<1>1. /\ thread'[t] = new
      /\ \A u \in Threads \ {t} : thread'[u] = thread[u]
  BY GoChanges DEF KInv, IInv
<1>2. \A u \in Threads : /\ Out(u)' => u # t /\ Out(u)
                         /\ ThreadIs(u, "answered")' => u # t /\ ThreadIs(u, "answered")
  BY <1>1 DEF Out, ThreadIs
<1>3. Times'
  BY DEF KInv, Times, client, server
<1>4. Recent'
  BY <1>1, <1>2 DEF KInv, Recent, client, server
<1>. QED
  BY <1>3, <1>4

LEMMA RequestKInv ==
  ASSUME KInv, NEW t \in Threads, NEW token \in Tokens, authenticateRequest(t, token)
  PROVE  Times' /\ Recent'
<1>1. \E new : Turn(t, new) /\ new.at \notin {"fetching", "answered"}
  <2>1. CASE NeedsJwks(token, Config) /\ ~Fresh(token.kid)
    BY <2>1 DEF authenticateRequest
  <2>2. CASE ~(NeedsJwks(token, Config) /\ ~Fresh(token.kid))
    <3>1. Turn(t, Idle) /\ Idle.at = "idle"
      BY <2>2 DEF authenticateRequest, Finish, Idle
    <3>. QED
      BY <3>1
  <2>. QED
    BY <2>1, <2>2
<1>. QED
  BY <1>1, QuietMove DEF authenticateRequest

LEMMA RefreshKInv ==
  ASSUME KInv, NEW t \in Threads, Refresh(t) PROVE Times' /\ Recent'
<1>1. CASE Fresh(thread[t].token.kid) \/ now - lastAttempt < MinInterval
  <2>1. Turn(t, Idle) /\ UNCHANGED <<now, client, server>>
    BY <1>1 DEF Refresh, Finish
  <2>. QED
    BY <2>1, QuietMove DEF Idle
<1>2. CASE ~(Fresh(thread[t].token.kid) \/ now - lastAttempt < MinInterval)
  <2>1. /\ Turn(t, [at |-> "fetching", token |-> thread[t].token, since |-> now, keys |-> {}])
        /\ lastAttempt' = now /\ fetchMu' = t
        /\ UNCHANGED <<now, keys, lastSuccess, published, goneAt, down>>
    BY <1>2 DEF Refresh, Fetch
  <2>2. /\ thread'[t].at = "fetching" /\ thread'[t].since = now
        /\ \A u \in Threads \ {t} : thread'[u] = thread[u]
    BY <2>1, GoChanges DEF KInv, IInv
  <2>3. Times'
    BY <2>1 DEF KInv, IInv, Times
  <2>4. \A u \in Threads : Out(u)' =>
          thread'[u].since \in Int /\ thread'[u].since <= now' /\ now' - thread'[u].since <= Timeout
    BY <2>1, <2>2, Durations DEF KInv, IInv, Recent, Out
  <2>5. \A u \in Threads : ThreadIs(u, "answered")' => u # t /\ ThreadIs(u, "answered")
    BY <2>2 DEF ThreadIs
  <2>6. fetchMu' # Nobody
    BY <2>1, JwksAssumption
  <2>7. Recent'
    BY <2>1, <2>2, <2>4, <2>5, <2>6 DEF KInv, Recent
  <2>. QED
    BY <2>3, <2>7
<1>. QED
  BY <1>1, <1>2

LEMMA ServeKInv ==
  ASSUME KInv, NEW t \in Threads, Serve(t) PROVE Times' /\ Recent'
<1> DEFINE new == [at |-> "answered", token |-> thread[t].token, since |-> thread[t].since,
                   keys |-> published]
<1>1. thread'[t] = new /\ \A u \in Threads \ {t} : thread'[u] = thread[u]
  BY GoChanges DEF Serve, KInv, IInv
<1>2. /\ thread'[t].at = "answered" /\ thread'[t].since = thread[t].since
      /\ thread'[t].keys = published /\ Out(t)
  BY <1>1 DEF Serve, ThreadIs, Out
<1>3. UNCHANGED <<now, client, server>>
  BY DEF Serve
<1>4. Times'
  BY <1>3 DEF KInv, Times, client, server
<1>5. \A u \in Threads : Out(u)' => Out(u) /\ thread'[u].since = thread[u].since
  BY <1>1, <1>2 DEF Out
<1>6. \A u \in Threads \ {t} : ThreadIs(u, "answered")' => ThreadIs(u, "answered")
  BY <1>1 DEF ThreadIs
<1>7. /\ published \subseteq Kids
      /\ \A u \in Threads : ThreadIs(u, "answered")' =>
           /\ thread'[u].keys \subseteq Kids
           /\ \A k \in thread'[u].keys : k \in published \/ goneAt[k] >= thread'[u].since
  BY <1>1, <1>2, <1>6 DEF KInv, Times, Recent
<1>8. Recent'
  BY <1>3, <1>5, <1>7 DEF KInv, Recent, client, server
<1>. QED
  BY <1>4, <1>8

\* The answer is at most Timeout old when it replaces the cache.
LEMMA ReplaceKInv ==
  ASSUME KInv, NEW t \in Threads, Replace(t) PROVE Times' /\ Recent'
<1>1. /\ keys' = thread[t].keys /\ lastSuccess' = now /\ fetchMu' = Nobody
      /\ ThreadIs(t, "answered") /\ Out(t) /\ Turn(t, Idle)
      /\ UNCHANGED <<now, lastAttempt, published, goneAt>>
  BY DEF Replace, Finish, ThreadIs, Out
<1>2. thread'[t] = Idle /\ \A u \in Threads \ {t} : thread'[u] = thread[u]
  BY <1>1, GoChanges DEF KInv, IInv
<1>3. \A u \in Threads : /\ Out(u)' => u # t /\ Out(u)
                         /\ ThreadIs(u, "answered")' => u # t /\ ThreadIs(u, "answered")
  BY <1>2 DEF Out, ThreadIs, Idle
<1>4. Times'
  BY <1>1 DEF KInv, IInv, Times, Recent
<1>5. \A k \in keys' : k \in published \/ now - goneAt[k] <= Timeout
  <2> SUFFICES ASSUME NEW k \in thread[t].keys, k \notin published
               PROVE  now - goneAt[k] <= Timeout
    BY <1>1
  <2>1. goneAt[k] \in Int /\ goneAt[k] >= thread[t].since
    BY <1>1 DEF KInv, Times, Recent
  <2>2. thread[t].since \in Int /\ now - thread[t].since <= Timeout
    BY <1>1 DEF KInv, Recent
  <2>. QED
    BY <2>1, <2>2, Durations DEF KInv, IInv
<1>6. lastSuccess' >= lastAttempt'
  BY <1>1 DEF KInv, IInv, Times
<1>7. Recent'
  BY <1>1, <1>2, <1>3, <1>5, <1>6 DEF KInv, Recent
<1>. QED
  BY <1>4, <1>7

LEMMA FailsKInv ==
  ASSUME KInv, NEW t \in Threads, FetchFails(t) PROVE Times' /\ Recent'
<1>1. /\ fetchMu' = Nobody /\ down' = TRUE /\ Turn(t, Idle)
      /\ UNCHANGED <<now, keys, lastSuccess, lastAttempt, published, goneAt>>
  BY DEF FetchFails, Finish
<1>2. thread'[t] = Idle /\ \A u \in Threads \ {t} : thread'[u] = thread[u]
  BY <1>1, GoChanges DEF KInv, IInv
<1>3. \A u \in Threads : /\ Out(u)' => u # t /\ Out(u)
                         /\ ThreadIs(u, "answered")' => u # t /\ ThreadIs(u, "answered")
  BY <1>2 DEF Out, ThreadIs, Idle
<1>4. Times'
  BY <1>1 DEF KInv, Times
<1>5. Recent'
  BY <1>1, <1>2, <1>3 DEF KInv, Recent
<1>. QED
  BY <1>4, <1>5

LEMMA ServerKInv == ASSUME KInv, Publish \/ Withdraw PROVE Times' /\ Recent'
<1>1. UNCHANGED <<now, thread, keys, lastSuccess, lastAttempt, fetchMu, down>>
  BY DEF Publish, Withdraw, client
<1>2. \A t \in Threads : (Out(t)' <=> Out(t)) /\ (ThreadIs(t, "answered")' <=> ThreadIs(t, "answered"))
  BY <1>1 DEF Out, ThreadIs
<1>3. CASE Publish
  <2>1. published \subseteq published' /\ published' \subseteq Kids /\ goneAt' = goneAt
    BY <1>3 DEF Publish, KInv, Times
  <2>. QED
    BY <1>1, <1>2, <2>1 DEF KInv, Times, Recent
<1>4. CASE Withdraw
  <2>1. PICK k \in published : published' = published \ {k}
                               /\ goneAt' = [goneAt EXCEPT ![k] = now]
    BY <1>4 DEF Withdraw
  <2>2. k \in Kids /\ goneAt' \in [Kids -> Int] /\ goneAt'[k] = now
        /\ \A j \in Kids \ {k} : goneAt'[j] = goneAt[j]
    BY <2>1 DEF KInv, IInv, Times
  <2>3. Times'
    BY <1>1, <2>1, <2>2 DEF KInv, IInv, Times
  <2>4. \A j \in keys : j \in published' \/ lastSuccess - goneAt'[j] <= Timeout
    BY <2>1, <2>2, Durations DEF KInv, IInv, Times, Recent
  <2>5. ASSUME NEW t \in Threads, ThreadIs(t, "answered"), NEW j \in thread[t].keys
        PROVE  j \in published' \/ goneAt'[j] >= thread[t].since
    <3>1. Out(t) /\ j \in Kids
      BY <2>5 DEF ThreadIs, Out, KInv, Recent
    <3>2. CASE j = k
      BY <2>2, <3>1, <3>2 DEF KInv, Recent, IInv
    <3>3. CASE j # k
      BY <2>1, <2>2, <2>5, <3>1, <3>3 DEF KInv, Recent
    <3>. QED
      BY <3>2, <3>3
  <2>6. Recent'
    BY <1>1, <1>2, <2>4, <2>5 DEF KInv, Recent
  <2>. QED
    BY <2>3, <2>6
<1>. QED
  BY <1>3, <1>4

LEMMA TickKInv == ASSUME KInv, Tick PROVE Times' /\ Recent'
<1>1. now' = now + 1 /\ UNCHANGED <<thread, keys, lastSuccess, lastAttempt, fetchMu, published,
                                     goneAt, down>>
  BY DEF Tick, client, server
<1>2. \A t \in Threads : (Out(t)' <=> Out(t)) /\ (ThreadIs(t, "answered")' <=> ThreadIs(t, "answered"))
  BY <1>1 DEF Out, ThreadIs
<1>3. Times'
  BY <1>1 DEF KInv, IInv, Times
<1>4. ASSUME NEW t \in Threads, Out(t)
      PROVE  thread'[t].since \in Int /\ thread'[t].since <= now' /\ now' - thread'[t].since <= Timeout
  <2>1. now - thread[t].since < Timeout
    BY <1>4 DEF Tick, Out
  <2>2. thread[t].since \in Int /\ thread[t].since <= now /\ now \in Int
    BY <1>4 DEF KInv, IInv, Recent
  <2>. QED
    BY <1>1, <2>1, <2>2, Durations
<1>5. Recent'
  BY <1>1, <1>2, <1>4 DEF KInv, Recent
<1>. QED
  BY <1>3, <1>5

LEMMA NextKInv == KInv /\ [KeysNext]_keysVars => KInv'
<1> SUFFICES ASSUME KInv, [KeysNext]_keysVars PROVE KInv'
  OBVIOUS
<1>1. IInv'
  BY NextIInv DEF KInv
<1>2. context' = context \/ \E t, v : context' = [context EXCEPT ![t] = v]
  BY DEF KeysNext, authenticateRequest, Refresh, Fetch, Serve, Replace, FetchFails, Finish, Publish,
         Withdraw, Tick, keysVars
<1>3. context' = [t \in Threads |-> context'[t]]
  BY <1>2 DEF KInv
<1>4. CASE UNCHANGED keysVars
  <2>1. \A t \in Threads : (Out(t)' <=> Out(t)) /\ (ThreadIs(t, "answered")' <=> ThreadIs(t, "answered"))
    BY <1>4 DEF Out, ThreadIs, keysVars
  <2>. QED
    BY <1>1, <1>3, <1>4, <2>1 DEF KInv, Times, Recent, keysVars, client, server
<1>5. CASE KeysNext
  BY <1>1, <1>3, <1>5, RequestKInv, RefreshKInv, ServeKInv, ReplaceKInv, FailsKInv, ServerKInv, TickKInv
     DEF KeysNext, KInv
<1>. QED
  BY <1>4, <1>5

\* A token is accepted with the key of its kid that GetPublicKey answered.
LEMMA AcceptedKey ==
  ASSUME Config.algorithm = "RS256", Config.jwks # "", NEW t \in Threads, NEW token, NEW key,
         KInv, Finish(t, token, key),
         NEW u \in Threads, context'[u] # context[u], context'[u].kid # ""
  PROVE  key # "" /\ context'[u].kid = token.kid /\ NeedsJwks(token, Config)
<1> DEFINE accepted == ValidateToken(token, Config, key) /\ validateClaims(token.claims, Config, TRUE)
           answer == IF accepted
             THEN [user |-> ExtractPrincipal(token.claims, Config.principalClaim),
                   roles |-> ExtractRoles(token.grants, Config.authoritiesClaim, Config.resourceID,
                                          Config.prefix),
                   kid |-> token.kid]
             ELSE Nothing
<1>1. context' = [context EXCEPT ![t] = answer]
  BY DEF Finish
<1>2. accepted => answer.kid = token.kid
  OBVIOUS
<1>3. ~accepted => answer.kid = ""
  BY DEF Nothing
<1>4. accepted => ValidateToken(token, Config, key)
  OBVIOUS
<1> HIDE DEF accepted, answer
<1>5. u = t /\ context'[u] = answer
  BY <1>1 DEF KInv
<1>6. accepted /\ context'[u].kid = token.kid
  BY <1>2, <1>3, <1>5
<1>7. resolveKey(token, Config, key) # ""
  BY <1>4, <1>6 DEF ValidateToken
<1>8. token.kid # ""
  BY <1>6
<1>9. token.alg = Config.algorithm
  BY <1>7 DEF resolveKey
<1>10. resolveKey(token, Config, key) = key
  BY <1>8, <1>9 DEF resolveKey
<1>. QED
  BY <1>6, <1>7, <1>8, <1>9, <1>10 DEF NeedsJwks

\* A key the server withdrew verifies tokens for TTL and one answer's delay at
\* most, unless the last attempt to ask the server failed: whatever requests are
\* in flight, and when the program has no other key than those of the server
\* (GetPublicKeyWithContext, refresh).
THEOREM RevokedKeysExpire ==
  ASSUME Config.algorithm = "RS256", Config.jwks # "" PROVE KeysSpec => RevokedKeyExpires
<1> DEFINE Trusted(k) == k \in published \/ now - goneAt[k] < TTL + Timeout \/ down'
           Step == \A t \in Threads :
                     context'[t] # context[t] /\ context'[t].kid # "" => Trusted(context'[t].kid)
<1>1. ASSUME KInv, NEW k \in keys, now - lastSuccess < TTL PROVE Trusted(k)
  <2>1. k \in Kids /\ goneAt[k] \in Int /\ lastSuccess \in Int /\ now \in Int
    BY <1>1 DEF KInv, IInv, Times
  <2>2. k \in published \/ lastSuccess - goneAt[k] <= Timeout
    BY <1>1 DEF KInv, Recent
  <2>3. lastSuccess - goneAt[k] <= Timeout => now - goneAt[k] < TTL + Timeout
    <3> DEFINE g == goneAt[k]
    <3>1. g \in Int /\ TTL \in Int /\ Timeout \in Int
      BY <2>1, Durations
    <3> HIDE DEF g
    <3>2. lastSuccess - g <= Timeout => now - g < TTL + Timeout
      BY <1>1, <2>1, <3>1, Sooner
    <3>. QED
      BY <3>2 DEF g
  <2>. QED
    BY <2>2, <2>3
<1>2. ASSUME KInv, KeysNext, NEW u \in Threads, context'[u] # context[u], context'[u].kid # ""
      PROVE  Trusted(context'[u].kid)
  <2> DEFINE k == context'[u].kid
  <2>1. ASSUME NEW t \in Threads, NEW token, Finish(t, token, Cached(token.kid))
        PROVE  k \in keys /\ k = token.kid /\ NeedsJwks(token, Config)
    <3>1. Cached(token.kid) # "" /\ k = token.kid /\ NeedsJwks(token, Config)
      BY <1>2, <2>1, AcceptedKey
    <3>. QED
      BY <3>1 DEF Cached
  <2> HIDE DEF k
  <2>2. ASSUME NEW t \in Threads, NEW token \in Tokens, authenticateRequest(t, token)
        PROVE  Trusted(k)
    <3>1. ~(NeedsJwks(token, Config) /\ ~Fresh(token.kid))
      BY <1>2, <2>2 DEF authenticateRequest
    <3>2. Finish(t, token, Cached(token.kid))
      BY <2>2, <3>1 DEF authenticateRequest
    <3>3. k \in keys /\ Fresh(k)
      BY <2>1, <3>1, <3>2
    <3>. QED
      BY <1>1, <1>2, <3>3 DEF Fresh
  <2>3. ASSUME NEW t \in Threads, Refresh(t) PROVE Trusted(k)
    <3> DEFINE token == thread[t].token
    <3> HIDE DEF token
    <3>1. CASE Fresh(token.kid) \/ now - lastAttempt < MinInterval
      <4>1. /\ Finish(t, token, Cached(token.kid)) /\ fetchMu = Nobody
            /\ UNCHANGED <<now, client, server>>
        BY <2>3, <3>1 DEF Refresh, token
      <4>2. k \in keys /\ k = token.kid
        BY <2>1, <4>1
      <4>3. CASE Fresh(token.kid)
        BY <1>1, <1>2, <4>2, <4>3 DEF Fresh
      <4>4. CASE now - lastAttempt < MinInterval /\ lastSuccess >= lastAttempt
        <5>1. now \in Int /\ lastAttempt \in Int /\ lastSuccess \in Int
          BY <1>2 DEF KInv, IInv, Times
        <5>2. now - lastSuccess < TTL
          BY <4>4, <5>1, Durations, Sooner
        <5>. QED
          BY <1>1, <1>2, <4>2, <5>2
      <4>5. CASE down
        BY <4>1, <4>5 DEF server
      <4>. QED
        BY <1>2, <3>1, <4>1, <4>3, <4>4, <4>5 DEF KInv, Recent
    <3>2. CASE ~(Fresh(token.kid) \/ now - lastAttempt < MinInterval)
      BY <1>2, <2>3, <3>2 DEF Refresh, Fetch, token
    <3>. QED
      BY <3>1, <3>2
  <2>4. ASSUME NEW t \in Threads, Replace(t) PROVE Trusted(k)
    <3> DEFINE token == thread[t].token
               key == IF token.kid \in keys' THEN token.kid ELSE ""
    <3>1. Finish(t, token, key) /\ keys' = thread[t].keys /\ Out(t) /\ ThreadIs(t, "answered")
      BY <2>4 DEF Replace, Out, ThreadIs
    <3> HIDE DEF token
    <3>2. key # "" /\ k = token.kid
      <4> HIDE DEF key
      <4>. QED
        BY <1>2, <3>1, AcceptedKey DEF k
    <3>3. k \in thread[t].keys
      BY <3>1, <3>2
    <3>4. k \in Kids /\ (k \in published \/ goneAt[k] >= thread[t].since)
      BY <1>2, <3>1, <3>3 DEF KInv, Recent
    <3>5. thread[t].since \in Int /\ now - thread[t].since <= Timeout
      BY <1>2, <3>1 DEF KInv, Recent
    <3>6. goneAt[k] \in Int /\ now \in Int
      BY <1>2, <3>4 DEF KInv, IInv, Times
    <3>7. goneAt[k] >= thread[t].since => now - goneAt[k] < TTL + Timeout
      <4> DEFINE g == goneAt[k]
                 since == thread[t].since
      <4>1. /\ g \in Int /\ since \in Int /\ now \in Int /\ TTL \in Int /\ Timeout \in Int
            /\ now - since <= Timeout /\ 0 < TTL
        BY <3>5, <3>6, Durations
      <4> HIDE DEF g, since
      <4>2. g >= since => now - g < TTL + Timeout
        BY <4>1, Sooner
      <4>. QED
        BY <4>2 DEF g, since
    <3>. QED
      BY <3>4, <3>7
  <2>5. ASSUME NEW t \in Threads, FetchFails(t) PROVE Trusted(k)
    BY <2>5 DEF FetchFails
  <2>6. ASSUME (\E t \in Threads : Serve(t)) \/ Publish \/ Withdraw \/ Tick PROVE Trusted(k)
    BY <1>2, <2>6 DEF Serve, Publish, Withdraw, Tick
  <2>. QED
    BY <1>2, <2>2, <2>3, <2>4, <2>5, <2>6 DEF KeysNext, k
<1>3. ASSUME KInv, [KeysNext]_keysVars PROVE [Step]_keysVars
  BY <1>2, <1>3
<1>. QED
  BY InitKInv, NextKInv, <1>3, PTL DEF KeysSpec, RevokedKeyExpires
=============================================================================
