----------------------------- MODULE MCServices -----------------------------
(***************************************************************************)
(* Model checking of the circuit breaker and, beside it, of the components  *)
(* that keep their state in the variables store, proc and seen.  They share *)
(* no state: which chooses the one that a behaviour is about.               *)
(***************************************************************************)
EXTENDS CircuitBreaker, Sequences, TLC

VARIABLES which, store, proc, seen

\* The goroutines of the breaker are interchangeable.
Symmetry == Permutations(Calls)

\* Requests of the web middleware: header values and credentials, well-formed, too long, repeated, in three parts.
HeaderValues == {[trimmed |-> "a", size |-> 1, printable |-> TRUE], [trimmed |-> "long", size |-> 9, printable |-> TRUE]}
HeaderCredentials ==
    LET C(parts, size) == [trimmed |-> TRUE, comma |-> FALSE, parts |-> parts, scheme |-> TRUE, size |-> size, clean |-> TRUE]
    IN  {<<>>, <<C(2, 3)>>, <<C(2, 3), C(2, 3)>>, <<C(2, 9)>>, <<C(3, 3)>>}

\* JWKS documents in which a key id changes its type and algorithm; options of Compose and Parse in several orders.
KeyDocuments ==
    LET K(kty, alg, use) == {[kid |-> "a", kty |-> kty, alg |-> alg, use |-> use, private |-> FALSE]}
    IN  {K("RSA", "", ""), K("P-256", "", "sig")}
TokenOptions ==
    LET O(n, v) == [name |-> n, value |-> v]
    IN  {<<>>, <<O("expiresAfter", 1), O("expiresAt", 4)>>, <<O("expiresAt", 3), O("issuer", 7)>>, <<O("notBefore", 3), O("issuedAt", 1), O("expiresAfter", 2)>>,
         <<O("header", "jku")>>, <<O("header", "x"), O("claim", "role"), O("expiresAfter", 0)>>, <<O("claim", "exp")>>, <<O("header", "x"), O("expiresAt", 4), O("expiresAt", 2)>>}
TokenConfigs == [leeway : {0, 1}, issuer : {0, 7}, required : BOOLEAN, clock : {0, 2}]

IdKinds ==
    LET G(k, m) == [kind |-> k, machine |-> m]
    IN  <<G("snowflake", 0), G("snowflake", 1), G("uuidv7", 0), G("ulid", 0), G("ksuid", 0), G("ksuidMillis", 0)>>
FilterSizes == LET C(k) == [size |-> 5, count |-> k, hasher |-> 1] IN <<C(2), C(2), C(1)>>

\* Dictionaries whose words overlap, contain one another or normalise to the same word, and texts made of their letters.
WordLists ==
    LET E(i, t, s) == [id |-> i, text |-> t, severity |-> s]
    IN  {<<>>, <<E(-1, <<"a", "b", "a">>, 0), E(-1, <<"b", "a">>, 1), E(-1, <<"a">>, 0)>>, <<E(5, <<"a^", "b">>, 1), E(5, <<"b">>, 0)>>,
         <<E(1, <<"b", "a", "b">>, 1), E(-1, <<"a", "b", "b", "a", "b", "a">>, 0)>>, <<E(1, <<"a", "b">>, 0), E(0, <<"a">>, 1), E(-1, <<"b", "-">>, 1)>>,
         <<E(-1, <<"A", "^">>, 1), E(-1, <<"-">>, 0), E(-1, <<"a", "b">>, 1)>>, <<E(-1, <<"a">>, 0), E(-1, <<>>, 0)>>}
SearchConfigs ==
    LET C(i, n, b, o) == [ignoreCase |-> i, normalize |-> n, boundary |-> b, overlap |-> o]
    IN  {C(FALSE, "none", "none", "all"), C(TRUE, "nfkc", "none", "leftmostLongest"), C(TRUE, "nfc", "unicode", "all"), C(FALSE, "nfkc", "ascii", "leftmostLongest")}
SearchTexts ==
    LET letters == {"a", "b", "A", "^", "ab", "-", " "}
    IN  {<<>>, <<"a", "b", "a", "b">>, <<"a", "b", "a", "-", "b", "a">>, <<"a", "b", "b", "a", "b">>, <<"b", "a", "b", "a", "b">>, <<"a", "-", "-", "*", "*">>,
         <<"b", "^", "a">>, <<"A", "^", "b">>, <<"-", "ab", "a">>, <<"b", "ab", " ", "A">>, <<"*", "*", "*", "-">>, <<"a", "b", "a", "b", "a", "b">>}
        \cup UNION {[1 .. n -> letters] : n \in 1 .. 2}
TokenLists ==
    LET T(s, p) == [surface |-> s, position |-> p] IN {<<T(<<"a">>, 0), T(<<>>, 1), T(<<"b">>, 1)>>, <<T(<<"b", "a">>, 2)>>}

\* Providers with and without stale answers, retries and a cache; bulletins and data sets that change between refreshes.
RateProviders ==
    LET P(k, t, m, r, a, f, q) == [kind |-> k, cacheTTL |-> t, maxStale |-> m, retryCount |-> r, allowStale |-> a, frequency |-> f, pairs |-> q]
    IN  {P("ecb", 0, 1, 0, TRUE, "", {<<"KRW", "EUR">>}), P("imf", 0, 1, 1, TRUE, "A", {<<"USD", "KRW">>}),
         P("imf", 1, 0, 0, TRUE, "Q", {<<"KRW", "USD">>, <<"USD", "USD">>, <<"EUR", "USD">>}), P("ecb", 0, 1, 1, FALSE, "", {<<"XXX", "USD">>})}
EcbBulletins ==
    LET R(c, r) == [currency |-> c, rate |-> r]
        B(rs) == [dated |-> TRUE, rates |-> rs]
    IN  <<B(<<R("USD", 2), R("KRW", 6)>>), B(<<R("USD", 3), R("USD", 4), R("KRW", 8)>>)>>
ImfDataSets ==
    LET O(y, q, v) == [period |-> [year |-> y, month |-> 1, day |-> 1, quarter |-> q], value |-> v]
        S(i, f, o) == [country |-> "KOR", indicator |-> i, frequency |-> f, obs |-> o]
    IN  <<{S(<<"XDC", "USD">>, "A", <<O(2, 1, 3), O(1, 1, 2)>>), S(<<"USD", "XDC">>, "Q", <<O(1, 5, 2)>>)},
          {S(<<"XDC", "USD">>, "A", <<O(1, 1, 5)>>), S(<<"USD", "XDC">>, "Q", <<O(1, 4, 2), O(2, 1, 4)>>)}>>

\* Graphs and files: ids that look like formulas, padded ids, duplicates, missing endpoints, malformed records.
Vertex(i, p) == [kind |-> "vertex", id |-> i, label |-> <<76>>, from |-> <<>>, to |-> <<>>, props |-> p, malformed |-> FALSE]
Edge(i, f, t, p) == [Vertex(i, p) EXCEPT !.kind = "edge", !.from = f, !.to = t]
IdA == <<97>>
IdB == <<45, 49>>
GraphRecords ==
    LET P(k, t, x) == k :> [type |-> t, text |-> x]
    IN  {<<Edge(<<50>>, IdB, IdA, <<>>), Vertex(IdA, P("n", "long", <<55>>)), Edge(<<49>>, IdA, IdA, P("s", "string", <<120>>)), Vertex(IdB, P("n", "string", <<45, 120>>))>>,
         <<Vertex(IdA, P("n", "long", <<55>>)), Vertex(IdB, P("n", "nil", <<60, 110, 105, 108, 62>>) @@ P("label", "string", <<120>>))>>,
         <<Vertex(IdA, P("b", "boolean", <<116, 114, 117, 101>>)), Vertex(IdA, P("n", "uint64", <<57>>))>>}
GraphDocuments ==
    {<<Vertex(IdA, <<>>), Vertex(<<32, 97>>, <<>>), Edge(<<49>>, <<32, 97>>, IdA, <<>>), Edge(<<49>>, IdA, <<98>>, <<>>), Edge(<<50>>, IdA, IdA, <<>>)>>,
     <<Vertex(IdA, <<>>), [Vertex(<<>>, <<>>) EXCEPT !.malformed = TRUE], Vertex(IdA, <<>>), Edge(<<49>>, IdA, IdA, <<>>), Vertex(<<32>>, <<>>)>>,
     <<Edge(<<49>>, IdA, IdA, <<>>), Vertex(IdA, <<>>), Edge(<<51>>, <<98>>, IdA, <<>>)>>}
FileSettings ==
    LET S(f, m, e, d, n) == [format |-> f, mode |-> m, formula |-> e, duplicate |-> d, missing |-> d, maxRecords |-> n]
    IN  {S("ndjson", "", "", d, n) : d \in {"fail", "skip"}, n \in {0, 3}} \cup {S("csv", "prefixed", "escape", d, n) : d \in {"fail", "skip"}, n \in {0, 3}}
        \cup {S("csv", m, "raw", "skip", 0) : m \in {"raw", "none", "prefixed"}} \cup {S("graphml", "", "", "skip", n) : n \in {0, 2}}

\* What the graph servers answer: nested, too many, too deep, incomplete, of every shape that is converted.
ServerAnswers ==
    LET I(n) == [type |-> "int", held |-> n]
        Str(s) == [type |-> "string", held |-> s]
        Nil == [type |-> "nil", held |-> ""]
        L(s) == [type |-> "list", held |-> s]
        M(f) == [type |-> "map", held |-> f]
        V(i, l) == [type |-> "vertex", held |-> [id |-> i, label |-> l, props |-> Nil]]
        MV == M("@id" :> I(2) @@ "label" :> Str("a") @@ "w" :> L(<<I(1)>>))
        ME == [type |-> "anymap", held |-> "id" :> I(2) @@ "label" :> Str("a") @@ "outV" :> MV @@ "IN" :> I(3) @@ "properties" :> M("w" :> I(1))]
        E(i, l) == [type |-> "edge", held |-> [id |-> i, label |-> l, outV |-> [id |-> I(1)], inV |-> [id |-> Str("a")], props |-> M("w" :> L(<<I(1)>>))]]
        F(p, h, rs, s) == [parts |-> p, header |-> h, rows |-> rs, stats |-> s]
        N(i, ls) == [type |-> "node", held |-> [id |-> i, labels |-> ls, props |-> <<>>]]
    IN  [gremlin |-> {<<>>, <<V(I(1), " a"), L(<<MV, L(<<>>)>>)>>, <<E(I(1), "a"), ME>>, <<[type |-> "path", held |-> <<V(Str("a"), "a"), MV>>]>>, <<V(Str(" "), "a")>>,
                      <<L(<<L(<<L(<<I(1)>>)>>)>>)>>, <<I(1), Nil>>, <<MV, MV, MV>>, <<L(<<MV, MV, MV>>)>>},
         falkordb |-> {F(1, 0, <<>>, TRUE), F(0, 0, <<>>, TRUE), F(3, 1, <<<<I(1)>>>>, FALSE), F(2, 1, <<<<M("id" :> I(1) @@ "labels" :> L(<<Str("A")>>))>>>>, TRUE),
                       F(3, 3, <<<<I(1), Str("a"), Nil>>, <<I(2), Str("a"), M("w" :> I(1))>>>>, TRUE), F(3, 5, <<<<I(1), Str("a"), I(1), I(2), Nil>>>>, TRUE),
                       F(2, 1, <<<<I(1)>>, <<I(1), I(2)>>>>, TRUE), F(2, 1, <<<<I(1)>>, <<I(1)>>, <<I(1)>>>>, TRUE),
                       F(2, 1, <<<<M("id" :> I(1) @@ "label" :> Str("A") @@ "src" :> I(1) @@ "dest" :> I(2))>>>>, TRUE)},
         neo4j |-> {<<>>, <<N("a", <<"a", " ", "A">>), N("b", <<"B">>)>>, <<N("a", <<" ">>)>>, <<Nil>>,
                    <<[type |-> "relationship", held |-> [id |-> "a", kind |-> "A", start |-> "a", end |-> "b", props |-> <<>>]]>>}]

\* Two users, three groups that may be nested in a cycle, an allowing and a denying role, a temporary grant.
VertexLabels ==
    [v \in {"u", "v"} |-> "user"] @@ [v \in {"g1", "g2", "g3"} |-> "group"] @@ [v \in {"r1", "r2"} |-> "role"] @@ [v \in {"pa", "pd"} |-> "policy"]
    @@ [v \in {"p1", "p2"} |-> "permission"] @@ [v \in {"t"} |-> "grant"] @@ [v \in {"x", "y"} |-> "resource"]
AccessEdges ==
    LET members == <<<<"u", "g1">>, <<"g1", "g2">>, <<"g2", "g1">>, <<"g2", "g3">>, <<"u", "g3">>>>
        roles == <<<<"g3", "r1">>, <<"g2", "r1">>, <<"u", "r2">>>>
        others == <<<<"ATTACHED_POLICY", "r1", "pa">>, <<"ATTACHED_POLICY", "r2", "pd">>, <<"GRANTS_PERMISSION", "pa", "p1">>, <<"GRANTS_PERMISSION", "pa", "p2">>,
                    <<"GRANTS_PERMISSION", "pd", "p2">>, <<"APPLIES_TO", "p1", "x">>, <<"APPLIES_TO", "p2", "x">>, <<"APPLIES_TO", "p2", "y">>,
                    <<"HAS_TEMP_GRANT", "v", "t">>, <<"TEMPORARY_PERMISSION", "t", "p1">>>>
        labelled(label, pairs) == [i \in DOMAIN pairs |-> <<label, pairs[i][1], pairs[i][2]>>]
    IN  {labelled("MEMBER_OF", SelectSeq(members, LAMBDA e : e \in ms)) \o labelled("HAS_ROLE", SelectSeq(roles, LAMBDA e : e \in rs)) \o others :
            ms \in SUBSET {members[i] : i \in DOMAIN members}, rs \in SUBSET {roles[i] : i \in DOMAIN roles}}
        \cup {<<<<"MEMBER_OF", "u", "nobody">>>>}

Guards == INSTANCE RequestGuards WITH
  Callers <- {1, 2}, Rates <- {2, 3}, Bursts <- {2}, Idles <- {0, 1}, Ticks <- 2, MinIdle <- 2, MaxDuration <- 5, MaxDelay <- 1, MaxNow <- 6,
  CallersPolicies <- {1}, KindsPolicies <- {"plain", "client", "handler", "gin", "echo"}, MaxAttempts <- 2, MaxConcurrent <- 1,
  Pipelines <- {<<"bulkhead", "retry", "timeout">>, <<"timeout", "reject", "retry">>, <<"retry", "timeout", "retry">>},
  Frameworks <- {"gin", "echo"}, Chains <- {<<"context", "jwt", "limit">>, <<"limit", "context", "jwt">>, <<"jwt", "limit">>},
  Values <- HeaderValues, MaxValue <- 4, Credentials <- HeaderCredentials, MaxBearerTokenBytes <- 4, Retries <- {0, 1, 3, 4}, Second <- 3
Pool == INSTANCE RequestGuards WITH
  CallersPolicies <- {1, 2}, KindsPolicies <- {"plain"}, MaxAttempts <- 2, MaxConcurrent <- 1,
  Pipelines <- {<<"bulkhead", "timeout">>, <<"retry", "reject">>}, Callers <- {1, 2}, Rates <- {2, 3}, Bursts <- {2}, Idles <- {0, 1}, Ticks <- 2,
  MinIdle <- 2, MaxDuration <- 5, MaxDelay <- 1, MaxNow <- 6, Frameworks <- {"gin", "echo"},
  Chains <- {<<"context", "jwt", "limit">>, <<"limit", "context", "jwt">>, <<"jwt", "limit">>}, Values <- HeaderValues, MaxValue <- 4,
  Credentials <- HeaderCredentials, MaxBearerTokenBytes <- 4, Retries <- {0, 1, 3, 4}, Second <- 3
Jwt == INSTANCE JwtProvider WITH
  Callers <- {1, 2}, MaxKeys <- 3, MaxNow <- 2, KeyTTL <- 1, Capacity <- 2, RedisTTLs <- {0, 1, 2}, Leeway <- 0, Algorithms <- {"HS512", "RS256"},
  MaxNowTokens <- 4, MaxForced <- 2, KeyTTLTokens <- 2, ComposeOptions <- TokenOptions, ParseConfigs <- TokenConfigs
JwtReading == INSTANCE JwtReaders WITH
  Callers <- {1, 2}, MaxFlights <- 2, MaxNow <- 1, MaxTTL <- 1, TokenExpiry <- 1, KeyExpiry <- 2, MaxClears <- 1, MaxNowJwks <- 2, CacheTTL <- 2,
  Cooldown <- 1, MaxKeyCount <- 3, Allowed <- {"RS256", "ES256"}, Documents <- KeyDocuments,
  Lookups <- {<<"a", "RS256">>, <<"b", "ES256">>, <<"b", "none">>}
Kit == INSTANCE Testkit WITH
  Users <- {1, 2}, electorOf <- <<1, 2>>, Kinds <- {"elector", "lock", "limiter"}, Lease <- 1, Burst <- 2, UnitsPerToken <- 2, MaxNow <- 2,
  MaxLoops <- 1, MaxInjected <- 1, KindsHelpers <- {"canceled", "deadline", "waiter", "cleanup", "await", "capture", "env"}, Timeout <- 1,
  MaxNowHelpers <- 3, MaxAttempts <- 3, Runs <- {1, 2}, Values <- {"a", "", "unset"}
SharedKit == INSTANCE Testkit WITH
  Users <- {1, 2}, electorOf <- <<1, 1>>, Kinds <- {"elector", "lock", "limiter"}, Lease <- 2, Burst <- 2, UnitsPerToken <- 2, MaxNow <- 2,
  MaxLoops <- 1, MaxInjected <- 1, KindsHelpers <- {"canceled", "deadline", "waiter", "cleanup", "await", "capture", "env"}, Timeout <- 1,
  MaxNowHelpers <- 3, MaxAttempts <- 3, Runs <- {1, 2}, Values <- {"a", "", "unset"}
Structures == INSTANCE DataStructures WITH
  Generators <- IdKinds, MachineBits <- 1, SequenceBits <- 1, TimeBits <- 2, TickBits <- 1, Fractions <- 2, Epoch <- 1,
  Clock <- {-1, 0, 2, 3, 5, 7, 9}, Payloads <- {-1, 0, 5, 9, 14, 15}, CodeBits <- 3, ByteBits <- 4, TimeBytes <- 1, TotalBytes <- 2, MaxIssued <- 3,
  Items <- {1, 2}, Hash <- <<<<6, 3>>, <<2, 0>>>>, HashSize <- 8, Fallback <- 3, Filters <- FilterSizes, Handles <- FilterSizes, Callers <- {1},
  CuckooCapacity <- 2, MaxBits <- 8, Values <- {1, 2, 3}, Capacity <- 3, MaxCalls <- 5, Sizes <- {1, 2, 3, 4}, MaxInt <- 6
Text == INSTANCE TextSearch WITH
  Dictionaries <- WordLists, Configs <- SearchConfigs, Texts <- SearchTexts, Analyses <- TokenLists,
  LanguageLists <- {<<"en", "ko">>, <<"en", "unknown", "en">>, <<"en", "ko", "en", "ja">>}, MaxTextLength <- 5
Exchange == INSTANCE ExchangeRates WITH
  Callers <- {1, 2}, Amount <- 7, Providers <- RateProviders, CountryCodes <- [KRW |-> "KOR"], Bulletins <- EcbBulletins, DataSets <- ImfDataSets,
  MaxNow <- 2
Graph == INSTANCE GraphTools WITH
  Graphs <- GraphRecords, Documents <- GraphDocuments, Settings <- FileSettings, Callers <- {1}, Kinds <- {"gremlin", "falkordb", "neo4j"},
  Answers <- ServerAnswers, MaxResults <- 2, MaxDepth <- 2, Timeouts <- {0, 2}, Remaining <- {{}, {-1}, {1}, {3}}, MaxAttempts <- 1,
  labelOf <- VertexLabels, EdgeLists <- AccessEdges, Asked <- {"u", "v", "g1"}, effectOf <- [pa |-> "allow", pd |-> "deny"],
  actionOf <- [p1 |-> "read", p2 |-> "write"], isAdmin <- [r1 |-> TRUE, r2 |-> FALSE], Approved <- {<<"x", "read">>}, MaxGroupDepth <- 1

serviceVars == <<vars, which, store, proc, seen>>

ServicesInit ==
    /\ Init
    /\ \/ which = "breaker" /\ store = 0 /\ proc = 0 /\ seen = 0
       \/ which = "limiters" /\ Guards!InitLimiters
       \/ which = "server" /\ Guards!InitPolicies
       \/ which = "pool" /\ Pool!InitPolicies
       \/ which = "web" /\ Guards!InitWeb
       \/ which = "keys" /\ Jwt!InitKeys
       \/ which = "readers" /\ JwtReading!InitCache
       \/ which = "jwks" /\ JwtReading!InitJwks
       \/ which = "tokens" /\ Jwt!InitTokens
       \/ which = "fixtures" /\ Kit!InitFixtures
       \/ which = "shared" /\ SharedKit!InitFixtures
       \/ which = "helpers" /\ Kit!InitHelpers
       \/ which = "ids" /\ Structures!InitIds
       \/ which = "filters" /\ Structures!InitFilters
       \/ which = "collections" /\ Structures!InitBuffers
       \/ which = "text" /\ Text!Init
       \/ which = "rates" /\ Exchange!Init
       \/ which = "files" /\ Graph!InitFiles
       \/ which = "clients" /\ Graph!InitClients
       \/ which = "access" /\ Graph!InitAccess

ServicesNext ==
    \/ which = "breaker" /\ Next /\ UNCHANGED <<which, store, proc, seen>>
    \/ which = "limiters" /\ Guards!NextLimiters /\ UNCHANGED <<vars, which>>
    \/ which = "server" /\ Guards!NextPolicies /\ UNCHANGED <<vars, which>>
    \/ which = "pool" /\ Pool!NextPolicies /\ UNCHANGED <<vars, which>>
    \/ which = "web" /\ Guards!NextWeb /\ UNCHANGED <<vars, which>>
    \/ which = "keys" /\ Jwt!NextKeys /\ UNCHANGED <<vars, which>>
    \/ which = "readers" /\ JwtReading!NextCache /\ UNCHANGED <<vars, which>>
    \/ which = "jwks" /\ JwtReading!NextJwks /\ UNCHANGED <<vars, which>>
    \/ which = "tokens" /\ Jwt!NextTokens /\ UNCHANGED <<vars, which>>
    \/ which = "fixtures" /\ Kit!NextFixtures /\ UNCHANGED <<vars, which>>
    \/ which = "shared" /\ SharedKit!NextFixtures /\ UNCHANGED <<vars, which>>
    \/ which = "helpers" /\ Kit!NextHelpers /\ UNCHANGED <<vars, which>>
    \/ which = "ids" /\ Structures!NextIds /\ UNCHANGED <<vars, which>>
    \/ which = "filters" /\ Structures!NextFilters /\ UNCHANGED <<vars, which>>
    \/ which = "collections" /\ Structures!NextBuffers /\ UNCHANGED <<vars, which>>
    \/ which = "text" /\ Text!Next /\ UNCHANGED <<vars, which>>
    \/ which = "rates" /\ Exchange!Next /\ UNCHANGED <<vars, which>>
    \/ which = "files" /\ Graph!NextFiles /\ UNCHANGED <<vars, which>>
    \/ which = "clients" /\ Graph!NextClients /\ UNCHANGED <<vars, which>>
    \/ which = "access" /\ Graph!NextAccess /\ UNCHANGED <<vars, which>>

ServicesSpec == ServicesInit /\ [][ServicesNext]_serviceVars

\* Every component keeps to its types: the breaker's counters, buckets, keys, tokens, generators, buffers and calls.
TypesOK ==
    /\ TypeOK
    /\ which = "limiters" => Guards!TypeOKLimiters
    /\ which = "server" => Guards!TypeOKPolicies
    /\ which = "pool" => Pool!TypeOKPolicies
    /\ which = "web" => Guards!TypeOKWeb
    /\ which = "keys" => Jwt!TypeOKKeys
    /\ which = "readers" => JwtReading!TypeOKCache
    /\ which = "jwks" => JwtReading!TypeOKJwks
    /\ which = "tokens" => Jwt!TypeOKTokens
    /\ which = "fixtures" => Kit!TypeOKFixtures
    /\ which = "shared" => SharedKit!TypeOKFixtures
    /\ which = "helpers" => Kit!TypeOKHelpers
    /\ which = "ids" => Structures!TypeOKIds
    /\ which = "filters" => Structures!TypeOKFilters
    /\ which = "collections" => Structures!TypeOKBuffers
    /\ which = "text" => Text!TypeOK
    /\ which = "rates" => Exchange!TypeOK
    /\ which = "files" => Graph!TypeOKFiles
    /\ which = "clients" => Graph!TypeOKClients
    /\ which = "access" => Graph!TypeOKAccess

\* What stands before an operation holds: a bucket admits no more than its burst and rate allow, its RetryAfter is long
\* enough and a charge that may have been applied is reported (ratelimit), every bulkhead permit comes back and a policy
\* never runs an operation again that has answered or read its request (resilience), and a request reaches its handler
\* once and only past every middleware (web/gin, web/echo).
CallsGuarded ==
    /\ which = "limiters" => Guards!AdmittedBounded /\ Guards!RetryKept /\ Guards!ChargesKnown
    /\ which = "server" => Guards!PermitsReturned /\ Guards!AttemptsSafe
    /\ which = "pool" => Pool!PermitsReturned /\ Pool!AttemptsSafe
    /\ which = "web" => Guards!Gated /\ Guards!Answered

\* Signing keys converge and are retained (jwt.RotateIfNeeded), a dropped reader does not come back into the cache
\* (CachedProvider), a looked-up key is young and fits its algorithm (jwks.Provider), a token parses exactly as its
\* options asked (Provider.Compose, Parse), and nobody gets the context error of another caller.
TokensTrusted ==
    /\ which = "keys" => Jwt!Converged /\ Jwt!Retained
    /\ which = "readers" => JwtReading!NotRefilled /\ JwtReading!StaleOnlyByJoining /\ JwtReading!NotBlamed
    /\ which = "jwks" => JwtReading!ServedSafely /\ JwtReading!Throttled /\ JwtReading!NotBlamedJwks
    /\ which = "tokens" => Jwt!ParsedAsAsked

\* The in-memory elector, lock and limiter of the conformance suites keep what they granted (leadertest, locktest,
\* ratelimittest), and the checks of package testing pass what they should, fail nothing else and leave no trace.
TestkitSound ==
    /\ which = "fixtures" => Kit!GrantsKept /\ Kit!RecordTended /\ Kit!ChargesBounded
    /\ which = "shared" => SharedKit!GrantsKept /\ SharedKit!RecordTended
    /\ which = "helpers" => Kit!VerdictsSound /\ Kit!VerdictsFair /\ Kit!BorrowedReturned

\* However the clock is moved, a generator of package id never gives an id that is not larger than its last one.
IdsGrow == [][(which = "ids") => Structures!Grows]_serviceVars

\* Nothing is lost on the way through a structure or a format: ids carry their time and machine (id), filters have no
\* false negatives (probabilistic), buffers, chunks and pages keep every value (collections), and a graph file is read
\* back as it was written (graphio, graphml).
DataKept ==
    /\ which = "ids" => Structures!TimesCarried /\ Structures!MachinesApart
    /\ which = "filters" => Structures!NoFalseNegatives /\ Structures!CommitKnown
    /\ which = "collections" => Structures!BuffersKept /\ Structures!SlicesPreserve /\ Structures!PagesFit
    /\ which = "files" => Graph!ReadIsGraph /\ Graph!Accounted /\ Graph!RoundTrip

\* An answer is the one that the definition gives: the matches, masks and tokens of a text (textsearch), fresh quotes and
\* conversions at a published rate (money), whole results of a graph query (gremlin, falkordb, neo4j), access that an
\* allowing path grants and no denying one takes back (examples/graph/iamaccess).
AnswersRight ==
    /\ which = "text" => Text!FindsAll /\ Text!MaskedClean /\ Text!TokensAreSlices
    /\ which = "rates" => Exchange!QuotesFresh /\ Exchange!ConvertedAtPublishedRate
    /\ which = "clients" => Graph!AnswersWhole /\ Graph!HeldNothing
    /\ which = "access" => Graph!AccessAsDefined /\ Graph!ExcessReported

=============================================================================
