----------------------------- MODULE AwsClients -----------------------------
(***************************************************************************)
(* Clients of AWS that answer from a service or a cache, and the envelopes *)
(* sealed with KMS data keys.                                              *)
(***************************************************************************)
EXTENDS Integers, Sequences, SequencesExt, FiniteSets

VARIABLES store, proc, seen   \* what they hold is said in each part

vars == <<store, proc, seen>>

-----------------------------------------------------------------------------
(***************************************************************************)
(* )                                                                       *)
(***************************************************************************)
CONSTANTS
    Kinds, Callers,
    Names,                   \* [text, size, utf8, blank]
    MaxNameBytes, CacheTTLs, MaxVersions, MaxNow,
    Requests,                \* rds/auth: [labels, port, region, username]
    MaxField, MaxLabel, MaxHost, MaxPort,
    Writes,                  \* batchwrite: [table |-> sequence of items]
    MaxItemsPerBatch, Attempts

(* Packages ssm and secretsmanager (a lookup through an optional loading      *)
(* cache), rds/auth (a signed token for a request) and dynamodb/batchwrite    *)
(* (WriteAll: chunks of items, the unprocessed ones sent again). One kind is  *)
(* modelled in a behaviour; contexts may end at any time.                     *)
(***************************************************************************)

Forms == {"plain", "decrypted", "text", "binary"}
NoValue == [form |-> "", version |-> 0, name |-> ""]
Idle == [pc |-> "idle", name |-> "", secure |-> FALSE, value |-> NoValue, error |-> "", cancelled |-> FALSE]
NoWrite == [pc |-> "new", items |-> <<>>, chunk |-> 1, attempt |-> 1, pending |-> {}, tried |-> 0, processed |-> 0, left |-> {}, error |-> "", cancelled |-> FALSE]

-----------------------------------------------------------------------------
(* Options and validation                                                  *)

\* New: a lookup without a cache has no TTL; a TTL of zero bypasses the cache.
New(ttl, cached) == ttl >= 0 /\ (ttl > 0 => cached)

validateName(n) == n.utf8 /\ ~n.blank /\ n.size <= MaxNameBytes

validField(f) == f.utf8 /\ f.size \in 1 .. MaxField /\ ~f.spaced

validLabel(l) == l.size \in 1 .. MaxLabel /\ ~l.hyphenated /\ l.ascii

\* A host is an IP address or dot-separated labels within the limits.
validHost(h) ==
    \/ h.colon /\ h.ip
    \/ /\ ~h.colon /\ h.labels # <<>>
       /\ FoldLeft(LAMBDA n, l : n + l.size + 1, -1, h.labels) <= MaxHost
       /\ \A i \in DOMAIN h.labels : validLabel(h.labels[i])

validEndpoint(r) == validHost(r.host) /\ r.port \in 1 .. MaxPort

validateRequest(r) == validEndpoint(r) /\ validField(r.region) /\ validField(r.username)

\* newOptions: DefaultMaxAttempts unless set; a value that is not positive is refused.
newOptions(attempts) == attempts > 0

-----------------------------------------------------------------------------

Lookups == {"ssm", "secretsmanager"}

InitLookups ==
    /\ \E k \in Kinds, ttl \in CacheTTLs, cached \in BOOLEAN, w \in Writes, a \in Attempts :
        /\ New(ttl, cached) /\ newOptions(a)
        /\ k \notin Lookups => ttl = 0 /\ ~cached
        /\ k # "batchwrite" => w = CHOOSE x \in Writes : TRUE
        /\ k # "batchwrite" => a = CHOOSE x \in Attempts : newOptions(x)
        /\ store = [kind |-> k, ttl |-> ttl, cached |-> cached, now |-> 0, version |-> 1, cache |-> [x \in {} |-> 0],
                    request |-> w, maxAttempts |-> a, written |-> {}]
    /\ proc = IF store.kind = "batchwrite" THEN [c \in {1} |-> NoWrite] ELSE [c \in Callers |-> Idle]
    /\ seen = [served |-> {}, done |-> {}]

TypeOKLookups == /\ store.now \in 0 .. MaxNow /\ store.version \in 1 .. MaxVersions
          /\ \A c \in DOMAIN proc : proc[c].pc \in {"idle", "cached", "call", "token", "new", "write", "sleep", "returned"}

become(c, p) == proc' = [proc EXCEPT ![c] = p]
returned(p, value, error) == [p EXCEPT !.pc = "returned", !.value = value, !.error = error]
failed(p, error) == returned(p, NoValue, error)

Cancel(c) ==
    /\ proc[c].pc \notin {"idle", "returned"} /\ ~proc[c].cancelled
    /\ become(c, [proc[c] EXCEPT !.cancelled = TRUE])
    /\ UNCHANGED <<store, seen>>

Tick == store.kind \in Lookups /\ store.now < MaxNow /\ store' = [store EXCEPT !.now = @ + 1] /\ UNCHANGED <<proc, seen>>

\* The parameter or secret is given a new value.
Rotate == store.kind \in Lookups /\ store.version < MaxVersions /\ store' = [store EXCEPT !.version = @ + 1] /\ UNCHANGED <<proc, seen>>

Again(c) == store.kind # "batchwrite" /\ proc[c].pc = "returned" /\ become(c, Idle) /\ UNCHANGED <<store, seen>>

-----------------------------------------------------------------------------
(* ssm and secretsmanager                                                  *)

started(n, secure) ==
    IF ~validateName(n) THEN failed(Idle, "name")
    ELSE [Idle EXCEPT !.pc = IF store.ttl = 0 THEN "call" ELSE "cached", !.name = n.text, !.secure = secure]

\* Provider.Get and GetSecure of ssm, Provider.Get of secretsmanager.
Get(c, n, secure) == store.kind = "ssm" /\ proc[c].pc = "idle" /\ become(c, started(n, secure)) /\ UNCHANGED <<store, seen>>
GetSecret(c, n) == store.kind = "secretsmanager" /\ proc[c].pc = "idle" /\ become(c, started(n, FALSE)) /\ UNCHANGED <<store, seen>>

cacheKeyByName(p) == <<"", p.name>>

\* A decrypted and an undecrypted value of one name are cached apart.
cacheKey(p) == <<IF store.kind # "ssm" THEN "" ELSE IF p.secure THEN "secure" ELSE "plain", p.name>>

served(p, value) == IF p.cancelled THEN failed(p, "canceled") ELSE returned(p, value, "")

\* GetOrLoad of the cache: an entry within its TTL, or a load, or a failure of its own.
GetOrLoad(c, broken) ==
    /\ proc[c].pc = "cached"
    /\ LET p == proc[c]
           k == cacheKey(p)
           hit == k \in DOMAIN store.cache /\ store.now < store.cache[k].until
       IN  become(c, IF broken THEN failed(p, IF p.cancelled THEN "canceled" ELSE "cache")
                     ELSE IF hit THEN served(p, store.cache[k].value)
                     ELSE [p EXCEPT !.pc = "call"])
    /\ UNCHANGED <<store, seen>>

\* What an answer of the service amounts to: a value, or one of the errors.
lookupError(answer) ==
    CASE answer \in Forms                 -> ""
      [] answer = "error"                 -> "lookup"
      [] answer \in {"nil", "both"}       -> "malformed"
      [] answer = "missing"               -> "missing"

\* A good answer reaches the caller, and the cache with its TTL, unless the context ended during the call.
taken(c, answer) ==
    /\ LET p == proc[c]
           error == IF p.cancelled THEN "canceled" ELSE lookupError(answer)
           value == [form |-> answer, version |-> store.version, name |-> p.name]
           entry == [value |-> value, until |-> store.now + store.ttl]
       IN  /\ become(c, IF error # "" THEN failed(p, error) ELSE returned(p, value, ""))
           /\ store' = IF error # "" \/ store.ttl = 0 THEN store
                       ELSE [store EXCEPT !.cache = [k \in DOMAIN @ \cup {cacheKey(p)} |-> IF k = cacheKey(p) THEN entry ELSE @[k]]]
    /\ UNCHANGED seen

\* GetParameter decrypts when asked to; a secret is a string or binary, never both.
lookup(c) ==
    /\ store.kind = "ssm" /\ proc[c].pc = "call"
    /\ \E answer \in {"error", "nil", "missing", IF proc[c].secure THEN "decrypted" ELSE "plain"} : taken(c, answer)
lookupSecret(c) ==
    /\ store.kind = "secretsmanager" /\ proc[c].pc = "call"
    /\ \E answer \in {"error", "nil", "missing", "text", "binary", "both"} : taken(c, answer)

-----------------------------------------------------------------------------
(* rds/auth                                                                *)

BuildAuthToken(c, r, credentials) ==
    /\ store.kind = "rds" /\ proc[c].pc = "idle"
    /\ become(c, IF ~validateRequest(r) THEN failed(Idle, "request") ELSE IF ~credentials THEN failed(Idle, "credentials") ELSE [Idle EXCEPT !.pc = "token"])
    /\ UNCHANGED <<store, seen>>

\* The signer answers; an empty or malformed token is refused, and a context that has ended hides a good one.
Signed(c, answer) ==
    /\ proc[c].pc = "token"
    /\ become(c, IF proc[c].cancelled THEN failed(proc[c], "canceled")
                 ELSE CASE answer = "error" -> failed(proc[c], "build")
                        [] answer = "empty" -> failed(proc[c], "malformed")
                        [] OTHER            -> returned(proc[c], [NoValue EXCEPT !.form = "text"], ""))
    /\ UNCHANGED <<store, seen>>

-----------------------------------------------------------------------------
(* dynamodb/batchwrite                                                     *)

\* Tables in the order of their names, and each table's items in the caller's order.
flattenRequestItems(request) == FlattenSeq([t \in DOMAIN request |-> [i \in DOMAIN request[t] |-> <<t, request[t][i]>>]])

chunkItems(items) ==
    [k \in 1 .. (Len(items) + MaxItemsPerBatch - 1) \div MaxItemsPerBatch |->
        ToSet(SubSeq(items, (k - 1) * MaxItemsPerBatch + 1, IF k * MaxItemsPerBatch < Len(items) THEN k * MaxItemsPerBatch ELSE Len(items)))]

WriteAll ==
    /\ store.kind = "batchwrite" /\ proc[1].pc = "new"
    /\ LET items == flattenRequestItems(store.request)
       IN  become(1, IF items = <<>> THEN [proc[1] EXCEPT !.pc = "returned", !.error = "empty"]
                     ELSE [proc[1] EXCEPT !.pc = "write", !.items = items, !.pending = chunkItems(items)[1]])
    /\ UNCHANGED <<store, seen>>

finish(p, error) == [p EXCEPT !.pc = "returned", !.error = error]

\* The next chunk, or the end of the last one.
nextChunk(p) ==
    IF p.chunk = Len(chunkItems(p.items)) THEN finish(p, "")
    ELSE [p EXCEPT !.chunk = @ + 1, !.attempt = 1, !.pending = chunkItems(p.items)[p.chunk + 1]]

countedWhole(p, left) ==
    LET total == Cardinality(chunkItems(p.items)[p.chunk])
    IN  IF left = {} THEN nextChunk([p EXCEPT !.processed = @ + total])
        ELSE IF p.attempt = store.maxAttempts THEN finish([p EXCEPT !.processed = @ + total, !.left = left], "unprocessed")
        ELSE [p EXCEPT !.pc = "sleep", !.pending = left]

pendingKept(p, left) ==
    LET total == Cardinality(chunkItems(p.items)[p.chunk])
    IN  IF left = {} THEN nextChunk([p EXCEPT !.processed = @ + total])
        ELSE IF p.attempt = store.maxAttempts THEN finish([p EXCEPT !.processed = @ + total - Cardinality(left), !.left = left], "unprocessed")
        ELSE [p EXCEPT !.pc = "sleep"]

\* An answered attempt: the chunk is done, or what it left is sent again, or the attempts are spent.
answered(p, left) ==
    LET total == Cardinality(chunkItems(p.items)[p.chunk])
    IN  IF left = {} THEN nextChunk([p EXCEPT !.processed = @ + total])
        ELSE IF p.attempt = store.maxAttempts THEN finish([p EXCEPT !.processed = @ + total - Cardinality(left), !.left = left], "unprocessed")
        ELSE [p EXCEPT !.pc = "sleep", !.pending = left]

\* One BatchWriteItem: the table takes all but left, and the answer may be an error all the same.
BatchWriteItem(left, fails) ==
    /\ store.kind = "batchwrite" /\ proc[1].pc = "write" /\ left \subseteq proc[1].pending
    /\ LET p == [proc[1] EXCEPT !.tried = @ + 1]
           written == p.pending \ left
       IN  IF proc[1].cancelled
           THEN become(1, finish(proc[1], "canceled")) /\ UNCHANGED <<store, seen>>
           ELSE /\ store' = [store EXCEPT !.written = @ \cup written]
                /\ become(1, IF fails THEN finish(p, "client") ELSE answered(p, left))
                /\ seen' = [seen EXCEPT !.served = @ \cup (p.pending \cap seen.done), !.done = IF fails THEN @ ELSE @ \cup written]

\* The backoff passes, or the context ends first.
sleep ==
    /\ store.kind = "batchwrite" /\ proc[1].pc = "sleep"
    /\ become(1, IF proc[1].cancelled THEN finish(proc[1], "canceled") ELSE [proc[1] EXCEPT !.pc = "write", !.attempt = @ + 1])
    /\ UNCHANGED <<store, seen>>

NextLookups ==
    \/ Tick \/ Rotate
    \/ \E c \in DOMAIN proc :
        \/ Cancel(c) \/ Again(c)
        \/ \E n \in Names : GetSecret(c, n) \/ \E s \in BOOLEAN : Get(c, n, s)
        \/ store.kind \in Lookups /\ \E b \in BOOLEAN : GetOrLoad(c, b)
        \/ lookup(c) \/ lookupSecret(c)
        \/ store.kind = "rds" /\ \E r \in Requests, b \in BOOLEAN : BuildAuthToken(c, r, b)
        \/ store.kind = "rds" /\ \E a \in {"error", "empty", "token"} : Signed(c, a)
    \/ WriteAll
    \/ store.kind = "batchwrite" /\ \E l \in SUBSET proc[1].pending, f \in BOOLEAN : BatchWriteItem(l, f)
    \/ sleep

-----------------------------------------------------------------------------
(* Properties                                                              *)

\* A lookup hands out a value of the name it was asked for, decrypted exactly when that was asked for, however other
\* callers' lookups of the name filled the cache; and a caller whose context has ended gets no value.
LookupsKept ==
    \A c \in DOMAIN proc :
        store.kind = "ssm" /\ proc[c].pc = "returned" /\ proc[c].error = "" =>
            proc[c].value.name = proc[c].name /\ (proc[c].value.form = "decrypted" <=> proc[c].secure) /\ ~proc[c].cancelled

\* WriteAll counts as processed no more than the table took, exactly what it took of the chunks that were answered; a
\* nil error means that everything is written, an UnprocessedItemsError names exactly what of the last chunk is not; and
\* no item the table has acknowledged is sent again.
WritesAccounted ==
    store.kind = "batchwrite" =>
        LET p == proc[1] IN
        /\ p.processed <= Cardinality(store.written)
        /\ seen.served = {}
        /\ p.pc = "returned" /\ p.error = "" => store.written = ToSet(p.items) /\ p.processed = Len(p.items)
        /\ p.error = "unprocessed" => p.left = chunkItems(p.items)[p.chunk] \ store.written

-----------------------------------------------------------------------------
(***************************************************************************)
(* )                                                                       *)
(***************************************************************************)
CONSTANTS
    CallersKms,
    Providers,               \* [key, options]: options are sets of <<key, value>>
    Texts, AssociatedData,   \* sequences of bytes
    MaxPlaintextSize, MaxAssociatedDataSize, MaxEncryptedDataKeySize, MaxKeyIDSize, MaxContextEntries, MaxContextSize,
    Chars,                   \* base64 characters checked four at a time
    MaxKeys

(* Packages encrypt and encrypt/kms: a payload is sealed under a data key     *)
(* from KMS and carried, with that key encrypted, in a canonical envelope.    *)
(* The cipher is external: what it seals opens under the same key, nonce and  *)
(* associated data only. Bytes are 0 .. 255; a base64 character is its value, *)
(* Pad for "=" or Bad for any other.                                          *)
(***************************************************************************)

EnvelopeVersion == 1
AlgorithmAES256GCM == "AES-256-GCM"
gcmNonceSize == 1
gcmOverhead == 1
Pad == 64
Bad == 65

-----------------------------------------------------------------------------
(* Base64                                                                  *)

byteAt(s, i) == IF i <= Len(s) THEN s[i] ELSE 0
pow(b, n) == CASE n = 0 -> 1 [] n = 1 -> b [] n = 2 -> b * b [] n = 3 -> b * b * b

EncodedLen(n) == ((n + 2) \div 3) * 4

writeBase64(bytes) ==
    [k \in 1 .. EncodedLen(Len(bytes)) |->
        LET g == ((k - 1) \div 4) * 3
            j == (k - 1) % 4
            v == byteAt(bytes, g + 1) * 65536 + byteAt(bytes, g + 2) * 256 + byteAt(bytes, g + 3)
        IN  IF g + j > Len(bytes) THEN Pad ELSE (v \div pow(64, 3 - j)) % 64]

validBase64Loosely(s) ==
    LET padding == Cardinality({i \in DOMAIN s : \A j \in i .. Len(s) : s[j] = Pad})
        content == Len(s) - padding
    IN  Len(s) % 4 = 0 /\ padding <= 2 /\ \A i \in 1 .. content : s[i] < Pad

\* Padding only at the end, and no set bits that the decoder would drop.
validCanonicalBase64(s) ==
    LET padding == Cardinality({i \in DOMAIN s : \A j \in i .. Len(s) : s[j] = Pad})
        content == Len(s) - padding
    IN  /\ Len(s) % 4 = 0 /\ padding <= 2
        /\ \A i \in 1 .. content : s[i] < Pad
        /\ padding = 1 => s[content] % 4 = 0
        /\ padding = 2 => s[content] % 16 = 0

decoded(s) ==
    LET padding == Cardinality({i \in DOMAIN s : s[i] = Pad})
        bits(g) == FoldLeft(LAMBDA v, c : v * 64 + (IF c = Pad THEN 0 ELSE c), 0, SubSeq(s, g + 1, g + 4))
    IN  [i \in 1 .. (Len(s) \div 4) * 3 - padding |-> (bits(((i - 1) \div 3) * 4) \div pow(256, 2 - ((i - 1) % 3))) % 256]

\* A string that is not canonical, or longer than the field may be, is refused.
decodeCanonicalBase64(s, max) == IF Len(s) <= EncodedLen(max) /\ validCanonicalBase64(s) THEN <<decoded(s)>> ELSE <<>>

-----------------------------------------------------------------------------
(* The envelope                                                            *)

validateContext(context) ==
    /\ Cardinality(context) <= MaxContextEntries
    /\ \A e \in context : e[1] # 0
    /\ FoldLeft(LAMBDA n, e : n + 2, 0, SetToSeq(context)) <= MaxContextSize

contextEntries(context) == SetToSortSeq(context, LAMBDA a, b : a[1] < b[1])

validKeyID(key) == key \in 1 .. MaxKeyIDSize

validateMetadata(e) ==
    CASE e.version # EnvelopeVersion                                     -> "version"
      [] e.algorithm # AlgorithmAES256GCM                                -> "algorithm"
      [] ~validKeyID(e.key)                                              -> "keyID"
      [] Len(e.dataKey) \notin 1 .. MaxEncryptedDataKeySize              -> "malformed"
      [] ~validateContext(e.context)                                     -> "malformed"
      [] OTHER                                                           -> ""

validateEnvelope(e) ==
    IF validateMetadata(e) # "" THEN validateMetadata(e)
    ELSE IF Len(e.nonce) # gcmNonceSize \/ Len(e.ciphertext) < gcmOverhead THEN "malformed"
    ELSE IF Len(e.ciphertext) - gcmOverhead > MaxPlaintextSize THEN "tooLarge"
    ELSE ""

fieldNames == <<"version", "algorithm", "key_id", "encrypted_data_key", "encryption_context", "nonce", "ciphertext">>

\* A JSON string: its text, and whether it is spelled as the encoder spells it.
Raw(text) == [text |-> text, canonical |-> TRUE]

MarshalBinary(e) ==
    [fields |-> fieldNames, version |-> e.version, algorithm |-> Raw(e.algorithm), key |-> Raw(e.key), dataKey |-> writeBase64(e.dataKey),
     context |-> [i \in DOMAIN contextEntries(e.context) |-> <<Raw(contextEntries(e.context)[i][1]), Raw(contextEntries(e.context)[i][2])>>],
     nonce |-> writeBase64(e.nonce), ciphertext |-> writeBase64(e.ciphertext), trailing |-> FALSE]

parseContextUnordered(entries) ==
    /\ Len(entries) <= MaxContextEntries
    /\ \A i \in DOMAIN entries : entries[i][1].canonical /\ entries[i][2].canonical /\ entries[i][1].text # 0
    /\ \A i, j \in DOMAIN entries : entries[i][1].text = entries[j][1].text => i = j

\* The context's entries are in the order of their keys, so none repeats.
parseContext(entries) ==
    /\ Len(entries) <= MaxContextEntries
    /\ \A i \in DOMAIN entries : entries[i][1].canonical /\ entries[i][2].canonical /\ entries[i][1].text # 0
    /\ \A i \in DOMAIN entries : i > 1 => entries[i - 1][1].text < entries[i][1].text

\* The error of the first field that is wrong, in the order of the fields.
parseCanonicalEnvelope(d) ==
    IF d.fields # fieldNames THEN "malformed"
    ELSE IF d.version # EnvelopeVersion THEN "version"
    ELSE IF ~d.algorithm.canonical THEN "malformed"
    ELSE IF d.algorithm.text # AlgorithmAES256GCM THEN "algorithm"
    ELSE IF ~d.key.canonical \/ decodeCanonicalBase64(d.dataKey, MaxEncryptedDataKeySize) = <<>> THEN "malformed"
    ELSE IF ~parseContext(d.context) THEN "malformed"
    ELSE IF decodeCanonicalBase64(d.nonce, gcmNonceSize) = <<>> THEN "malformed"
    ELSE IF Len(d.ciphertext) > EncodedLen(MaxPlaintextSize + gcmOverhead) THEN "tooLarge"
    ELSE IF decodeCanonicalBase64(d.ciphertext, MaxPlaintextSize + gcmOverhead) = <<>> \/ d.trailing THEN "malformed"
    ELSE ""

fromWire(d) ==
    [version |-> d.version, algorithm |-> d.algorithm.text, key |-> d.key.text, dataKey |-> decoded(d.dataKey),
     context |-> {<<d.context[i][1].text, d.context[i][2].text>> : i \in DOMAIN d.context},
     nonce |-> decoded(d.nonce), ciphertext |-> decoded(d.ciphertext)]

ParseEnvelope(d) == LET error == parseCanonicalEnvelope(d) IN IF error # "" THEN error ELSE validateEnvelope(fromWire(d))

canonicalMetadata(e) == <<e.version, e.key>> \o e.dataKey \o FlattenSeq(contextEntries(e.context))

\* Length-prefixed, so that metadata and the caller's data cannot be taken for one another.
buildAssociatedData(metadata, data) == <<Len(metadata)>> \o metadata \o <<Len(data)>> \o data

-----------------------------------------------------------------------------
(* Providers                                                               *)

\* New: the options' contexts together, a key given twice is refused.
NewKms(p) ==
    /\ validKeyID(p.key)
    /\ \A i \in DOMAIN p.options : validateContext(p.options[i])
    /\ \A i, j \in DOMAIN p.options : \A a \in p.options[i], b \in p.options[j] : a[1] = b[1] => i = j
    /\ validateContext(UNION ToSet(p.options))

contextOf(p) == UNION ToSet(p.options)

IdleKms == [pc |-> "idle", provider |-> 0, text |-> <<>>, data |-> <<>>, key |-> 0, doc |-> 0, held |-> {}, deferred |-> {}, cancelled |-> FALSE, error |-> ""]

InitKms == /\ store = [keys |-> <<>>, sealed |-> <<>>]
        /\ proc = [c \in CallersKms |-> IdleKms]
        /\ seen = [issued |-> <<>>, quad |-> <<>>]

TypeOKKms == Len(store.keys) <= MaxKeys /\ \A c \in CallersKms : proc[c].pc \in {"idle", "generate", "seal", "kms", "open", "encrypted", "decrypted", "failed"}

becomeKms(c, p) == proc' = [proc EXCEPT ![c] = p]

\* Every way out runs the deferred zeroBytes.
zeroed(p) == [p EXCEPT !.held = @ \ p.deferred, !.deferred = {}]
fail(p, error) == [zeroed(p) EXCEPT !.pc = "failed", !.error = error, !.text = <<>>]
envelopeOf(p, key, ciphertext) ==
    [version |-> EnvelopeVersion, algorithm |-> AlgorithmAES256GCM, key |-> Providers[p].key, dataKey |-> <<key>>, context |-> contextOf(Providers[p]),
     nonce |-> <<key>>, ciphertext |-> ciphertext]

CancelKms(c) == /\ proc[c].pc \in {"generate", "seal", "kms", "open"} /\ ~proc[c].cancelled
             /\ becomeKms(c, [proc[c] EXCEPT !.cancelled = TRUE]) /\ UNCHANGED <<store, seen>>

AgainKms(c) == proc[c].pc \in {"encrypted", "decrypted", "failed"} /\ becomeKms(c, IdleKms) /\ UNCHANGED <<store, seen>>

Encrypt(c, p, text, data) ==
    /\ proc[c].pc = "idle" /\ NewKms(Providers[p])
    /\ LET q == [IdleKms EXCEPT !.provider = p, !.text = text, !.data = data]
       IN  becomeKms(c, IF Len(text) > MaxPlaintextSize \/ Len(data) > MaxAssociatedDataSize THEN fail(q, "tooLarge") ELSE [q EXCEPT !.pc = "generate"])
    /\ UNCHANGED <<store, seen>>

deferredAfterCheck(p, answer) == IF answer \in {"key", "short"} THEN [p EXCEPT !.held = {"plaintext", "blob"}, !.deferred = @ \cup {"plaintext", "blob"}] ELSE IF answer = "nil" THEN p ELSE [p EXCEPT !.held = {"plaintext"}]

\* The answer's buffers are to be zeroed whatever else is wrong with it.
deferredOutput(p, answer) == IF answer = "nil" THEN p ELSE [p EXCEPT !.held = {"plaintext", "blob"}, !.deferred = @ \cup {"plaintext", "blob"}]

\* KMS answers with a key, with an error (an output beside it all the same), with nothing or with a key of another size.
GenerateDataKey(c, answer) ==
    /\ proc[c].pc = "generate" /\ Len(store.keys) < MaxKeys
    /\ LET p == deferredOutput(proc[c], answer)
           made == Len(store.keys) + 1
       IN  /\ store' = IF answer = "key" THEN [store EXCEPT !.keys = Append(@, [key |-> Providers[p.provider].key, context |-> contextOf(Providers[p.provider])])] ELSE store
           /\ becomeKms(c, IF answer = "error" THEN fail(p, "kms")
                        ELSE IF answer # "key" THEN fail(p, "dataKey")
                        ELSE IF p.cancelled THEN fail(p, "canceled")
                        ELSE [p EXCEPT !.pc = "seal", !.key = made, !.held = @ \cup {"local"}, !.deferred = @ \cup {"local"}])
    /\ UNCHANGED seen

\* EncryptDetached: the cipher's output is its index among what was sealed, and the text's length.
EncryptDetached(key, text, aad) == [key |-> key, nonce |-> <<key>>, aad |-> aad, text |-> text]

Seal(c) ==
    /\ proc[c].pc = "seal"
    /\ LET p == proc[c]
           cipher == <<Len(store.sealed) + 1>> \o [i \in DOMAIN p.text |-> 0]
           e == envelopeOf(p.provider, p.key, cipher)
           aad == buildAssociatedData(canonicalMetadata(e), p.data)
       IN  IF p.cancelled THEN becomeKms(c, fail(p, "canceled")) /\ UNCHANGED <<store, seen>>
           ELSE /\ store' = [store EXCEPT !.sealed = Append(@, EncryptDetached(p.key, p.text, aad))]
                /\ seen' = [seen EXCEPT !.issued = Append(@, [doc |-> MarshalBinary(e), text |-> p.text, data |-> p.data, provider |-> p.provider])]
                /\ becomeKms(c, [zeroed(p) EXCEPT !.pc = "encrypted", !.doc = Len(seen.issued) + 1])

\* The document as it was issued, or as something that re-encoded, cut or mixed it would hand it back.
Rewritten(d) ==
    {d, [d EXCEPT !.trailing = TRUE], [d EXCEPT !.version = 2], [d EXCEPT !.key = [@ EXCEPT !.canonical = FALSE]], [d EXCEPT !.context = Reverse(@)],
     [d EXCEPT !.nonce = [@ EXCEPT ![2] = @ + 1]], [d EXCEPT !.context = IF @ = <<>> THEN @ ELSE Tail(@)], [d EXCEPT !.fields = Tail(@)],
     [d EXCEPT !.ciphertext = @ \o @], [d EXCEPT !.algorithm = Raw("AES-128-GCM")]} \cup {[d EXCEPT !.ciphertext = seen.issued[i].doc.ciphertext] : i \in DOMAIN seen.issued}

Decrypt(c, p, d, data) ==
    /\ proc[c].pc = "idle" /\ NewKms(Providers[p])
    /\ LET q == [IdleKms EXCEPT !.provider = p, !.data = data, !.doc = d]
           error == ParseEnvelope(d)
       IN  becomeKms(c, IF Len(data) > MaxAssociatedDataSize THEN fail(q, "tooLarge")
                     ELSE IF error # "" THEN fail(q, error)
                     ELSE IF fromWire(d).key # Providers[p].key \/ fromWire(d).context # contextOf(Providers[p]) THEN fail(q, "mismatch")
                     ELSE [q EXCEPT !.pc = "kms"])
    /\ UNCHANGED <<store, seen>>

\* KMS decrypts a data key for the key id and context it was made with.
KmsDecrypt(c, answer) ==
    /\ proc[c].pc = "kms"
    /\ LET p == proc[c]
           k == fromWire(p.doc).dataKey[1]
           known == k \in DOMAIN store.keys /\ store.keys[k] = [key |-> Providers[p.provider].key, context |-> contextOf(Providers[p.provider])]
           out == IF answer = "nil" THEN p ELSE [p EXCEPT !.held = {"plaintext"}, !.deferred = {"plaintext"}]
       IN  becomeKms(c, IF answer = "error" \/ ~known THEN fail(out, "kms")
                     ELSE IF answer # "key" THEN fail(out, "dataKey")
                     ELSE IF p.cancelled THEN fail(out, "canceled")
                     ELSE [out EXCEPT !.pc = "open", !.key = k, !.held = @ \cup {"local"}, !.deferred = @ \cup {"local"}])
    /\ UNCHANGED <<store, seen>>

DecryptDetached(key, nonce, cipher, aad) ==
    IF /\ cipher[1] \in DOMAIN store.sealed
       /\ LET s == store.sealed[cipher[1]] IN s.key = key /\ s.nonce = nonce /\ s.aad = aad /\ Len(cipher) = Len(s.text) + gcmOverhead
    THEN <<store.sealed[cipher[1]].text>> ELSE <<>>

Open(c) ==
    /\ proc[c].pc = "open"
    /\ LET p == proc[c]
           e == fromWire(p.doc)
           opened == DecryptDetached(p.key, e.nonce, e.ciphertext, buildAssociatedData(canonicalMetadata(e), p.data))
       IN  becomeKms(c, IF opened = <<>> THEN fail(p, "authentication")
                     ELSE IF p.cancelled THEN fail(p, "canceled")
                     ELSE [zeroed(p) EXCEPT !.pc = "decrypted", !.text = opened[1]])
    /\ UNCHANGED <<store, seen>>

\* A base64 string of four characters is looked at (the encoding on its own).
Look(q) == seen.quad = <<>> /\ store.keys = <<>> /\ (\A c \in CallersKms : proc[c] = IdleKms) /\ seen' = [seen EXCEPT !.quad = q] /\ UNCHANGED <<store, proc>>

NextKms ==
    \/ \E q \in [1 .. 4 -> Chars] : Look(q)
    \/ seen.quad = <<>> /\ \E c \in CallersKms :
        \/ CancelKms(c) \/ AgainKms(c) \/ Seal(c) \/ Open(c)
        \/ \E p \in DOMAIN Providers, t \in Texts, a \in AssociatedData : Encrypt(c, p, t, a)
        \/ \E a \in {"key", "error", "nil", "short"} : GenerateDataKey(c, a) \/ KmsDecrypt(c, a)
        \/ \E i \in DOMAIN seen.issued : \E d \in Rewritten(seen.issued[i].doc) : \E p \in DOMAIN Providers, a \in AssociatedData : Decrypt(c, p, d, a)

-----------------------------------------------------------------------------
(* Properties                                                              *)

\* Decrypt returns a text only for a document exactly as some Encrypt issued it, and then the text it sealed, to a
\* provider with the same key id and context and a caller with the same associated data.
OpensAsSealed ==
    \A c \in CallersKms : proc[c].pc = "decrypted" =>
        \E i \in DOMAIN seen.issued :
            LET s == seen.issued[i] IN
            /\ s.doc = proc[c].doc /\ s.text = proc[c].text /\ s.data = proc[c].data
            /\ Providers[s.provider].key = Providers[proc[c].provider].key /\ contextOf(Providers[s.provider]) = contextOf(Providers[proc[c].provider])

\* No call leaves a data key, or the encrypted one it was given, in a buffer of its own: every way out zeroes them.
KeysZeroed == \A c \in CallersKms : proc[c].pc \in {"encrypted", "decrypted", "failed"} => proc[c].held = {}

\* One encoding per value: a base64 string that is accepted is the encoding of what it decodes to.
EncodingIsUnique == seen.quad # <<>> /\ validCanonicalBase64(seen.quad) => writeBase64(decoded(seen.quad)) = seen.quad

=============================================================================
