---------------------------- MODULE ExchangeRates ----------------------------
(***************************************************************************)
(* Package money: the ECB and IMF exchange-rate providers with their cached   *)
(* snapshots, retries and stale fallback, asked by several callers at once,   *)
(* and the conversion of an amount with the quote they answer. A rate is a    *)
(* fraction [num, den]; the decimals' precision is left out.                  *)
(***************************************************************************)
EXTENDS Integers, Sequences, SequencesExt, FiniteSets

CONSTANTS
    Callers,
    Amount,                  \* minor units that each caller converts
    Providers,               \* [kind, cacheTTL, maxStale, retryCount, allowStale, frequency, pairs], with the <<base, target>> asked of it
    CountryCodes,            \* currency -> country, of the IMF provider
    Bulletins,               \* what the ECB publishes, in order: [time, rates]
    DataSets,                \* what the IMF publishes, in order: sets of series
    MaxNow                   \* bound on the clock

VARIABLES store, proc, seen

vars == <<store, proc, seen>>

Invalid == "XXX"
NoRate == [base |-> "", quote |-> "", num |-> 0, den |-> 1]
NoSnapshot == [rates |-> <<>>, version |-> 0, fetchedAt |-> 0, expiresAt |-> 0]
NoQuote == [rate |-> NoRate, version |-> 0, fetchedAt |-> 0, expiresAt |-> 0, stale |-> FALSE]
Idle == [pc |-> "idle", base |-> "", target |-> "", key |-> <<>>, now |-> 0, stale |-> NoSnapshot, fresh |-> NoSnapshot, attempt |-> 0,
         cancelled |-> FALSE, failedAt |-> 0, quote |-> NoQuote, converted |-> [currency |-> "", units |-> 0], error |-> ""]

Provider == store.provider
Publications == IF store.provider.kind = "ecb" THEN Len(Bulletins) ELSE Len(DataSets)

Init ==
    /\ \E p \in Providers : store = [provider |-> p, now |-> 0, version |-> 1, snapshots |-> <<>>]
    /\ proc = [c \in Callers |-> Idle]
    /\ seen = 0

TypeOK == /\ store.now \in 0 .. MaxNow /\ store.version \in 1 .. Publications
          /\ \A c \in Callers : proc[c].pc \in {"idle", "lookup", "stale", "fetch", "store", "wait", "quoted", "returned"} /\ proc[c].attempt \in 0 .. Provider.retryCount + 1

become(c, p) == proc' = [proc EXCEPT ![c] = p]
settled(p) == [p EXCEPT !.fresh = NoSnapshot, !.stale = NoSnapshot, !.attempt = 0]
returned(p, error) == [settled(p) EXCEPT !.pc = "returned", !.error = error]
snapshotOf(key) == IF key \in DOMAIN store.snapshots THEN store.snapshots[key] ELSE NoSnapshot

Tick == store.now < MaxNow /\ store' = [store EXCEPT !.now = @ + 1] /\ UNCHANGED <<proc, seen>>
Publish == store.version < Publications /\ store' = [store EXCEPT !.version = @ + 1] /\ UNCHANGED <<proc, seen>>
\* Only fetching and waiting look at the context.
Cancel(c) == proc[c].pc \in {"fetch", "wait"} /\ ~proc[c].cancelled /\ become(c, [proc[c] EXCEPT !.cancelled = TRUE]) /\ UNCHANGED <<store, seen>>
Again(c) == proc[c].pc = "returned" /\ become(c, Idle) /\ UNCHANGED <<store, seen>>

-----------------------------------------------------------------------------
(* Rates                                                                   *)

valid(r) == r.num > 0 /\ r.den > 0
sameCurrency(a, b) == a # Invalid /\ b # Invalid /\ a = b

NewExchangeRate(base, quote, num, den) ==
    LET r == [base |-> base, quote |-> quote, num |-> num, den |-> den]
    IN  IF base = Invalid \/ quote = Invalid \/ ~valid(r) \/ (base = quote /\ num # den) THEN NoRate ELSE r

canConvert(currency, r) == valid(r) /\ currency \in {r.base, r.quote}

\* Half to even, to the currency's minor unit.
RoundToCurr(num, den) ==
    LET q == num \div den
        twice == 2 * (num % den)
    IN  IF twice > den \/ (twice = den /\ q % 2 = 1) THEN q + 1 ELSE q

\* A rate converts in both directions.
Convert(units, currency, r) ==
    IF currency = r.base THEN [currency |-> r.quote, units |-> RoundToCurr(units * r.num, r.den)]
    ELSE [currency |-> r.base, units |-> RoundToCurr(units * r.den, r.num)]

-----------------------------------------------------------------------------
(* What the publishers' documents say                                      *)

ratesOf(entries) == [x \in {"EUR"} \cup {entries[i].currency : i \in DOMAIN entries} |-> IF x = "EUR" THEN 1 ELSE entries[CHOOSE i \in DOMAIN entries : entries[i].currency = x].rate]

\* A currency given twice (the euro itself included), an unknown one or a rate that is not positive spoils the whole bulletin.
parseECBSnapshot(bulletin, fetchedAt) ==
    IF \/ bulletin.rates = <<>> \/ ~bulletin.dated
       \/ \E i \in DOMAIN bulletin.rates : LET e == bulletin.rates[i] IN e.currency \in {Invalid, "EUR"} \/ e.rate <= 0 \/ \E j \in 1 .. i - 1 : bulletin.rates[j].currency = e.currency
    THEN NoSnapshot
    ELSE [rates |-> ratesOf(bulletin.rates), version |-> store.version, fetchedAt |-> fetchedAt, expiresAt |-> fetchedAt + Provider.cacheTTL]

\* Every rate of the bulletin is one of the euro's: the euro is the base even of the rate from a currency to the euro.
exchangeRate(s, base, target) ==
    IF {base, target} \subseteq DOMAIN s.rates
    THEN IF base = "EUR" THEN NewExchangeRate(base, target, s.rates[target], 1)
         ELSE IF target = "EUR" THEN NewExchangeRate(target, base, s.rates[base], 1)
         ELSE NewExchangeRate(base, target, s.rates[target], s.rates[base])
    ELSE NoRate

\* A period as the day it ends on; day numbers only have to be in order.
dayOf(year, month, day) == year * 372 + month * 31 + day
parseIMFPeriod(p, frequency) ==
    CASE frequency = "D" -> dayOf(p.year, p.month, p.day)
      [] frequency = "M" -> dayOf(p.year, p.month, 31)
      [] frequency = "Q" -> IF p.quarter \in 1 .. 4 THEN dayOf(p.year, p.quarter * 3, 31) ELSE 0
      [] frequency = "A" -> dayOf(p.year, 12, 31)

matches(series, key) == series.country = key[1] /\ series.indicator = key[2] /\ series.frequency = Provider.frequency

periodOf(o) == parseIMFPeriod(o.period, Provider.frequency)
firstOf(obs) == CHOOSE o \in obs : \A q \in obs : periodOf(q) >= periodOf(o)
latestOf(obs) == CHOOSE o \in obs : \A q \in obs : periodOf(q) <= periodOf(o)

observations(dataSet, key) == UNION {ToSet(s.obs) : s \in {t \in dataSet : matches(t, key)}}

\* The latest observation of the series that were asked for; one that cannot be read spoils them all.
parseIMFSnapshot(dataSet, key, fetchedAt) ==
    LET obs == observations(dataSet, key)
    IN  IF obs = {} \/ \E o \in obs : periodOf(o) = 0 \/ o.value <= 0 THEN NoSnapshot
        ELSE [rates |-> [x \in {key} |-> latestOf(obs).value], version |-> store.version, fetchedAt |-> fetchedAt, expiresAt |-> fetchedAt + Provider.cacheTTL]

isPivot(currency) == currency \in {"USD", "EUR"}

\* One side is the dollar or the euro, the other one has a country.
rateKey(base, target) ==
    IF isPivot(base) /\ ~isPivot(target) /\ target \in DOMAIN CountryCodes THEN <<CountryCodes[target], <<"XDC", base>>, base, target>>
    ELSE IF ~isPivot(base) /\ isPivot(target) /\ base \in DOMAIN CountryCodes THEN <<CountryCodes[base], <<target, "XDC">>, base, target>>
    ELSE <<>>

-----------------------------------------------------------------------------
(* Rate                                                                    *)

quoteFromSnapshot(p, s, stale) ==
    LET rate == exchangeRate(s, p.base, p.target)
    IN  IF rate = NoRate THEN returned(p, "unsupported")
        ELSE [settled(p) EXCEPT !.pc = "quoted", !.quote = [rate |-> rate, version |-> s.version, fetchedAt |-> s.fetchedAt, expiresAt |-> s.expiresAt, stale |-> stale]]

quoteFromIMFSnapshot(p, s, stale) ==
    [settled(p) EXCEPT !.pc = "quoted",
              !.quote = [rate |-> NewExchangeRate(p.base, p.target, s.rates[p.key], 1), version |-> s.version, fetchedAt |-> s.fetchedAt, expiresAt |-> s.expiresAt, stale |-> stale]]

quoteFrom(p, s, stale) == IF Provider.kind = "ecb" THEN quoteFromSnapshot(p, s, stale) ELSE quoteFromIMFSnapshot(p, s, stale)

identity(p) == [p EXCEPT !.pc = "quoted", !.quote = [rate |-> NewExchangeRate(p.base, p.target, 1, 1), version |-> store.version, fetchedAt |-> p.now, expiresAt |-> p.now + Provider.cacheTTL, stale |-> FALSE]]

RateECB(c, base, target) ==
    /\ Provider.kind = "ecb" /\ proc[c].pc = "idle"
    /\ LET p == [Idle EXCEPT !.base = base, !.target = target, !.now = store.now, !.key = <<"ecb">>]
       IN  become(c, IF Invalid \in {base, target} THEN returned(p, "currency")
                     ELSE IF sameCurrency(base, target) THEN identity(p)
                     ELSE [p EXCEPT !.pc = "lookup"])
    /\ UNCHANGED <<store, seen>>

RateIMF(c, base, target) ==
    /\ Provider.kind = "imf" /\ proc[c].pc = "idle"
    /\ LET p == [Idle EXCEPT !.base = base, !.target = target, !.now = store.now, !.key = rateKey(base, target)]
       IN  become(c, IF Invalid \in {base, target} THEN returned(p, "currency")
                     ELSE IF sameCurrency(base, target) THEN identity(p)
                     ELSE IF p.key = <<>> THEN returned(p, "unsupported")
                     ELSE [p EXCEPT !.pc = "lookup"])
    /\ UNCHANGED <<store, seen>>

expiredLate(s, now) == now > s.expiresAt + Provider.maxStale
expired(s, now) == now > s.expiresAt

\* The time was read before the lock was taken.
CachedSnapshot(c) ==
    /\ proc[c].pc = "lookup"
    /\ LET s == snapshotOf(proc[c].key)
       IN  become(c, IF s = NoSnapshot \/ expired(s, proc[c].now) THEN [proc[c] EXCEPT !.pc = "stale"] ELSE quoteFrom(proc[c], s, FALSE))
    /\ UNCHANGED <<store, seen>>

StaleSnapshot(c) ==
    /\ proc[c].pc = "stale"
    /\ become(c, [proc[c] EXCEPT !.pc = "fetch", !.attempt = 1, !.stale = snapshotOf(proc[c].key)])
    /\ UNCHANGED <<store, seen>>

staleForever(s, now) == FALSE
staleTooOld(s, now) == s = NoSnapshot \/ Provider.maxStale <= 0 \/ now > s.expiresAt + Provider.maxStale

fallBack(p, now, error) ==
    IF p.stale = NoSnapshot THEN returned(p, "unavailable")
    ELSE IF ~Provider.allowStale \/ staleTooOld(p.stale, now) THEN returned(p, "stale")
    ELSE [quoteFrom(p, p.stale, TRUE) EXCEPT !.failedAt = now, !.error = error]

\* The ECB provider judges the snapshot's age by the time at which the call began, and falls back on it even when the
\* caller has gone away.
failECB(p, error) == fallBack(p, p.now, error)

\* The IMF provider looks at the clock again, and lets a context error through: the caller's, or that of its own timeout.
failIMF(p, error) == IF error \in {"canceled", "deadline"} THEN returned(p, error) ELSE fallBack(p, store.now, error)

fail(p, error) == IF Provider.kind = "ecb" THEN failECB(p, error) ELSE failIMF(p, error)

\* HTTP answers with a document, a server error, anything else that cannot be used, or not in time.
Fates == {"ok", "server", "refused", "deadline"}
isContextError(error) == error \in {"canceled", "deadline"}
isRetryableIMFError(error) == error = "server"
failure(p, s, fate) == IF p.cancelled THEN "canceled" ELSE IF fate # "ok" THEN fate ELSE IF s = NoSnapshot THEN "document" ELSE ""

\* Every failure but the context's is tried again.
FetchECB(c, fate) ==
    /\ Provider.kind = "ecb" /\ proc[c].pc = "fetch"
    /\ LET p == proc[c]
           s == parseECBSnapshot(Bulletins[store.version], store.now)
           error == failure(p, s, fate)
       IN  become(c, IF error = "" THEN [p EXCEPT !.pc = "store", !.fresh = s]
                     ELSE IF isContextError(error) \/ p.attempt > Provider.retryCount THEN failECB(p, error)
                     ELSE [p EXCEPT !.pc = "wait"])
    /\ UNCHANGED <<store, seen>>

\* Only a server error is.
FetchIMF(c, fate) ==
    /\ Provider.kind = "imf" /\ proc[c].pc = "fetch"
    /\ LET p == proc[c]
           s == parseIMFSnapshot(DataSets[store.version], p.key, store.now)
           error == failure(p, s, fate)
       IN  become(c, IF error = "" THEN [p EXCEPT !.pc = "store", !.fresh = s]
                     ELSE IF ~isRetryableIMFError(error) \/ p.attempt > Provider.retryCount THEN failIMF(p, error)
                     ELSE [p EXCEPT !.pc = "wait"])
    /\ UNCHANGED <<store, seen>>

\* Two refreshes may end in the other order: the snapshot is whichever was stored last.
Store(c) ==
    /\ proc[c].pc = "store"
    /\ LET p == proc[c]
       IN  /\ store' = [store EXCEPT !.snapshots = [k \in DOMAIN @ \cup {p.key} |-> IF k = p.key THEN p.fresh ELSE @[k]]]
           /\ become(c, quoteFrom([p EXCEPT !.error = ""], p.fresh, FALSE))
    /\ UNCHANGED seen

WaitBeforeRetry(c) ==
    /\ proc[c].pc = "wait"
    /\ \/ proc[c].cancelled /\ become(c, fail(proc[c], "canceled"))
       \/ become(c, [proc[c] EXCEPT !.pc = "fetch", !.attempt = @ + 1])
    /\ UNCHANGED <<store, seen>>

\* ConvertWithProvider converts with the quote, and looks where it came out.
ConvertWithProvider(c) ==
    /\ proc[c].pc = "quoted"
    /\ LET p == proc[c]
           converted == Convert(Amount, p.base, p.quote.rate)
       IN  become(c, IF ~canConvert(p.base, p.quote.rate) \/ ~sameCurrency(converted.currency, p.target) THEN returned(p, "mismatch")
                     ELSE [p EXCEPT !.pc = "returned", !.cancelled = FALSE, !.converted = converted])
    /\ UNCHANGED <<store, seen>>

Next ==
    \/ Tick \/ Publish
    \/ \E c \in Callers :
        \/ Cancel(c) \/ Again(c) \/ CachedSnapshot(c) \/ StaleSnapshot(c) \/ Store(c) \/ WaitBeforeRetry(c) \/ ConvertWithProvider(c)
        \/ \E p \in Provider.pairs : RateECB(c, p[1], p[2]) \/ RateIMF(c, p[1], p[2])
        \/ \E f \in Fates : FetchECB(c, f) \/ FetchIMF(c, f)

-----------------------------------------------------------------------------
(* Properties                                                              *)

Done(p) == p.pc = "returned" /\ p.converted.currency # ""

\* A quote that is not marked stale was within its time to live when the caller asked, or was fetched after that; one that is
\* marked stale was allowed, carries the failure and is within the extra time at the moment that its provider looks at: the
\* call's start for the ECB, the failure for the IMF, which never answers a caller that has gone with one.
QuotesFresh ==
    \A c \in Callers : LET p == proc[c] IN Done(p) =>
        IF p.quote.stale
        THEN /\ Provider.allowStale /\ p.error # ""
             /\ (IF Provider.kind = "ecb" THEN p.now ELSE p.failedAt) <= p.quote.expiresAt + Provider.maxStale
             /\ Provider.kind = "imf" => p.error \notin {"canceled", "deadline"}
        ELSE p.now <= p.quote.expiresAt

\* What the quote's publication says that one unit of the base is worth in the target.
worth(p) ==
    IF p.base = p.target THEN <<1, 1>>
    ELSE IF Provider.kind = "ecb" THEN <<ratesOf(Bulletins[p.quote.version].rates)[p.target], ratesOf(Bulletins[p.quote.version].rates)[p.base]>>
    ELSE LET obs == observations(DataSets[p.quote.version], p.key)
         IN  <<(CHOOSE o \in obs : \A q \in obs : q.period.year < o.period.year \/ q = o).value, 1>>

\* An amount is converted into the target at the rate of one publication, whichever way round the provider holds the rate,
\* however many refreshes went on, and the latest observation counts.
ConvertedAtPublishedRate ==
    \A c \in Callers : LET p == proc[c] IN Done(p) =>
        p.converted = [currency |-> p.target, units |-> RoundToCurr(Amount * worth(p)[1], worth(p)[2])]
=============================================================================
