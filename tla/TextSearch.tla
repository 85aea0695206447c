----------------------------- MODULE TextSearch -----------------------------
(***************************************************************************)
(* Packages textsearch, textsearch/japanese and textsearch/language: the      *)
(* Aho-Corasick matcher with its normalisation and boundaries, masking, the   *)
(* blockword dictionary, the tokenizers and the language detector. A text is  *)
(* a sequence of runes; offsets are in bytes, from zero, as in the code.      *)
(***************************************************************************)
EXTENDS Integers, Sequences, SequencesExt, FiniteSets, TLC

CONSTANTS
    Dictionaries,    \* sequences of [id, text, severity]; an id of -1 is an empty one
    Configs,         \* [ignoreCase, normalize, boundary, overlap]
    Texts,
    Analyses,        \* what a morphological analyser emits: sequences of [surface, position]
    LanguageLists,   \* sequences of languages, "unknown" among them
    MaxTextLength

VARIABLES store, proc, seen

vars == <<store, proc, seen>>

-----------------------------------------------------------------------------
(* Runes: a small alphabet with an upper case letter, a combining mark, a     *)
(* composed letter and a ligature that compatibility normalisation expands.   *)

RuneLen(r) == CASE r \in {"^", "a^", "A^"} -> 2 [] r = "ab" -> 3 [] OTHER -> 1
ToLower(r) == CASE r = "A" -> "a" [] r = "A^" -> "a^" [] OTHER -> r
IsLetter(r) == r \in {"a", "b", "A", "a^", "A^", "ab"}

offset(text, i) == FoldLeft(LAMBDA n, r : n + RuneLen(r), 0, SubSeq(text, 1, i))
size(text) == offset(text, Len(text))
\* text[start:end], by byte offsets.
slice(text, start, end) ==
    LET inside == {i \in DOMAIN text : offset(text, i - 1) >= start /\ offset(text, i) <= end}
    IN  IF inside = {} THEN <<>>
        ELSE SubSeq(text, CHOOSE i \in inside : \A j \in inside : i <= j, CHOOSE i \in inside : \A j \in inside : i >= j)

TrimSpace(text) == SelectSeq(text, LAMBDA r : r # " ")

-----------------------------------------------------------------------------
(* Normalisation                                                           *)

\* norm.Iter: a starter with the marks that follow it, composed, and decomposed for compatibility.
compose(runes, mode) ==
    LET expanded == IF mode = "nfkc" /\ runes[1] = "ab" THEN <<"a", "b">> \o Tail(runes) ELSE runes
    IN  IF Len(expanded) >= 2 /\ expanded[1] \in {"a", "A"} /\ expanded[2] = "^"
        THEN <<IF expanded[1] = "a" THEN "a^" ELSE "A^">> \o SubSeq(expanded, 3, Len(expanded)) ELSE expanded

segment(text, starts, k, mode) ==
    LET last == IF k = Len(starts) THEN Len(text) ELSE starts[k + 1] - 1
        raw == SubSeq(text, starts[k], last)
    IN  [runes |-> IF mode = "none" THEN raw ELSE compose(raw, mode), start |-> offset(text, starts[k] - 1), end |-> offset(text, last)]

appendNormalizedSegment(s, cfg) ==
    LET runes == IF cfg.ignoreCase THEN [i \in DOMAIN s.runes |-> ToLower(s.runes[i])] ELSE s.runes
    IN  [i \in DOMAIN runes |-> [rune |-> runes[i], start |-> s.start, end |-> s.end]]

normalizeSegments(text, starts, cfg) == FlattenSeq([k \in DOMAIN starts |-> appendNormalizedSegment(segment(text, starts, k, cfg.normalize), cfg)])

\* Every rune of a segment stands for the whole segment of the input; without normalisation each rune is a segment.
normalizeString(text, cfg) ==
    normalizeSegments(text, SelectSeq([i \in DOMAIN text |-> i], LAMBDA i : i = 1 \/ cfg.normalize = "none" \/ text[i] # "^"), cfg)

runesOf(normalized) == [i \in DOMAIN normalized |-> normalized[i].rune]
NormalizeText(text, mode) == runesOf(normalizeString(text, [ignoreCase |-> FALSE, normalize |-> mode]))

-----------------------------------------------------------------------------
(* Compile. A node of the trie is named by the path that leads to it.        *)

Root == <<>>
NewNode == [fail |-> Root, outputs |-> <<>>]
Blank == [cfg |-> [normalize |-> "none"], blockwords |-> FALSE, entries |-> <<>>, nodes |-> Root :> NewNode, patterns |-> <<>>, queue |-> <<>>, head |-> 0,
          op |-> "", text |-> <<>>, severity |-> 0, normalized |-> <<>>, index |-> 0, state |-> <<>>, found |-> <<>>]
Nothing == [op |-> "", text |-> <<>>, severity |-> 0, matches |-> <<>>, out |-> <<>>, tokens |-> <<>>, error |-> ""]

Init == store = Blank /\ proc = "new" /\ seen = Nothing

TypeOK ==
    /\ proc \in {"new", "compile", "build", "ready", "find", "failed", "returned"}
    /\ \A n \in DOMAIN store.nodes : store.nodes[n].fail \in DOMAIN store.nodes /\ (n = Root \/ Front(n) \in DOMAIN store.nodes)

fail(error) == proc' = "failed" /\ seen' = [Nothing EXCEPT !.error = error]

\* An entry without an id is given its index.
named(entries) == [i \in DOMAIN entries |-> [entries[i] EXCEPT !.id = IF @ = -1 THEN i - 1 ELSE @]]

\* Compile goes straight to its patterns; the blockword dictionary gives its entries ids first, refuses two with the
\* same id, and reports every overlap.
Compile(entries, cfg) ==
    /\ proc = "new"
    /\ store' = [Blank EXCEPT !.cfg = cfg, !.entries = named(entries)]
    /\ IF entries = <<>> THEN fail("ErrNoPatterns") ELSE proc' = "compile" /\ UNCHANGED seen

\* The errors of a loop over the entries; the first of them is returned.
firstError(errors) == LET real == SelectSeq(errors, LAMBDA e : e # "") IN IF real = <<>> THEN "" ELSE real[1]

NewBlockwordDictionary(entries, cfg) ==
    /\ proc = "new"
    /\ LET es == named(entries)
           error == IF es = <<>> THEN "ErrNoPatterns"
                    ELSE firstError([i \in DOMAIN es |-> IF es[i].text = <<>> THEN "ErrEmptyPattern"
                                                         ELSE IF \E j \in 1 .. i - 1 : es[j].id = es[i].id THEN "ErrDuplicatePatternID" ELSE ""])
       IN  /\ store' = [Blank EXCEPT !.cfg = [cfg EXCEPT !.overlap = "all"], !.blockwords = TRUE, !.entries = es]
           /\ IF error # "" THEN fail(error) ELSE proc' = "compile" /\ UNCHANGED seen

\* A dictionary set is looked up by text: its ids may repeat, its texts may not.
NewDictionarySet(entries) ==
    /\ proc = "new" /\ UNCHANGED store
    /\ LET es == named(entries)
           error == IF es = <<>> THEN "ErrNoPatterns"
                    ELSE firstError([i \in DOMAIN es |-> IF es[i].text = <<>> THEN "ErrEmptyPattern"
                                                         ELSE IF \E j \in 1 .. i - 1 : es[j].text = es[i].text THEN "ErrDuplicateDictionaryText" ELSE ""])
       IN  IF error # "" THEN fail(error)
           ELSE /\ proc' = "returned"
                /\ seen' = [Nothing EXCEPT !.op = "dictionary", !.matches = [i \in DOMAIN es |-> es[i] @@ [normalized |-> NormalizeText(es[i].text, "nfc")]]]

addPattern(nodes, index, runes) ==
    LET grown == nodes @@ [path \in {SubSeq(runes, 1, i) : i \in 1 .. Len(runes)} |-> NewNode]
    IN  [grown EXCEPT ![runes].outputs = Append(@, index)]

\* One pattern of Compile's loop.
AddPattern ==
    /\ proc = "compile" /\ Len(store.patterns) < Len(store.entries)
    /\ LET index == Len(store.patterns) + 1
           entry == store.entries[index]
           runes == runesOf(normalizeString(entry.text, store.cfg))
       IN  IF runes = <<>> THEN fail("ErrEmptyPattern") /\ UNCHANGED store
           ELSE /\ store' = [store EXCEPT !.nodes = addPattern(@, index, runes), !.patterns = Append(@, [entry EXCEPT !.text = runes])]
                /\ UNCHANGED <<proc, seen>>

children(n) == {c \in DOMAIN store.nodes : c # Root /\ Front(c) = n}

\* The children of the root, in the order in which the map gives them.
StartFailures ==
    /\ proc = "compile" /\ Len(store.patterns) = Len(store.entries)
    /\ \E order \in SetToSeqs(children(Root)) : store' = [store EXCEPT !.queue = order, !.head = 1]
    /\ proc' = "build" /\ UNCHANGED seen

failureOfParent(nodes, child) ==
    LET next == Append(nodes[Front(child)].fail, Last(child)) IN IF next # child /\ next \in DOMAIN nodes THEN next ELSE Root

\* The longest proper suffix that is a path of the trie: fail links are followed until one goes on with the last rune.
failureOf(nodes, child) ==
    LET r == Last(child)
        walk[f \in DOMAIN nodes] == IF f = Root THEN Root ELSE IF Append(f, r) \in DOMAIN nodes THEN Append(f, r) ELSE walk[nodes[f].fail]
        found == walk[nodes[Front(child)].fail]
    IN  IF found = Root /\ <<r>> \in DOMAIN nodes /\ <<r>> # child THEN <<r>> ELSE found

\* One node of the breadth-first queue; its children are visited in the order in which the map gives them.
BuildFailure ==
    /\ proc = "build" /\ store.head <= Len(store.queue)
    /\ LET link(nodes, child) ==
               LET failure == failureOf(nodes, child) IN [nodes EXCEPT ![child].fail = failure, ![child].outputs = @ \o nodes[failure].outputs]
       IN  \E order \in SetToSeqs(children(store.queue[store.head])) :
               store' = [store EXCEPT !.nodes = FoldLeft(link, @, order), !.queue = @ \o order, !.head = @ + 1]
    /\ UNCHANGED <<proc, seen>>

Compiled ==
    /\ proc = "build" /\ store.head > Len(store.queue)
    /\ proc' = "ready" /\ store' = [store EXCEPT !.queue = <<>>, !.head = 0] /\ UNCHANGED seen

-----------------------------------------------------------------------------
(* Searching and masking                                                   *)

isASCIIWordRune(r) == r \in {"a", "b", "A"}
isUnicodeWordRune(r) == IsLetter(r)

\* words: the places of the text whose rune is one of a word.
isBoundary(n, start, end, words) == (start = 0 \/ start \notin words) /\ (end = Len(n) \/ end + 1 \notin words)

acceptBoundary(n, start, end) ==
    CASE store.cfg.boundary = "ascii"   -> isBoundary(n, start, end, {i \in DOMAIN n : isASCIIWordRune(n[i].rune)})
      [] store.cfg.boundary = "unicode" -> isBoundary(n, start, end, {i \in DOMAIN n : isUnicodeWordRune(n[i].rune)})
      [] OTHER                          -> TRUE

goto(state, r) ==
    LET walk[f \in DOMAIN store.nodes] == IF f = Root \/ Append(f, r) \in DOMAIN store.nodes THEN f ELSE walk[store.nodes[f].fail]
        next == Append(walk[state], r)
    IN  IF next \in DOMAIN store.nodes THEN next ELSE Root

sortRankedMatches(matches) ==
    SortSeq(matches, LAMBDA l, r : IF l.start # r.start THEN l.start < r.start
                                   ELSE IF l.end # r.end THEN l.end > r.end ELSE l.pattern < r.pattern)

selectTouching(matches) ==
    FoldLeft(LAMBDA s, m : IF s # <<>> /\ m.start <= s[Len(s)].start THEN s ELSE Append(s, m), <<>>, matches)

selectLeftmostLongest(matches) ==
    FoldLeft(LAMBDA s, m : IF s # <<>> /\ m.start < s[Len(s)].end THEN s ELSE Append(s, m), <<>>, matches)

selectBlockwordLeftmostLongest(matches) ==
    FoldLeft(LAMBDA s, m : IF s # <<>> /\ m.start < s[Len(s)].end THEN s ELSE Append(s, m), <<>>, matches)

NewBlockwordRequest(text) == IF Len(text) > MaxTextLength THEN "ErrBlockwordTextTooLong" ELSE IF TrimSpace(text) = <<>> THEN "ErrBlankBlockwordText" ELSE ""

answer(s) == proc' = "returned" /\ seen' = s

\* A search begins with the normalisation of its input.
begin(op, text, severity) ==
    /\ proc' = "find" /\ UNCHANGED seen
    /\ store' = [store EXCEPT !.op = op, !.text = text, !.severity = severity, !.normalized = normalizeString(text, store.cfg)]

FindAll(text) == proc = "ready" /\ ~store.blockwords /\ begin("findAll", text, 0)
First(text) == proc = "ready" /\ ~store.blockwords /\ begin("first", text, 0)
Mask(text) == proc = "ready" /\ ~store.blockwords /\ begin("mask", text, 0)

Process(text, minSeverity) ==
    /\ proc = "ready" /\ store.blockwords
    /\ IF NewBlockwordRequest(text) # "" THEN answer([Nothing EXCEPT !.op = "process", !.error = NewBlockwordRequest(text)]) /\ UNCHANGED store
       ELSE begin("process", text, minSeverity)

matchAt(p, start, end) ==
    IF ~acceptBoundary(store.normalized, start, end) THEN <<>>
    ELSE <<[pattern |-> p, start |-> store.normalized[start + 1].start, end |-> store.normalized[end].end]>>

\* One rune of find's loop.
Find ==
    /\ proc = "find" /\ store.index < Len(store.normalized)
    /\ LET i == store.index + 1
       IN  \E state \in {goto(store.state, store.normalized[i].rune)} :
               store' = [store EXCEPT !.index = i, !.state = state,
                                      !.found = @ \o FlattenSeq([k \in DOMAIN store.nodes[state].outputs |->
                                                    LET p == store.nodes[state].outputs[k] IN matchAt(p, i - Len(store.patterns[p].text), i)])]
    /\ UNCHANGED <<proc, seen>>

\* The text between the matches is copied; a match is replaced by a mask of as many runes.
replaceMatches(text, matches) ==
    LET before(i) == IF i = 1 THEN 0 ELSE matches[i - 1].end
        stars(m) == [i \in DOMAIN slice(text, m.start, m.end) |-> "*"]
    IN  FlattenSeq([i \in DOMAIN matches |-> slice(text, before(i), matches[i].start) \o stars(matches[i])])
            \o slice(text, before(Len(matches) + 1), size(text))

maskBlockwordMatches(text, matches) == replaceMatches(text, matches)

detectAfterSelecting(matches, minSeverity) ==
    SelectSeq(selectBlockwordLeftmostLongest(matches), LAMBDA m : store.entries[m.pattern].severity >= minSeverity)

\* The severity is looked at before the overlaps are resolved: a long mild word does not hide a short grave one.
Detect(matches, minSeverity) ==
    selectBlockwordLeftmostLongest(SelectSeq(matches, LAMBDA m : store.entries[m.pattern].severity >= minSeverity))

findForReplacement(matches) == selectLeftmostLongest(matches)

select(matches) == IF store.cfg.overlap = "leftmostLongest" THEN selectLeftmostLongest(matches) ELSE matches
firstOnly(matches) == SubSeq(matches, 1, IF matches = <<>> THEN 0 ELSE 1)

\* The input is scanned: the matches are ranked, selected, and used.
Found ==
    /\ proc = "find" /\ store.index = Len(store.normalized)
    /\ \E sorted \in {sortRankedMatches(store.found)} :
           \E chosen \in {CASE store.op = "findAll" -> select(sorted)
                             [] store.op = "first"   -> firstOnly(select(sorted))
                             [] store.op = "mask"    -> findForReplacement(sorted)
                             [] OTHER                -> Detect(sorted, store.severity)} :
               answer([Nothing EXCEPT !.op = store.op, !.text = store.text, !.severity = store.severity, !.matches = chosen,
                                      !.out = CASE store.op = "mask"    -> replaceMatches(store.text, chosen)
                                                [] store.op = "process" -> maskBlockwordMatches(store.text, chosen)
                                                [] OTHER                -> <<>>])
    /\ store' = [store EXCEPT !.op = "", !.text = <<>>, !.severity = 0, !.normalized = <<>>, !.index = 0, !.state = Root, !.found = <<>>]

-----------------------------------------------------------------------------
(* Tokenizers                                                              *)

NewTokenizeRequest(text) == IF Len(text) > MaxTextLength THEN "ErrTokenizeTextTooLong" ELSE IF TrimSpace(text) = <<>> THEN "ErrBlankTokenizeText" ELSE ""

simpleTokenPOS(r) == CASE IsLetter(r) \/ r = "^" -> "word" [] r = " " -> "whitespace" [] r = "-" -> "punctuation" [] OTHER -> "symbol"

canJoinWords(pos) == pos = "word"

canJoinSimpleToken(pos) == pos # "symbol"

Token(text, start, end, pos, mode) == LET t == slice(text, start, end) IN [text |-> t, start |-> start, end |-> end, normalized |-> NormalizeText(t, mode), pos |-> pos]

\* A rune of the kind of the one before it goes on with its token, unless tokens of the kind hold one rune.
simpleTokenize(text, mode, includeWhitespace) ==
    LET pos(i) == simpleTokenPOS(text[i])
        starts == SelectSeq([i \in DOMAIN text |-> i], LAMBDA i : i = 1 \/ pos(i) # pos(i - 1) \/ ~canJoinSimpleToken(pos(i)))
        last(k) == IF k = Len(starts) THEN Len(text) ELSE starts[k + 1] - 1
        tokens == [k \in DOMAIN starts |-> Token(text, offset(text, starts[k] - 1), offset(text, last(k)), pos(starts[k]), mode)]
    IN  SelectSeq(tokens, LAMBDA t : includeWhitespace \/ t.pos # "whitespace")

Tokenize(text, mode, includeWhitespace) ==
    /\ proc = "new" /\ UNCHANGED store
    /\ LET error == NewTokenizeRequest(text)
       IN  answer(IF error # "" THEN [Nothing EXCEPT !.op = "tokenize", !.error = error]
                  ELSE [Nothing EXCEPT !.op = IF includeWhitespace THEN "tokenizeAll" ELSE "tokenize", !.text = text,
                                       !.tokens = simpleTokenize(text, mode, includeWhitespace)])

spanError(text, token) ==
    LET end == token.position + size(token.surface)
    IN  IF token.surface = <<>> THEN "" ELSE IF token.position < 0 \/ end > size(text) THEN "invalidSpan"
        ELSE IF slice(text, token.position, end) # token.surface THEN "spanMismatch" ELSE ""

\* Kagome's tokens are checked against the text before they are passed on.
JapaneseTokenize(text, analysis, includeWhitespace) ==
    /\ proc = "new" /\ UNCHANGED store
    /\ LET refused == NewTokenizeRequest(text)
           error == IF refused # "" THEN refused ELSE firstError([i \in DOMAIN analysis |-> spanError(text, analysis[i])])
           kept == SelectSeq(analysis, LAMBDA t : t.surface # <<>> /\ (includeWhitespace \/ TrimSpace(t.surface) # <<>>))
       IN  answer(IF error # "" THEN [Nothing EXCEPT !.op = "japanese", !.error = error]
                  ELSE [Nothing EXCEPT !.op = "japanese", !.text = text,
                                       !.tokens = [i \in DOMAIN kept |-> Token(text, kept[i].position, kept[i].position + size(kept[i].surface), "unknown", "none")]])

-----------------------------------------------------------------------------
(* The language detector                                                   *)

validateText(text) == IF Len(text) > MaxTextLength THEN "ErrTextTooLong" ELSE IF TrimSpace(text) = <<>> THEN "ErrBlankText" ELSE ""

normalizeLanguages(languages) == FoldLeft(LAMBDA s, l : IF l = "unknown" \/ l \in ToSet(s) THEN s ELSE Append(s, l), <<>>, languages)

NewDetector(languages) ==
    /\ proc = "new" /\ UNCHANGED store
    /\ IF Len(normalizeLanguages(languages)) < 2 THEN fail("ErrLanguageSubsetTooSmall")
       ELSE proc' = "returned" /\ seen' = [Nothing EXCEPT !.op = "detector", !.out = normalizeLanguages(languages)]

sectionError(text, section) == IF section.start < 0 \/ section.end > size(text) \/ section.start > section.end THEN "invalidSection" ELSE ""

\* DetectMultiple, with the sections that the library reported.
DetectMultiple(text, sections) ==
    /\ proc = "new" /\ UNCHANGED store
    /\ LET refused == validateText(text)
           error == IF refused # "" THEN refused ELSE firstError([i \in DOMAIN sections |-> sectionError(text, sections[i])])
       IN  answer(IF error # "" THEN [Nothing EXCEPT !.op = "sections", !.error = error]
                  ELSE [Nothing EXCEPT !.op = "sections", !.text = text,
                                       !.tokens = [i \in DOMAIN sections |-> [text |-> slice(text, sections[i].start, sections[i].end), start |-> sections[i].start, end |-> sections[i].end]]])

Start ==
    \/ \E d \in Dictionaries, c \in Configs : Compile(d, c) \/ NewBlockwordDictionary(d, c)
    \/ \E d \in Dictionaries : NewDictionarySet(d)
    \/ \E t \in Texts, w \in BOOLEAN : \/ \E m \in {"none", "nfc", "nfkc"} : Tokenize(t, m, w)
                                       \/ \E a \in Analyses : JapaneseTokenize(t, a, w)
    \/ \E l \in LanguageLists : NewDetector(l)
    \/ \E t \in Texts, a \in Analyses : DetectMultiple(t, [i \in DOMAIN a |-> [start |-> a[i].position, end |-> a[i].position + size(a[i].surface)]])

Search == \E t \in Texts : FindAll(t) \/ First(t) \/ Mask(t) \/ \E s \in 0 .. 1 : Process(t, s)

Next ==
    \/ proc = "new" /\ Start
    \/ AddPattern \/ StartFailures \/ BuildFailure \/ Compiled \/ Find \/ Found
    \/ proc = "ready" /\ Search

-----------------------------------------------------------------------------
(* Properties                                                              *)

\* By definition rather than by automaton: where a pattern of the given severity stands in a text.
fits(n, p, start, end) == end <= Len(n) /\ SubSeq(runesOf(n), start + 1, end) = store.patterns[p].text /\ acceptBoundary(n, start, end)
occurrencesIn(n, minSeverity) ==
    {[pattern |-> o[1], rune |-> o[2], start |-> n[o[2] + 1].start, end |-> n[o[2] + Len(store.patterns[o[1]].text)].end] :
        o \in {x \in {p \in DOMAIN store.patterns : store.entries[p].severity >= minSeverity} \X (0 .. Len(n) - 1) :
                    fits(n, x[1], x[2], x[2] + Len(store.patterns[x[1]].text))}}
occurrences(text, minSeverity) == occurrencesIn(normalizeString(text, store.cfg), minSeverity)
overlap(a, b) == a.start < b.end /\ b.start < a.end

\* Whatever order the maps gave the trie's children in, FindAll reports each place where a pattern stands and no other,
\* in the order of the input; when overlaps are resolved, what is reported is disjoint and what is left out overlaps a
\* reported match that starts no later and is no shorter where they start together; First is the first of them.
FindsAll ==
    seen.op \in {"findAll", "first", "mask"} =>
        \E all \in {occurrences(seen.text, 0)} :
        \E plain \in {{[pattern |-> o.pattern, start |-> o.start, end |-> o.end] : o \in all}} :
            LET ms == seen.matches
                resolved == seen.op = "mask" \/ store.cfg.overlap = "leftmostLongest"
                before(m, o) == m.start < o.start \/ (m.start = o.start /\ m.end >= o.end)
            IN  /\ ToSet(ms) \subseteq plain
                /\ seen.op = "findAll" /\ ~resolved => ToSet(ms) = plain /\ Len(ms) = Cardinality(all)
                /\ \A i, j \in DOMAIN ms : i < j => ms[i].start <= ms[j].start /\ (resolved => ms[i].end <= ms[j].start)
                /\ seen.op = "first" => IF plain = {} THEN ms = <<>> ELSE Len(ms) = 1 /\ \A o \in plain : before(ms[1], o)
                /\ seen.op # "first" /\ resolved => \A o \in plain : \E i \in DOMAIN ms : overlap(o, ms[i]) /\ before(ms[i], o)

\* A masked text has a rune for every rune of the input, differs from it only under the masks, and, when words need
\* no boundary, holds no word of the asked severity any more, however the words overlap and whatever normalisation
\* makes of what is left. (A mask can give a pattern that begins or ends with punctuation the boundary it lacked.)
MaskedClean ==
    seen.op \in {"mask", "process"} /\ seen.error = "" =>
        /\ Len(seen.out) = Len(seen.text)
        /\ \A i \in DOMAIN seen.out : seen.out[i] # seen.text[i] => seen.out[i] = "*"
        /\ store.cfg.boundary = "none" => occurrences(seen.out, seen.severity) = {}

\* A token or a section is the slice of the input that its span names, tokens do not overlap, two neighbours are of
\* different kinds unless they are symbols, and with whitespace included the tokens put together are the input.
TokensAreSlices ==
    LET ts == seen.tokens
    IN  /\ \A i \in DOMAIN ts : ts[i].text = slice(seen.text, ts[i].start, ts[i].end)
        /\ seen.op \in {"tokenize", "tokenizeAll"} =>
               \A i \in 1 .. Len(ts) - 1 : ts[i].end <= ts[i + 1].start /\ (ts[i].pos = ts[i + 1].pos /\ ts[i].end = ts[i + 1].start => ts[i].pos = "symbol")
        /\ seen.op = "tokenizeAll" => FlattenSeq([i \in DOMAIN ts |-> ts[i].text]) = seen.text
=============================================================================
