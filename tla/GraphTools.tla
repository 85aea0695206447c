----------------------------- MODULE GraphTools -----------------------------
(*******************************************************************************)
(* Graphs: the files of graphio and graphml, the clients of three servers, and *)
(* the access graph of examples/graph/iamaccess.                               *)
(*******************************************************************************)
EXTENDS Integers, Sequences, SequencesExt, FiniteSets, TLC

VARIABLES store, proc, seen   \* what they hold is said in each part

vars == <<store, proc, seen>>

-----------------------------------------------------------------------------
(***************************************************************************)
(* )                                                                       *)
(***************************************************************************)
CONSTANTS
    Graphs,        \* sequences of records given to the writers
    Documents,     \* sequences of raw records that others wrote
    Settings       \* [format, mode, formula, duplicate, missing, maxRecords]

(* Packages graph/graphio and graph/graphio/graphml: writing a graph's        *)
(* records as NDJSON, as paired CSV streams or as GraphML, and reading them    *)
(* back under the readers' limits and policies. A text is the sequence of its  *)
(* bytes; a raw record is what one line, row or element holds.                 *)
(***************************************************************************)

Unlimited == 0
NilText == <<60, 110, 105, 108, 62>>
TrueText == <<116, 114, 117, 101>>

Space == {9, 10, 13, 32}
TrimSpace(t) ==
    LET kept == {i \in DOMAIN t : t[i] \notin Space}
    IN  IF kept = {} THEN <<>>
        ELSE LET first == CHOOSE i \in kept : \A j \in kept : i <= j
                 last == CHOOSE i \in kept : \A j \in kept : i >= j
             IN  SubSeq(t, first, last)

Numeral(t) == t # <<>> /\ \A i \in DOMAIN t : t[i] \in 48 .. 57 \/ (i = 1 /\ t[i] = 45 /\ Len(t) > 1)

\* The byte order that sort.Slice and sort.Strings compare texts by.
less(s, t) == \E n \in 0 .. Len(s) : /\ n < Len(t) /\ SubSeq(s, 1, n) = SubSeq(t, 1, n)
                                     /\ n = Len(s) \/ (n < Len(s) /\ s[n + 1] < t[n + 1])

Vertices(records) == SelectSeq(records, LAMBDA r : r.kind = "vertex")
Edges(records) == SelectSeq(records, LAMBDA r : r.kind = "edge")
Keys(records) == UNION {DOMAIN records[i].props : i \in DOMAIN records}

-----------------------------------------------------------------------------
(* Writing                                                                 *)

\* escape keeps a spreadsheet from taking a cell for a formula; no reader takes the quote away again.
escape(t) == IF store.setting.formula = "escape" /\ t # <<>> /\ t[1] \in {61, 43, 45, 64, 9, 13, 10} THEN <<39>> \o t ELSE t

toJSON(v) == [type |-> CASE v.type = "nil" -> "null" [] v.type \in {"long", "double", "uint64"} -> "number" [] OTHER -> v.type, text |-> v.text]

\* WriteCSV discovers the columns that a streaming CSVWriter must be given.
discoverPropertyColumns(records) == Keys(records)

propertyCells(props, columns) ==
    CASE store.setting.mode = "none" -> <<>>
      [] store.setting.mode = "raw"  -> [k \in DOMAIN props |-> toJSON(props[k])]
      [] OTHER -> [k \in columns |-> [type |-> "cell", text |-> IF k \in DOMAIN props /\ props[k].type # "nil" THEN escape(props[k].text) ELSE <<>>]]

vertexRow(r, columns) == [r EXCEPT !.id = escape(@), !.label = escape(@), !.props = propertyCells(@, columns)]
edgeRow(r, columns) == [vertexRow(r, columns) EXCEPT !.from = escape(@), !.to = escape(@)]

envelopeFromRecord(r) == [r EXCEPT !.props = [k \in DOMAIN @ |-> toJSON(@[k])]]

typeForValue(v) == IF v.type \in {"boolean", "long", "double"} THEN v.type ELSE "string"

\* One type per key: that of all its values, or string when they differ; nil values have no say.
inferGraphMLType(records, key) ==
    LET types == {typeForValue(records[i].props[key]) : i \in {j \in DOMAIN records : key \in DOMAIN records[j].props /\ records[j].props[key].type # "nil"}}
    IN  IF Cardinality(types) = 1 THEN CHOOSE t \in types : TRUE ELSE "string"

discoverKeys(records) == Keys(records) \ {"label"}

writeData(r, records) ==
    [r EXCEPT !.props = [k \in discoverKeys(records) \cap DOMAIN @ |-> [type |-> inferGraphMLType(records, k), text |-> @[k].text]]]

sorted(records) == SetToSortSeq(ToSet(records), LAMBDA a, b : less(a.id, b.id))

sortedByID(records) == sorted(Vertices(records)) \o sorted(Edges(records))

inGivenOrder(records) == records

\* The slice helpers write every vertex before the first edge; GraphML sorts each kind by id.
orderedRecords(records) == Vertices(records) \o Edges(records)

validVertex(r) == r.id # <<>> /\ r.label # <<>>
validRecord(r) == validVertex(r) /\ (r.kind = "edge" => r.from # <<>> /\ r.to # <<>>)

columns == discoverPropertyColumns(store.graph)
ready == store.setting.mode = "prefixed" => columns # {}

Reader == [eof |-> FALSE, vertexEOF |-> FALSE, headers |-> {}, at |-> [vertex |-> 0, edge |-> 0], looping |-> FALSE, closed |-> FALSE,
           vertexIDs |-> {}, edgeIDs |-> {}, records |-> 0, read |-> [vertex |-> 0, edge |-> 0], skipped |-> [vertex |-> 0, edge |-> 0],
           out |-> <<>>, error |-> ""]

InitFiles ==
    /\ \E s \in Settings :
          \/ \E g \in Graphs : store = [setting |-> s, graph |-> g, stream |-> <<>>, written |-> [vertex |-> 0, edge |-> 0], own |-> TRUE, closed |-> FALSE, truncated |-> FALSE, cancelled |-> FALSE]
          \/ \E d \in Documents : store = [setting |-> s, graph |-> <<>>, stream |-> d, written |-> [vertex |-> 0, edge |-> 0], own |-> FALSE, closed |-> TRUE, truncated |-> FALSE, cancelled |-> FALSE]
    /\ proc = Reader
    /\ seen = [errors |-> {}]

TypeOKFiles ==
    /\ proc.read.vertex + proc.read.edge = Len(proc.out) /\ proc.records \in 0 .. Len(store.stream)
    /\ proc.headers \subseteq {"vertex", "edge"} /\ store.closed \in BOOLEAN

Cancel == ~store.cancelled /\ store' = [store EXCEPT !.cancelled = TRUE] /\ UNCHANGED <<proc, seen>>

written == store.written.vertex + store.written.edge
finished == written = Len(store.graph)
append(r) == store' = [store EXCEPT !.stream = Append(@, r), !.written[r.kind] = @ + 1]
closeWriter == store' = [store EXCEPT !.closed = TRUE]

\* WriteNDJSON writes one record after another until its context, a record or the sink refuses; then it closes.
WriteNDJSON(taken) ==
    /\ store.setting.format = "ndjson" /\ ~store.closed
    /\ LET r == orderedRecords(store.graph)[written + 1]
       IN  IF finished \/ store.cancelled \/ ~validRecord(r) \/ ~taken THEN closeWriter ELSE append(envelopeFromRecord(r))
    /\ UNCHANGED <<proc, seen>>

WriteVertex(r) == append(vertexRow(r, columns))
WriteEdge(r) == append(edgeRow(r, columns))

WriteCSV(taken) ==
    /\ store.setting.format = "csv" /\ ~store.closed
    /\ LET r == orderedRecords(store.graph)[written + 1]
       IN  IF finished \/ ~ready \/ store.cancelled \/ ~validRecord(r) \/ ~taken THEN closeWriter
           ELSE IF r.kind = "vertex" THEN WriteVertex(r) ELSE WriteEdge(r)
    /\ UNCHANGED <<proc, seen>>

writeVertex(r) == append(writeData(r, Vertices(store.graph)))
writeEdge(r) == append(writeData(r, Edges(store.graph)))

\* graphml.Write looks at every record first. When it gives up it leaves behind what its buffer had let through, without an end.
WriteGraphML(taken) ==
    /\ store.setting.format = "graphml" /\ ~store.closed
    /\ LET r == sortedByID(store.graph)[written + 1]
       IN  IF finished THEN closeWriter
           ELSE IF store.cancelled \/ ~taken \/ \E i \in DOMAIN store.graph : ~validRecord(store.graph[i])
           THEN \E n \in 0 .. written : store' = [store EXCEPT !.closed = TRUE, !.truncated = TRUE, !.stream = SubSeq(@, 1, n)]
           ELSE IF r.kind = "vertex" THEN writeVertex(r) ELSE writeEdge(r)
    /\ UNCHANGED <<proc, seen>>

-----------------------------------------------------------------------------
(* Reading                                                                 *)

fail(p, error) == [p EXCEPT !.error = error, !.looping = FALSE]
skip(p, kind) == [p EXCEPT !.skipped[kind] = @ + 1, !.looping = TRUE]
handOut(p, r) == [p EXCEPT !.out = Append(@, r), !.read[r.kind] = @ + 1, !.error = "", !.looping = FALSE]

checkRecordLimit(n) == store.setting.maxRecords # Unlimited /\ n > store.setting.maxRecords

fromJSON(v) == [type |-> CASE v.type = "null" -> "nil" [] v.type = "number" -> "double" [] OTHER -> v.type, text |-> v.text]

propertiesFromRow(props) ==
    CASE store.setting.mode = "none" -> <<>>
      [] store.setting.mode = "raw"  -> [k \in DOMAIN props |-> fromJSON(props[k])]
      [] OTHER                       -> [k \in DOMAIN props |-> [type |-> "string", text |-> props[k].text]]

\* graph.ParseVertex and graph.ParseEdge trim what they are given and want none of it empty.
parse(raw, props) ==
    [raw EXCEPT !.id = TrimSpace(@), !.label = TrimSpace(@), !.from = TrimSpace(@), !.to = TrimSpace(@), !.props = props]

hasStart(p, r) == r.from \in p.vertexIDs
hasEndpoint(p, r) == r.from \in p.vertexIDs /\ r.to \in p.vertexIDs

acceptVertex(p, r) ==
    IF ~validRecord(r) THEN fail(p, "invalid")
    ELSE IF r.id \notin p.vertexIDs THEN handOut([p EXCEPT !.vertexIDs = @ \cup {r.id}], r)
    ELSE IF store.setting.duplicate = "skip" THEN skip(p, "vertex") ELSE fail(p, "duplicate")

acceptEdge(p, r) ==
    IF ~validRecord(r) THEN fail(p, "invalid")
    ELSE IF hasEndpoint(p, r) THEN handOut(p, r)
    ELSE IF store.setting.missing = "skip" THEN skip(p, "edge") ELSE fail(p, "missing")

\* Every line or row counts against the limit before it is looked at.
countRecord(p, stream) == [p EXCEPT !.records = @ + 1, !.at[stream] = @ + 1]

decodeLine(p, raw) ==
    LET q == countRecord(p, "vertex")
        r == parse(raw, [k \in DOMAIN raw.props |-> fromJSON(raw.props[k])])
    IN  IF checkRecordLimit(q.records) THEN fail(q, "limit")
        ELSE IF raw.malformed THEN fail(q, "malformed")
        ELSE IF raw.kind = "vertex" THEN acceptVertex(q, r) ELSE acceptEdge(q, r)

vertexFromRow(p, row) ==
    LET q == countRecord(p, "vertex")
    IN  IF checkRecordLimit(q.records) THEN fail(q, "limit")
        ELSE IF row.malformed THEN fail(q, "malformed")
        ELSE acceptVertex(q, parse(row, propertiesFromRow(row.props)))

edgeFromRow(p, row) ==
    LET q == countRecord(p, "edge")
    IN  IF checkRecordLimit(q.records) THEN fail(q, "limit")
        ELSE IF row.malformed THEN fail(q, "malformed")
        ELSE acceptEdge(q, parse(row, propertiesFromRow(row.props)))

become(p) == proc' = p /\ seen' = [seen EXCEPT !.errors = @ \cup {p.error}] /\ UNCHANGED store

\* A line that is skipped is followed by the next one in the same call, which has looked at its context already.
ReadRecord ==
    /\ store.setting.format = "ndjson" /\ store.closed /\ ~proc.closed /\ ~proc.eof
    /\ become(IF store.cancelled /\ ~proc.looping THEN fail(proc, "canceled")
              ELSE IF proc.at.vertex = Len(store.stream) THEN fail([proc EXCEPT !.eof = TRUE], "EOF")
              ELSE decodeLine(proc, store.stream[proc.at.vertex + 1]))

\* A CSV stream has its header once a row was written to it; others write theirs first.
rowsFiles(kind) == IF kind = "vertex" THEN Vertices(store.stream) ELSE Edges(store.stream)
hasHeader(kind) == ~store.own \/ rowsFiles(kind) # <<>>

\* A missing header carries io.EOF with it, but leaves the stream's own end unnoticed.
readHeader(p, kind) == IF hasHeader(kind) THEN [p EXCEPT !.headers = @ \cup {kind}] ELSE fail(p, "header")

\* Like ReadRecord, a call that skips a row goes on to the next.
ReadVertex ==
    /\ store.setting.format = "csv" /\ store.closed /\ ~proc.closed /\ ~proc.vertexEOF
    /\ LET p == IF "vertex" \in proc.headers THEN proc ELSE readHeader(proc, "vertex")
       IN  become(IF store.cancelled /\ ~proc.looping THEN fail(proc, "canceled")
                  ELSE IF "vertex" \notin p.headers THEN p
                  ELSE IF p.at.vertex = Len(rowsFiles("vertex")) THEN fail([p EXCEPT !.vertexEOF = TRUE], "EOF")
                  ELSE vertexFromRow(p, rowsFiles("vertex")[p.at.vertex + 1]))

\* Before the last vertex was read there is no telling whether an endpoint is missing.
ReadEdge ==
    /\ store.setting.format = "csv" /\ store.closed /\ ~proc.closed /\ ~proc.eof
    /\ LET p == IF "edge" \in proc.headers THEN proc ELSE readHeader(proc, "edge")
       IN  become(IF ~proc.vertexEOF THEN fail(proc, "vertices first")
                  ELSE IF store.cancelled /\ ~proc.looping THEN fail(proc, "canceled")
                  ELSE IF "edge" \notin p.headers THEN p
                  ELSE IF p.at.edge = Len(rowsFiles("edge")) THEN fail([p EXCEPT !.eof = TRUE], "EOF")
                  ELSE edgeFromRow(p, rowsFiles("edge")[p.at.edge + 1]))

convertScalar(v) ==
    LET t == TrimSpace(v.text)
    IN  [type |-> CASE v.type = "boolean" -> IF t = TrueText THEN "boolean" ELSE "invalid"
                    [] v.type \in {"long", "double"} -> IF Numeral(t) THEN v.type ELSE "invalid"
                    [] OTHER -> "string",
         text |-> t]

\* GraphML always fails on duplicates and missing endpoints, whatever the policies say, and knows both by the id as it stands
\* in the document. The limit is looked at after the record has joined the result.
counted(p) == IF checkRecordLimit(Len(p.out)) THEN fail(p, "limit") ELSE p

finishNode(p, raw, r) ==
    IF raw.id \in p.vertexIDs THEN fail(p, "duplicate")
    ELSE IF ~validRecord(r) THEN fail(p, "invalid")
    ELSE counted(handOut([p EXCEPT !.vertexIDs = @ \cup {raw.id}], r))

finishEdge(p, raw, r) ==
    IF raw.id \in p.edgeIDs THEN fail(p, "invalid")
    ELSE IF ~hasEndpoint(p, raw) THEN fail(p, "missing")
    ELSE IF ~validRecord(r) THEN fail(p, "invalid")
    ELSE counted(handOut([p EXCEPT !.edgeIDs = @ \cup {raw.id}], r))

\* graphml.Read gives up at the first error and returns what it has.
Element ==
    /\ store.setting.format = "graphml" /\ store.closed /\ ~proc.closed /\ ~proc.eof /\ proc.error = ""
    /\ LET raw == store.stream[proc.at.vertex + 1]
           props == [k \in DOMAIN raw.props |-> convertScalar(raw.props[k])]
           p == [proc EXCEPT !.at.vertex = @ + 1, !.records = @ + 1]
       IN  become(IF store.cancelled THEN fail(proc, "canceled")
                  ELSE IF proc.at.vertex = Len(store.stream) THEN fail([proc EXCEPT !.eof = ~store.truncated], IF store.truncated THEN "malformed" ELSE "EOF")
                  ELSE IF raw.malformed \/ TrimSpace(raw.id) = <<>> \/ \E k \in DOMAIN props : props[k].type = "invalid" THEN fail(p, "malformed")
                  ELSE IF raw.kind = "vertex" THEN finishNode(p, raw, parse(raw, props)) ELSE finishEdge(p, raw, parse(raw, props)))

Close == ~proc.closed /\ store.closed /\ ~proc.looping /\ proc' = [proc EXCEPT !.closed = TRUE] /\ UNCHANGED <<store, seen>>

NextFiles == Cancel \/ (\E taken \in BOOLEAN : WriteNDJSON(taken) \/ WriteCSV(taken) \/ WriteGraphML(taken)) \/ ReadRecord \/ ReadVertex \/ ReadEdge \/ Element \/ Close

-----------------------------------------------------------------------------
(* Properties                                                              *)

\* What a reader has handed out is a graph: no vertex twice and no edge before both its vertices, whatever the policies, the
\* errors in between and the calls made after them. (GraphML tells ids apart by their padding too, and then trims it.)
padded(raw) == raw.id # TrimSpace(raw.id)
ReadIsGraph ==
    \A i, j \in DOMAIN proc.out :
        /\ i < j /\ proc.out[i].kind = "vertex" /\ proc.out[j].kind = "vertex" /\ ~(store.setting.format = "graphml" /\ \E k \in DOMAIN store.stream : padded(store.stream[k]))
              => proc.out[i].id # proc.out[j].id
        /\ proc.out[j].kind = "edge"
              => \A e \in {proc.out[j].from, proc.out[j].to} : \E k \in 1 .. j - 1 : proc.out[k].kind = "vertex" /\ proc.out[k].id = e

\* Every record that the reader went past was handed out, counted as skipped or the cause of an error, and no more were
\* handed out than the limit allows (GraphML's last one comes with the error).
Accounted ==
    /\ proc.read.vertex + proc.skipped.vertex + proc.read.edge + proc.skipped.edge <= proc.records
    /\ seen.errors \subseteq {"", "EOF"} => proc.read.vertex + proc.skipped.vertex + proc.read.edge + proc.skipped.edge = proc.records
    /\ store.setting.maxRecords # Unlimited => Len(proc.out) <= store.setting.maxRecords + (IF proc.error = "limit" /\ store.setting.format = "graphml" THEN 1 ELSE 0)

wellFormed(g) ==
    /\ \A i, j \in DOMAIN g : i # j /\ g[i].kind = g[j].kind => g[i].id # g[j].id
    /\ \A i \in DOMAIN g : validRecord(g[i]) /\ (g[i].kind = "edge" => {g[i].from, g[i].to} \subseteq {g[j].id : j \in {k \in DOMAIN g : g[k].kind = "vertex"}})
shape(r, esc(_)) ==
    [kind |-> r.kind, id |-> esc(r.id), label |-> esc(r.label), from |-> esc(r.from), to |-> esc(r.to),
     props |-> {<<k, esc(r.props[k].text)>> : k \in {n \in DOMAIN r.props : r.props[n].type # "nil" /\ r.props[n].text # <<>>}}]
cell(t) == IF store.setting.format = "csv" THEN escape(t) ELSE t
lossy(g) == \/ store.setting.format = "csv" /\ (store.setting.mode # "prefixed" \/ Vertices(g) = <<>>)
            \/ store.setting.format = "graphml" /\ \E i \in DOMAIN g, k \in Keys(g) : k \in DOMAIN g[i].props /\ (k = "label" \/ g[i].props[k].type = "nil")

\* What the slice helpers wrote of a well-formed graph is read back whole: the same records with the same texts (formula escapes
\* apart), and nothing but the limit or the context stops the reader.
RoundTrip ==
    store.own /\ wellFormed(store.graph) /\ finished /\ ~lossy(store.graph)
        => /\ seen.errors \subseteq {"", "EOF", "limit", "canceled", "header", "vertices first"}
           /\ proc.eof /\ seen.errors \subseteq {"", "EOF"}
                 => /\ {shape(proc.out[i], LAMBDA t : t) : i \in DOMAIN proc.out} = {shape(store.graph[i], cell) : i \in DOMAIN store.graph}
                    /\ Len(proc.out) = Len(store.graph)

-----------------------------------------------------------------------------
(***************************************************************************)
(* )                                                                       *)
(***************************************************************************)
CONSTANTS
    Callers, Kinds,
    Answers,          \* [kind] -> what the database may answer: sequences of values, of rows or of records
    MaxResults, MaxDepth, Timeouts, Remaining, MaxAttempts

(* Packages graph/gremlin, graph/falkordb and graph/neo4j: queries against a   *)
(* graph database, the streams and sessions they hold while they run, and the  *)
(* conversion of what the database answers into vertices, edges and keys.      *)
(* A value is [type, held]; a conversion gives the set of its result, which is    *)
(* empty when the code returns an error.                                       *)
(***************************************************************************)

TrimSpaceClients(s) == CASE s = " " -> "" [] s = " a" -> "a" [] OTHER -> s
Nil == [type |-> "nil", held |-> ""]
Text(s) == [type |-> "string", held |-> s]

\* What comes before an error in a sequence of conversions is lost with it.
all(options) == FoldLeft(LAMBDA done, o : {d \o r : d \in done, r \in o}, {<<>>}, options)
each(results) == [i \in DOMAIN results |-> {<<r>> : r \in results[i]}]
firstValue(data, keys) ==
    LET there == SelectSeq(keys, LAMBDA k : k \in DOMAIN data) IN IF there = <<>> THEN Nil ELSE data[there[1]]

-----------------------------------------------------------------------------
(* Elements                                                                *)

NewElementID(s) == IF TrimSpaceClients(s) = "" THEN {} ELSE {TrimSpaceClients(s)}
NewLabel(s) == IF TrimSpaceClients(s) = "" THEN {} ELSE {TrimSpaceClients(s)}
ParseVertex(id, label, props) == {[id |-> i, label |-> l, props |-> props] : i \in NewElementID(id), l \in NewLabel(label)}
ParseEdge(id, label, start, end, props) ==
    {[id |-> i, label |-> l, start |-> s, end |-> e, props |-> props] : i \in NewElementID(id), l \in NewLabel(label), s \in NewElementID(start), e \in NewElementID(end)}

-----------------------------------------------------------------------------
(* Gremlin values                                                          *)

\* A map of any keys must turn out to have strings for keys, and none of them blank.
stringMap(data) == IF \E k \in DOMAIN data : k \in {"#", "", " "} THEN {} ELSE {data}
mapOf(value) == CASE value.type = "map" -> {value.held} [] value.type = "anymap" -> stringMap(value.held) [] OTHER -> {}

RECURSIVE elementString(_)
elementString(value) ==
    CASE value.type = "string"            -> IF TrimSpaceClients(value.held) = "" THEN {} ELSE {value.held}
      [] value.type = "int"               -> {ToString(value.held)}
      [] value.type = "vertex"            -> elementString(value.held.id)
      [] value.type \in {"map", "anymap"} -> UNION {elementString(firstValue(m, <<"id", "@id">>)) : m \in mapOf(value)}
      [] OTHER                            -> {}

RECURSIVE normalizePropertyValue(_)
normalizePropertyValue(value) == IF value.type = "list" /\ Len(value.held) = 1 THEN normalizePropertyValue(value.held[1]) ELSE value

propertiesFromValue(value) ==
    IF value = Nil THEN {<<>>}
    ELSE {[k \in DOMAIN m |-> normalizePropertyValue(m[k])] : m \in {n \in mapOf(value) : ~\E k \in DOMAIN n : TrimSpaceClients(k) = ""}}

ElementKeys == {"id", "@id", "label", "@label", "outV", "inV", "out", "in", "OUT", "IN", "source", "target", "start", "end"}
propertiesFromElementMap(data) ==
    LET raw == firstValue(data, <<"properties", "valueMap">>)
    IN  IF raw # Nil THEN propertiesFromValue(raw)
        ELSE IF \E k \in DOMAIN data \ ElementKeys : TrimSpaceClients(k) = "" THEN {}
        ELSE {[k \in DOMAIN data \ ElementKeys |-> normalizePropertyValue(data[k])]}

vertexFromElement(e) == UNION {ParseVertex(i, e.label, p) : i \in elementString(e.id), p \in propertiesFromValue(e.props)}

edgeFromElement(e) ==
    UNION {ParseEdge(i, e.label, s, t, p) : i \in elementString(e.id), s \in elementString(e.outV.id), t \in elementString(e.inV.id), p \in propertiesFromValue(e.props)}

vertexFromMap(data) ==
    UNION {ParseVertex(i, l, p) : i \in elementString(firstValue(data, <<"id", "@id">>)), l \in elementString(firstValue(data, <<"label", "@label">>)),
                                  p \in propertiesFromElementMap(data)}

edgeFromMap(data) ==
    UNION {ParseEdge(i, l, s, t, p) : i \in elementString(firstValue(data, <<"id", "@id">>)), l \in elementString(firstValue(data, <<"label", "@label">>)),
                                      s \in elementString(firstValue(data, <<"outV", "out", "OUT", "source", "start">>)),
                                      t \in elementString(firstValue(data, <<"inV", "in", "IN", "target", "end">>)),
                                      p \in propertiesFromElementMap(data)}

VertexFromValue(value) == IF value.type = "vertex" THEN vertexFromElement(value.held) ELSE UNION {vertexFromMap(m) : m \in mapOf(value)}
EdgeFromValue(value) == IF value.type = "edge" THEN edgeFromElement(value.held) ELSE UNION {edgeFromMap(m) : m \in mapOf(value)}

traversalKey(value) ==
    CASE value.type \in {"vertex", "edge"}   -> elementString(value.held.id)
      [] value.type \in {"map", "anymap"}    -> UNION {elementString(firstValue(m, <<"btgc_key", "id", "@id">>)) : m \in mapOf(value)}
      [] OTHER                               -> elementString(value)

\* Lists in lists, and the objects of paths, in order; an error beyond the depth or the limit.
RECURSIVE visit(_, _, _)
visit(value, nested, depth) ==
    IF depth > MaxDepth THEN {}
    ELSE IF value.type \in nested THEN all([i \in DOMAIN value.held |-> visit(value.held[i], nested, depth + 1)]) ELSE {<<value>>}
within(expanded, limit) == {e \in expanded : Len(e) <= limit}

expandValues(values, limit) == within(all([i \in DOMAIN values |-> visit(values[i], {"list"}, 0)]), limit)
traversalKeysBounded(values, limit) ==
    UNION {all(each([i \in DOMAIN leaves |-> traversalKey(leaves[i])])) : leaves \in within(all([i \in DOMAIN values |-> visit(values[i], {"list", "path"}, 0)]), limit)}

ReadVertices(values) == UNION {all(each([i \in DOMAIN vs |-> VertexFromValue(vs[i])])) : vs \in expandValues(values, MaxResults)}
ReadEdges(values) == UNION {all(each([i \in DOMAIN vs |-> EdgeFromValue(vs[i])])) : vs \in expandValues(values, MaxResults)}
Traverse(values) == traversalKeysBounded(values, MaxResults)

gremlinResult(op, values) ==
    CASE op = "vertices" -> ReadVertices(values) [] op = "edges" -> ReadEdges(values) [] op = "traverse" -> Traverse(values) [] OTHER -> {values}

-----------------------------------------------------------------------------
(* FalkorDB replies: [parts, header, rows, stats] with the width of the       *)
(* header, and whether the statistics are strings                             *)

falkorString(value) == CASE value.type = "string" /\ value.held # "" -> {value.held} [] value.type = "int" -> {ToString(value.held)} [] OTHER -> {}
falkorProperties(value) == IF value = Nil THEN {<<>>} ELSE IF value.type = "map" /\ "" \notin DOMAIN value.held THEN {value.held} ELSE {}

\* A vertex without a label is labelled Vertex.
falkorVertex(data) ==
    LET own == firstValue(data, <<"label">>)
        labels == firstValue(data, <<"labels">>)
        label == IF own.type = "string" /\ own.held # "" THEN {own.held} ELSE IF labels.type = "list" /\ labels.held # <<>> THEN falkorString(labels.held[1]) ELSE {"Vertex"}
    IN  UNION {ParseVertex(i, l, p) : i \in falkorString(firstValue(data, <<"id">>)), l \in label, p \in falkorProperties(firstValue(data, <<"properties">>))}

falkorEdge(data) ==
    UNION {ParseEdge(i, l, s, t, p) : i \in falkorString(firstValue(data, <<"id">>)), l \in falkorString(firstValue(data, <<"label">>)),
                                      s \in falkorString(firstValue(data, <<"start_id", "source", "src">>)),
                                      t \in falkorString(firstValue(data, <<"end_id", "destination", "dest">>)),
                                      p \in falkorProperties(firstValue(data, <<"properties">>))}

vertexFromRowClients(row) ==
    CASE Len(row) = 1 -> IF row[1].type = "map" THEN falkorVertex(row[1].held) ELSE {}
      [] Len(row) < 3 -> {}
      [] OTHER        -> UNION {ParseVertex(i, l, p) : i \in falkorString(row[1]), l \in falkorString(row[2]), p \in falkorProperties(row[3])}

edgeFromRowClients(row) ==
    CASE Len(row) = 1 -> IF row[1].type = "map" THEN falkorEdge(row[1].held) ELSE {}
      [] Len(row) < 5 -> {}
      [] OTHER        -> UNION {ParseEdge(i, l, s, t, p) : i \in falkorString(row[1]), l \in falkorString(row[2]), s \in falkorString(row[3]), t \in falkorString(row[4]), p \in falkorProperties(row[5])}

parseResultNarrow(reply) == IF reply.parts = 1 THEN {<<>>} ELSE IF Len(reply.rows) > MaxResults THEN {SubSeq(reply.rows, 1, MaxResults)} ELSE {reply.rows}

\* A reply of one part holds statistics only; otherwise every row is as wide as the header.
parseResult(reply) ==
    CASE reply.parts = 0 \/ (reply.parts # 2 /\ ~reply.stats) -> {}
      [] reply.parts = 1 /\ reply.stats                      -> {<<>>}
      [] OTHER -> IF Len(reply.rows) > MaxResults \/ \E i \in DOMAIN reply.rows : Len(reply.rows[i]) # reply.header THEN {} ELSE {reply.rows}

falkorVertices(rows) == all(each([i \in DOMAIN rows |-> vertexFromRowClients(rows[i])]))
falkorEdges(rows) == all(each([i \in DOMAIN rows |-> edgeFromRowClients(rows[i])]))

falkorResult(op, reply) ==
    UNION {CASE op = "vertices" -> falkorVertices(rows) [] op = "edges" -> falkorEdges(rows) [] OTHER -> {rows} : rows \in parseResult(reply)}

-----------------------------------------------------------------------------
(* Neo4j records: each holds a value under its column, or nothing            *)

LabelOrder == <<"A", "B", "a">>

\* The least of the node's labels, whatever order the database gives them in.
nodeLabel(labels) ==
    LET known == {TrimSpaceClients(labels[i]) : i \in DOMAIN labels} \ {""}
    IN  IF known = {} THEN {} ELSE {LabelOrder[CHOOSE i \in DOMAIN LabelOrder : LabelOrder[i] \in known /\ \A j \in 1 .. i - 1 : LabelOrder[j] \notin known]}

VertexFromNode(node) == {[id |-> i, label |-> l, props |-> node.props] : i \in NewElementID(node.id), l \in nodeLabel(node.labels)}
EdgeFromRelationship(r) == ParseEdge(r.id, r.kind, r.start, r.end, r.props)

nodeFromRecord(record) == IF record.type = "node" THEN {record.held} ELSE {}
relationshipFromRecord(record) == IF record.type = "relationship" THEN {record.held} ELSE {}

VerticesFromRecords(records) == all(each([i \in DOMAIN records |-> UNION {VertexFromNode(n) : n \in nodeFromRecord(records[i])}]))
EdgesFromRecords(records) == all(each([i \in DOMAIN records |-> UNION {EdgeFromRelationship(r) : r \in relationshipFromRecord(records[i])}]))

-----------------------------------------------------------------------------
(* Calls                                                                   *)

Idle == [pc |-> "idle", op |-> "", cancelled |-> FALSE, open |-> FALSE, answer |-> <<>>, at |-> 0, end |-> "", attempts |-> 0, timeout |-> 0, allowed |-> 0, result |-> {}, error |-> ""]

InitClients ==
    /\ \E k \in Kinds : store = [kind |-> k, closed |-> FALSE, connection |-> "open"]
    /\ proc = [c \in Callers |-> Idle]
    /\ seen = 0

TypeOKClients == /\ \A c \in Callers : proc[c].pc \in {"idle", "submit", "stream", "do", "transaction", "closeSession", "returned"} /\ Cardinality(proc[c].result) <= 1
          /\ store.connection = "closed" => store.closed

becomeClients(c, p) == proc' = [proc EXCEPT ![c] = p] /\ UNCHANGED <<store, seen>>
failed(p, error) == [p EXCEPT !.pc = "returned", !.open = FALSE, !.result = {}, !.error = error, !.answer = <<>>, !.at = 0]
returns(p, result) == IF result = {} THEN failed(p, "ErrInvalidResult") ELSE [p EXCEPT !.pc = "returned", !.open = FALSE, !.result = result]

CancelClients(c) == proc[c].pc \in {"submit", "stream", "do", "transaction"} /\ ~proc[c].cancelled /\ becomeClients(c, [proc[c] EXCEPT !.cancelled = TRUE])
Again(c) == proc[c].pc = "returned" /\ becomeClients(c, Idle)

-----------------------------------------------------------------------------
(* gremlin.Client                                                          *)

GremlinQuery(c, op) ==
    /\ store.kind = "gremlin" /\ proc[c].pc = "idle"
    /\ becomeClients(c, IF store.closed THEN failed([Idle EXCEPT !.op = op], "ErrClosed") ELSE [Idle EXCEPT !.pc = "submit", !.op = op])

timeoutLeft(timeout, remaining) == IF remaining = {} THEN timeout ELSE CHOOSE r \in remaining : TRUE

\* The lesser of the client's timeout and what is left of the context's; a deadline that has just passed leaves none.
effectiveTimeout(timeout, remaining) ==
    LET closer == {r \in remaining : timeout <= 0 \/ r < timeout}
        least == IF closer = {} THEN timeout ELSE CHOOSE r \in closer : TRUE
    IN  IF least < 0 THEN 0 ELSE least

\* Submit, after a last look at the context. A connection that was closed meanwhile refuses it.
GremlinSubmit(c, fate, answer, timeout, remaining) ==
    /\ proc[c].pc = "submit" /\ (store.connection = "closed" => fate = "refused")
    /\ LET p == [proc[c] EXCEPT !.timeout = effectiveTimeout(timeout, remaining), !.allowed = timeout]
       IN  becomeClients(c, CASE p.cancelled                       -> failed(p, "context")
                       [] ~p.cancelled /\ fate = "refused"  -> failed(p, "ErrProvider")
                       [] ~p.cancelled /\ fate = "nil"      -> failed(p, "ErrInvalidResult")
                       [] OTHER -> [p EXCEPT !.pc = "stream", !.open = TRUE, !.answer = answer, !.at = 0])

endSilently(p, how) == IF p.cancelled THEN failed(p, "context") ELSE returns(p, gremlinResult(p.op, SubSeq(p.answer, 1, p.at)))

\* The channel is closed: only a stream without an error has given everything.
streamEnd(p, how) ==
    CASE how = "canceled"                 -> failed(p, "context")
      [] how = "error"                    -> failed(p, "ErrProvider")
      [] how = "done" /\ p.cancelled      -> failed(p, "context")
      [] OTHER                            -> returns(p, gremlinResult(p.op, SubSeq(p.answer, 1, p.at)))

receiveUnbounded(p) == IF p.cancelled THEN failed(p, "context") ELSE IF p.answer[p.at + 1] = Nil THEN failed(p, "ErrInvalidResult") ELSE [p EXCEPT !.at = @ + 1]

receive(p) ==
    CASE p.answer[p.at + 1] = Nil                    -> failed(p, "ErrInvalidResult")
      [] p.answer[p.at + 1] # Nil /\ p.cancelled     -> failed(p, "context")
      [] OTHER -> IF p.at >= MaxResults THEN failed(p, "ErrInvalidResult") ELSE [p EXCEPT !.at = @ + 1]

\* One turn of the select; when the context has ended too, either of the two may be taken.
GremlinReceive(c) ==
    /\ proc[c].pc = "stream" /\ proc[c].at < Len(proc[c].answer)
    /\ becomeClients(c, receive(proc[c]))
GremlinEnd(c, how) ==
    /\ proc[c].pc = "stream" /\ (how = "done" => proc[c].at = Len(proc[c].answer))
    /\ becomeClients(c, streamEnd(proc[c], how))
GremlinDone(c) == proc[c].pc = "stream" /\ proc[c].cancelled /\ becomeClients(c, failed(proc[c], "context"))

\* Close marks the client before it closes the connection, once.
CloseClient == store.kind = "gremlin" /\ ~store.closed /\ store' = [store EXCEPT !.closed = TRUE] /\ UNCHANGED <<proc, seen>>
CloseConnection == store.closed /\ store.connection = "open" /\ store' = [store EXCEPT !.connection = "closed"] /\ UNCHANGED <<proc, seen>>

-----------------------------------------------------------------------------
(* falkordb.Client                                                         *)

FalkorQuery(c, op) ==
    /\ store.kind = "falkordb" /\ proc[c].pc = "idle"
    /\ becomeClients(c, [Idle EXCEPT !.pc = "do", !.op = op])

\* The context is looked at before the command, after it, and after its reply was parsed.
FalkorDo(c, fate, reply) ==
    /\ proc[c].pc = "do"
    /\ LET p == [proc[c] EXCEPT !.answer = reply]
       IN  becomeClients(c, CASE p.cancelled                         -> failed(p, "context")
                       [] ~p.cancelled /\ fate = "refused"    -> failed(p, "ErrProvider")
                       [] OTHER                               -> returns(p, falkorResult(p.op, reply)))

FalkorDelete(c, fate) ==
    /\ proc[c].pc = "do" /\ proc[c].op = "delete"
    /\ becomeClients(c, IF fate = "done" THEN returns(proc[c], {<<>>}) ELSE failed(proc[c], IF proc[c].cancelled THEN "context" ELSE "ErrProvider"))

-----------------------------------------------------------------------------
(* neo4j.Client                                                            *)

Neo4jCall(c, op) ==
    /\ store.kind = "neo4j" /\ proc[c].pc = "idle"
    /\ becomeClients(c, [Idle EXCEPT !.pc = "transaction", !.op = op, !.open = TRUE])

\* The driver runs the function again after a transient failure: what it returned before is thrown away.
transaction(c, fate, records, result) ==
    LET p == proc[c]
    IN  becomeClients(c, CASE fate = "transient" /\ p.attempts < MaxAttempts /\ ~p.cancelled -> [p EXCEPT !.attempts = @ + 1]
                    [] fate = "done" /\ result # {} -> [p EXCEPT !.pc = "closeSession", !.answer = records, !.result = result]
                    [] OTHER                        -> [p EXCEPT !.pc = "closeSession", !.error = "ErrDriver"])

Neo4jReadVertices(c, fate, records) ==
    /\ proc[c].pc = "transaction" /\ proc[c].op = "vertices"
    /\ transaction(c, fate, records, VerticesFromRecords(records))
Neo4jReadEdges(c, fate, records) ==
    /\ proc[c].pc = "transaction" /\ proc[c].op = "edges"
    /\ transaction(c, fate, records, EdgesFromRecords(records))

ExecuteWrite(c, fate) ==
    /\ proc[c].pc = "transaction" /\ proc[c].op = "write"
    /\ transaction(c, fate, <<>>, {<<>>})

\* The session is closed under a context of its own, whatever became of the caller's.
closeSession(c) == proc[c].pc = "closeSession" /\ becomeClients(c, [proc[c] EXCEPT !.pc = "returned", !.open = FALSE])

NextClients ==
    \/ \E c \in Callers : \/ CancelClients(c) \/ Again(c)
    \/ store.kind = "gremlin" /\ (\/ CloseClient \/ CloseConnection
                                  \/ \E c \in Callers : \/ \E op \in {"query", "vertices", "edges", "traverse"} : GremlinQuery(c, op)
                                                        \/ \E f \in {"ok", "refused", "nil"}, a \in Answers.gremlin, t \in Timeouts, r \in Remaining : GremlinSubmit(c, f, a, t, r)
                                                        \/ GremlinReceive(c) \/ GremlinDone(c) \/ \E h \in {"done", "error", "canceled"} : GremlinEnd(c, h))
    \/ store.kind = "falkordb" /\ \E c \in Callers : \/ \E op \in {"query", "vertices", "edges", "delete"} : FalkorQuery(c, op)
                                                     \/ \E f \in {"done", "refused"}, a \in Answers.falkordb : (proc[c].op # "delete" /\ FalkorDo(c, f, a)) \/ FalkorDelete(c, f)
    \/ store.kind = "neo4j" /\ \E c \in Callers : \/ \E op \in {"vertices", "edges", "write"} : Neo4jCall(c, op)
                                                  \/ \E f \in {"done", "transient", "failed"} : ExecuteWrite(c, f) \/ \E a \in Answers.neo4j : (Neo4jReadVertices(c, f, a) \/ Neo4jReadEdges(c, f, a))
                                                  \/ closeSession(c)

-----------------------------------------------------------------------------
(* Properties                                                              *)

\* By definition: how many elements an answer holds, however deep they lie.
RECURSIVE leavesOf(_, _)
leavesOf(value, nested) == IF value.type \in nested THEN FoldLeft(LAMBDA n, x : n + leavesOf(x, nested), 0, value.held) ELSE 1
elements(p) ==
    CASE store.kind = "gremlin" -> IF p.op = "query" THEN Len(p.answer) ELSE FoldLeft(LAMBDA n, x : n + leavesOf(x, IF p.op = "traverse" THEN {"list", "path"} ELSE {"list"}), 0, p.answer)
      [] store.kind = "falkordb" -> IF p.op = "delete" THEN 0 ELSE Len(p.answer.rows)
      [] OTHER -> IF p.op = "write" THEN 0 ELSE Len(p.answer)

\* A call that succeeded gives one result for every element that the database answered with, nested ones too, and no
\* more of them than the limit: a stream that broke, a context that ended or an element that cannot be converted is an
\* error and never a shorter answer.
AnswersWhole ==
    \A c \in Callers : proc[c].pc = "returned" /\ proc[c].error = "" =>
        \A r \in proc[c].result : Len(r) = elements(proc[c]) /\ (store.kind # "neo4j" => Len(r) <= MaxResults)

\* A call that has returned holds no stream and no session, and what it asked the server to stop after is no longer
\* than the client's own timeout.
HeldNothing ==
    \A c \in Callers : /\ proc[c].pc = "returned" => ~proc[c].open
                       /\ proc[c].timeout > 0 /\ proc[c].allowed > 0 => proc[c].timeout <= proc[c].allowed

-----------------------------------------------------------------------------
(***************************************************************************)
(* )                                                                       *)
(***************************************************************************)
CONSTANTS
    labelOf,                     \* [vertices -> labels]
    EdgeLists,                   \* the graphs: sequences of edges
    Asked,                       \* the users asked about, known or not
    effectOf, actionOf, isAdmin, \* of policies, permissions and roles
    Approved,                    \* set of <<resource, action>>
    MaxGroupDepth

(* Package examples/graph/iamaccess: who may do what, decided by walking a     *)
(* graph of users, nested groups, roles, policies, permissions, resources and   *)
(* temporary grants. An edge is <<label, start, end>>; edges keep their order.  *)
(***************************************************************************)

VerticesAccess == DOMAIN labelOf
Users == {v \in VerticesAccess : labelOf[v] = "user"}

InitAccess ==
    /\ store = [pc |-> "assemble", edges |-> <<>>, user |-> ""]
    /\ proc = [paths |-> <<>>, queue |-> <<>>, denies |-> <<>>, allows |-> <<>>, answer |-> [allowed |-> FALSE, path |-> <<>>], risky |-> {}, excessive |-> {}]
    /\ seen = 0

TypeOKAccess == /\ store.pc \in {"assemble", "start", "principals", "explain", "done", "refused", "unknown"}
          /\ \A i \in DOMAIN proc.paths : ToSet(proc.paths[i]) \subseteq VerticesAccess

\* assembleIAMAccessGraph: both ends of an edge must be there.
Assemble(edges) ==
    /\ store.pc = "assemble"
    /\ store' = [store EXCEPT !.pc = IF \A i \in DOMAIN edges : edges[i][2] \in VerticesAccess /\ edges[i][3] \in VerticesAccess THEN "start" ELSE "refused", !.edges = edges]
    /\ UNCHANGED <<proc, seen>>

outgoingVertices(v, edgeLabel, vertexLabel) ==
    LET out == SelectSeq(store.edges, LAMBDA e : e[1] = edgeLabel /\ e[2] = v /\ labelOf[e[3]] = vertexLabel) IN [i \in DOMAIN out |-> out[i][3]]

\* Every path of the list followed by every vertex that it leads to.
extend(paths, edgeLabel, vertexLabel) ==
    FlattenSeq([i \in DOMAIN paths |-> LET next == outgoingVertices(Last(paths[i]), edgeLabel, vertexLabel) IN [j \in DOMAIN next |-> Append(paths[i], next[j])]])

userByID(user) ==
    /\ store.pc = "start" /\ user \in VerticesAccess
    /\ store' = [store EXCEPT !.pc = IF user \in Users THEN "principals" ELSE "unknown", !.user = user]
    /\ proc' = [proc EXCEPT !.paths = <<<<user>>>>, !.queue = <<<<user>>>>]
    /\ UNCHANGED seen

nextOnce(path) == SelectSeq(extend(<<path>>, "MEMBER_OF", "group"), LAMBDA p : Last(p) \notin {Last(q) : q \in ToSet(proc.paths)} /\ Len(path) <= MaxGroupDepth)

\* The groups one level up that this path has not been through, unless it is as deep as is looked at.
nextPaths(path) == IF Len(path) > MaxGroupDepth + 1 THEN <<>> ELSE SelectSeq(extend(<<path>>, "MEMBER_OF", "group"), LAMBDA p : Last(p) \notin ToSet(path))

\* principalPaths, one turn of its loop.
principalPaths ==
    /\ store.pc = "principals" /\ proc.queue # <<>>
    /\ \E next \in {nextPaths(Head(proc.queue))} : proc' = [proc EXCEPT !.paths = @ \o next, !.queue = Tail(@) \o next]
    /\ UNCHANGED <<store, seen>>

withEffect(paths, effect) == SelectSeq(paths, LAMBDA p : effectOf[Last(p)] = effect)
policyPaths(effect) ==
    extend(extend(withEffect(extend(extend(proc.paths, "HAS_ROLE", "role"), "ATTACHED_POLICY", "policy"), effect), "GRANTS_PERMISSION", "permission"), "APPLIES_TO", "resource")
temporaryPaths ==
    extend(extend(extend(<<<<store.user>>>>, "HAS_TEMP_GRANT", "grant"), "TEMPORARY_PERMISSION", "permission"), "APPLIES_TO", "resource")
allowPaths == policyPaths("allow") \o temporaryPaths

actionOn(path) == <<Last(path), actionOf[path[Len(path) - 1]]>>

\* Both lists are sorted by what they name, ties in any order: they are kept as sets.
RiskyPrivilegeChains ==
    {p \in ToSet(extend(SelectSeq(proc.paths, LAMBDA q : Cardinality({i \in DOMAIN q : labelOf[q[i]] = "group"}) >= 2), "HAS_ROLE", "role")) : isAdmin[Last(p)]}
ExcessivePermissions(allows) == {p \in ToSet(allows) : actionOn(p) \notin Approved}

Walked ==
    /\ store.pc = "principals" /\ proc.queue = <<>>
    /\ store' = [store EXCEPT !.pc = "explain"]
    /\ proc' = [proc EXCEPT !.denies = policyPaths("deny"), !.allows = allowPaths, !.risky = RiskyPrivilegeChains, !.excessive = ExcessivePermissions(allowPaths)]
    /\ UNCHANGED seen

allowFirst(denies, allows) == IF allows # <<>> THEN [allowed |-> TRUE, path |-> allows[1]] ELSE [allowed |-> FALSE, path |-> IF denies = <<>> THEN <<>> ELSE denies[1]]

\* A deny is looked for first, and any one of them is enough.
explain(denies, allows) ==
    IF denies # <<>> THEN [allowed |-> FALSE, path |-> denies[1]] ELSE IF allows # <<>> THEN [allowed |-> TRUE, path |-> allows[1]] ELSE [allowed |-> FALSE, path |-> <<>>]

\* matchingResources and the action asked about select among the paths.
ExplainAccess(resource, action) ==
    /\ store.pc = "explain"
    /\ proc' = [proc EXCEPT !.answer = explain(SelectSeq(proc.denies, LAMBDA p : actionOn(p) = <<resource, action>>), SelectSeq(proc.allows, LAMBDA p : actionOn(p) = <<resource, action>>))]
    /\ store' = [store EXCEPT !.pc = "done"]
    /\ seen' = <<resource, action>>

NextAccess ==
    \/ \E es \in EdgeLists : Assemble(es)
    \/ \E u \in Asked : userByID(u)
    \/ principalPaths \/ Walked
    \/ store.pc = "explain" /\ \E r \in {v \in VerticesAccess : labelOf[v] = "resource"}, a \in {actionOf[p] : p \in DOMAIN actionOf} : ExplainAccess(r, a)

-----------------------------------------------------------------------------
(* Properties                                                              *)

\* By definition, with sets instead of paths: the user and the groups at most MaxGroupDepth + 1 memberships away.
follow(vs, edgeLabel, vertexLabel) == {store.edges[i][3] : i \in {j \in DOMAIN store.edges : store.edges[j][1] = edgeLabel /\ store.edges[j][2] \in vs /\ labelOf[store.edges[j][3]] = vertexLabel}}
withinAccess[n \in 0 .. MaxGroupDepth + 1] == IF n = 0 THEN {store.user} ELSE withinAccess[n - 1] \cup follow(withinAccess[n - 1], "MEMBER_OF", "group")
permitted(effect) == follow({p \in follow(follow(withinAccess[MaxGroupDepth + 1], "HAS_ROLE", "role"), "ATTACHED_POLICY", "policy") : effectOf[p] = effect}, "GRANTS_PERMISSION", "permission")
temporary == follow(follow({store.user}, "HAS_TEMP_GRANT", "grant"), "TEMPORARY_PERMISSION", "permission")
covers(permissions, asked) == \E p \in permissions : actionOf[p] = asked[2] /\ asked[1] \in follow({p}, "APPLIES_TO", "resource")

\* Whatever the order of the edges and however the groups are nested, in cycles too, access is granted exactly when some
\* policy or temporary grant within reach allows it and none within reach denies it; the path given is a walk of the
\* graph from the user to the resource.
AccessAsDefined ==
    store.pc = "done" =>
        LET p == proc.answer.path IN
        /\ proc.answer.allowed <=> covers(permitted("allow") \cup temporary, seen) /\ ~covers(permitted("deny"), seen)
        /\ p # <<>> => p[1] = store.user /\ Last(p) = seen[1]
        /\ \A i \in 1 .. Len(p) - 1 : \E j \in DOMAIN store.edges : store.edges[j][2] = p[i] /\ store.edges[j][3] = p[i + 1]

\* Every action that the user is allowed beyond the approved ones is reported, and nothing else is.
ExcessReported ==
    store.pc \in {"explain", "done"} =>
        {actionOn(p) : p \in proc.excessive} = {x \in {<<r, actionOf[q]>> : r \in {v \in VerticesAccess : labelOf[v] = "resource"}, q \in DOMAIN actionOf} : covers(permitted("allow") \cup temporary, x)} \ Approved

=============================================================================
