---------------------------- MODULE MCLensCommand ----------------------------
(***************************************************************************)
(* The command lines and inputs on which LensCommand is checked.           *)
(***************************************************************************)
EXTENDS LensCommand

MCRegistry ==
  <<[name |-> "TransactionEnvelope", priority |-> 100],
    [name |-> "TransactionResult", priority |-> 95],
    [name |-> "TransactionMeta", priority |-> 90],
    [name |-> "ScVal", priority |-> 40],
    [name |-> "Memo", priority |-> 10],
    [name |-> "Asset", priority |-> 9]>>

\* The texts.
Tree(types) == [t \in types |-> 20]
Plain ==
  [form |-> "base64", zeroX |-> FALSE, trees |-> Tree({"TransactionEnvelope"}), hexTrees |-> Tree({}),
   len |-> 120, canonical |-> TRUE, id |-> "envelope", value |-> "v1", operations |-> "ops",
   wasm |-> FALSE, failed |-> FALSE, trapped |-> FALSE, footprint |-> TRUE, soroban |-> TRUE,
   document |-> "", envelopeKeys |-> FALSE, strictFor |-> {}, encodesAs |-> {}, derives |-> TRUE]
Envelope == Plain
Other == [Plain EXCEPT !.id = "other", !.value = "v2", !.operations = "more", !.footprint = FALSE, !.soroban = FALSE]
Result == [Plain EXCEPT !.id = "result", !.trees = Tree({"TransactionResult"}), !.soroban = FALSE]
FailedResult == [Result EXCEPT !.id = "failed", !.failed = TRUE, !.trapped = TRUE, !.operations = "fewer"]
Meta == [Plain EXCEPT !.id = "meta", !.trees = Tree({"TransactionMeta"})]
Overflowing == [Meta EXCEPT !.id = "overflowing", !.derives = FALSE]
Native == [Plain EXCEPT !.id = "native", !.trees = Tree({"Memo", "Asset"}), !.len = 4]
Nameless == [Native EXCEPT !.id = "nameless", !.derives = FALSE]
Wasm == [Plain EXCEPT !.id = "wasm", !.trees = Tree({}), !.wasm = TRUE]
Unknown == [Plain EXCEPT !.id = "unknown", !.trees = Tree({}), !.canonical = FALSE]
Loose == [Plain EXCEPT !.id = "loose", !.canonical = FALSE]
Garbage == [Unknown EXCEPT !.id = "garbage", !.form = "neither"]
Prefixed == [Garbage EXCEPT !.id = "prefixed", !.form = "hex", !.zeroX = TRUE, !.canonical = TRUE,
             !.hexTrees = Tree({"TransactionEnvelope"})]
BadPrefixed == [Garbage EXCEPT !.id = "badprefixed", !.zeroX = TRUE]
Hex == [Prefixed EXCEPT !.id = "hex", !.zeroX = FALSE]
Empty == [Garbage EXCEPT !.id = "empty", !.form = "empty"]
ZeroBase64 == [Result EXCEPT !.id = "zerobase64", !.zeroX = TRUE]
Texts1 == {Envelope, Native, Unknown, Loose, Garbage, Prefixed, BadPrefixed, ZeroBase64, Hex, Empty}

\* Sources.
Absent == [kind |-> "absent", text |-> Empty, name |-> ""]
Missing(name) == [kind |-> "unreadable", text |-> Empty, name |-> name]
Of(text) == [kind |-> "text", text |-> text, name |-> text.id]

\* Commands: a base with every flag off, and variations of it.
Base ==
  [name |-> "decode", file |-> Absent, arg |-> Absent, stdin |-> Of(Empty), quiet |-> FALSE,
   type |-> "", format |-> "tree", theme |-> "dark", hex |-> FALSE, canonical |-> FALSE,
   candidates |-> FALSE, wasm |-> FALSE, select |-> "", raw |-> FALSE, filter |-> "",
   batch |-> FALSE, stream |-> FALSE, multi |-> FALSE, interactive |-> FALSE,
   files |-> << >>, records |-> << >>, lines |-> << >>, tail |-> "io.EOF",
   result |-> Absent, meta |-> Absent, failOnError |-> FALSE, isolate |-> FALSE, expiry |-> FALSE,
   reference |-> "", resources |-> FALSE, left |-> Absent, right |-> Absent, modes |-> {},
   footprint |-> FALSE, paths |-> FALSE, redacts |-> FALSE, exitCode |-> FALSE,
   strict |-> FALSE, scval |-> FALSE, tx |-> FALSE, network |-> "mainnet"]

Decodes ==
  {[Base EXCEPT !.arg = Of(t), !.type = ty, !.hex = h, !.canonical = c] :
     t \in Texts1, ty \in {"", "TransactionEnvelope", "Bogus"}, h \in BOOLEAN, c \in BOOLEAN}
  \cup {[Base EXCEPT !.file = s, !.arg = Of(Envelope)] : s \in {Missing("f"), Of(Empty), Of(Native)}}
  \cup {[Base EXCEPT !.stdin = s] : s \in {Missing("stdin"), Of(Empty), Of(Native)}}
  \cup {[Base EXCEPT !.arg = Of(t), !.candidates = c, !.wasm = ~c] : t \in {Native, Wasm, Unknown}, c \in BOOLEAN}
  \cup {[Base EXCEPT !.arg = Of(Envelope), !.select = s, !.raw = r, !.filter = f, !.theme = th] :
          s \in {"", "missing", "struct", "scalar"}, r \in BOOLEAN, f \in {"", "nothing"}, th \in {"dark", "unknown"}}
  \cup {[Base EXCEPT !.arg = Of(t), !.format = f] : t \in {Envelope, Native}, f \in {"json", "yaml", "txrep", "csv"}}

Batches ==
  {[Base EXCEPT !.batch = TRUE, !.files = f] :
     f \in {<< >>, <<Of(Envelope)>>, <<Of(Envelope), Of(Native)>>, <<Of(Envelope), Of(Garbage)>>,
            <<Of(Unknown), Of(Garbage)>>, <<Of(Garbage), Missing("m")>>, <<Missing("m"), Of(Garbage)>>,
            <<Of(Empty), Of(Envelope), Of(Unknown)>>}}
  \cup {[Base EXCEPT !.batch = TRUE, !.files = <<Of(Envelope)>>, !.multi = TRUE],
        [Base EXCEPT !.batch = TRUE, !.files = <<Of(Envelope)>>, !.arg = Of(Native)]}

Data(text) == [kind |-> "data", text |-> text]
Blank == [kind |-> "blank", text |-> Empty]
Comment == [kind |-> "comment", text |-> Empty]
Long == [kind |-> "long", text |-> Empty]

Streams ==
  {[Base EXCEPT !.stream = TRUE, !.records = r, !.tail = t, !.canonical = c, !.type = ty] :
     r \in {<< >>, <<Envelope>>, <<Envelope, Native>>, <<Envelope, Unknown, Native>>, <<Loose>>},
     t \in {"io.EOF", "ErrPrematureEOF"}, c \in BOOLEAN, ty \in {"", "TransactionEnvelope"}}
Multis ==
  {[Base EXCEPT !.multi = TRUE, !.lines = l, !.tail = t, !.hex = h, !.type = ty, !.format = f] :
     l \in {<< >>, <<Blank, Comment>>, <<Comment, Data(Envelope), Blank, Data(Native)>>,
            <<Data(Envelope), Data(Garbage), Data(Native)>>, <<Data(Hex), Data(Prefixed)>>,
            <<Data(Native), Data(ZeroBase64)>>,
            <<Data(Envelope), Long, Data(Native)>>},
     t \in {"io.EOF", "read error"}, h \in BOOLEAN, ty \in {"", "TransactionEnvelope", "Bogus"},
     f \in {"tree", "yaml", "json"}}

Explains ==
  {[Base EXCEPT !.name = "explain", !.arg = Of(a), !.result = r, !.format = f, !.failOnError = TRUE, !.isolate = TRUE,
                !.expiry = e, !.meta = m] :
     a \in {Envelope, FailedResult, Result, Garbage, Meta}, r \in {Absent, Of(FailedResult), Of(Result), Missing("r"), Of(Garbage)},
     f \in {"text", "json", "markdown"}, e \in BOOLEAN, m \in {Absent, Of(Meta)}}
  \cup {[Base EXCEPT !.name = "explain", !.arg = Of(a), !.format = "text", !.resources = TRUE, !.expiry = TRUE, !.reference = t,
                !.theme = th] :
          a \in {Envelope, Other}, t \in {"", "malformed"}, th \in {"dark", "unknown"}}
  \cup {[Base EXCEPT !.name = "explain", !.file = f, !.arg = a, !.stdin = Of(FailedResult), !.failOnError = TRUE] :
          f \in {Absent, Of(Result), Of(FailedResult)}, a \in {Absent, Of(Prefixed), Of(FailedResult)}}

Diffs ==
  {[Base EXCEPT !.name = "diff", !.left = l, !.right = r, !.modes = m, !.exitCode = e, !.quiet = q, !.redacts = re, !.footprint = f] :
     l \in {Of(Envelope), Of(Garbage)}, r \in {Of(Envelope), Of(Other), Missing("b")},
     m \in {{}, {"stats"}, {"stats", "json"}, {"unified"}, {"unified", "json"}, {"side-by-side"}}, e \in BOOLEAN, q \in BOOLEAN,
     re \in BOOLEAN, f \in BOOLEAN}
  \cup {[Base EXCEPT !.name = "diff", !.left = Of(Envelope), !.right = Of(Other), !.theme = "unknown", !.exitCode = TRUE],
        [Base EXCEPT !.name = "diff", !.left = Of(Envelope), !.right = Of(Other), !.footprint = TRUE, !.paths = TRUE]}
  \cup {[Base EXCEPT !.name = "result-diff", !.left = Of(Envelope), !.right = r, !.exitCode = e, !.quiet = q] :
          r \in {Of(Result), Of(FailedResult), Of(Envelope), Of(Unknown)}, e \in BOOLEAN, q \in BOOLEAN}

Json(document, keys, strict, encodes) ==
  [Envelope EXCEPT !.id = "json", !.form = "neither", !.document = document, !.envelopeKeys = keys,
                   !.strictFor = strict, !.encodesAs = encodes]
Others ==
  {[Base EXCEPT !.name = n, !.arg = a, !.file = f] :
     n \in {"asset", "meta-diff", "types"}, a \in {Absent, Of(Native), Of(Nameless), Of(Meta), Of(Overflowing), Of(Garbage)},
     f \in {Absent, Of(Meta), Of(Overflowing), Missing("f")}}
  \cup {[Base EXCEPT !.name = "asset", !.arg = Of(Native), !.network = ""]}
  \cup {[Base EXCEPT !.name = "encode", !.arg = Of(j), !.type = ty, !.strict = st, !.scval = sc] :
          j \in {Json("Memo", FALSE, {}, {"Memo"}), Json("Bogus", FALSE, {}, {}), Json("", TRUE, {}, {"TransactionEnvelope"}),
                 Json("", FALSE, {"ScVal"}, {"ScVal"})},
          ty \in {"", "ScVal", "Asset"}, st \in BOOLEAN, sc \in BOOLEAN}

MCCommands == Decodes \cup Batches \cup Streams \cup Multis \cup Explains \cup Diffs \cup Others
=============================================================================
