---------------------------- MODULE BlockParser ----------------------------
(***************************************************************************)
(* The request-block parser (src/internal/curlblocks: parser.go,           *)
(* segment.go, pacing.go, protocol.go, body.go, data.go, form.go, json.go, *)
(* and the variation rules of vary.go): arguments to validated blocks,     *)
(* without reading a file.                                                 *)
(*                                                                         *)
(* An option is a record of its flag and arguments.  JSON documents are    *)
(* flat objects or scalars.                                                *)
(***************************************************************************)
EXTENDS BlockText

CONSTANT DefaultScheme   \* the parser's scheme; empty for none

Stdin == <<"-">>
NoSource == [kind |-> "none", file |-> <<>>, list |-> <<>>,
             lo |-> [hex |-> FALSE, digits |-> <<>>, letters |-> "none", signed |-> FALSE],
             hi |-> [hex |-> FALSE, digits |-> <<>>, letters |-> "none", signed |-> FALSE], step |-> 1]
Opt(flag) == [flag |-> flag, kind |-> "", name |-> <<>>, text |-> <<>>, on |-> TRUE,
              encoders |-> <<>>, source |-> NoSource]

-----------------------------------------------------------------------------
(* Segments *)

GlobalFlags == {"version", "rate"}
BlockFlags == {"reset-body", "warmup-only"}
HeaderFlags == {"header", "user-agent", "user", "oauth2-bearer", "delete-header"}
BodyFlags == {"data", "form", "json"}
SharedFlags == {"url", "positional", "repeat", "name", "cookie", "vary", "vary-mode",
                "vary-file-content", "request", "http2", "http1.1"} \cup HeaderFlags \cup BodyFlags

\* splitSegments: the preamble and the blocks; the separators are dropped.
splitSegments(args) ==
  LET marks == {i \in DOMAIN args : args[i].flag = "block"}
      starts == SetToSortSeq(marks \cup {0}, <)
      stop(i) == Min({Len(args) + 1} \cup {m \in marks : m > starts[i]})
  IN [i \in DOMAIN starts |-> SubSeq(args, starts[i] + 1, stop(i) - 1)]

\* parseSegment: pflag stops at the first unknown flag or -h; a flag of another
\* scope is reported after it.
parseSegment(args, active) ==
  LET stops == {i \in DOMAIN args : args[i].flag \in {"unknown", "help"}}
  IN IF stops # {} THEN Fail(args[Min(stops)].flag)
     ELSE IF \E i \in DOMAIN args : args[i].flag \notin active THEN Fail("misplaced")
     ELSE Ok(args)

All(seg, flags) == SelectSeq(seg, LAMBDA o : o.flag \in flags)
IsSet(seg, flag) == All(seg, {flag}) # <<>>
\* A shared flag's value: the block's last, else the preamble's, else the default.
Resolved(pre, blk, flag, default) ==
  LET given == All(pre, {flag}) \o All(blk, {flag})
  IN IF given = <<>> THEN default ELSE Last(given)

segURLs(seg) ==
  LET urls == All(seg, {"positional"}) \o All(seg, {"url"})
  IN [i \in DOMAIN urls |-> urls[i].text]
resolveURLs(pre, blk) == IF segURLs(blk) # <<>> THEN segURLs(blk) ELSE segURLs(pre)

\* parsePositiveInt: digits only, and within an int; 0 for a refusal.
parsePositiveInt(text) ==
  LET digit(a) == CHOOSE d \in 0..9 : Numerals[d + 1] = a
      plain == text # <<>> /\ \A i \in DOMAIN text : \E d \in 1..10 : Numerals[d] = text[i]
      n == ValueOf([i \in DOMAIN text |-> digit(text[i])], 10)
  IN IF plain /\ n <= MaxInt THEN n ELSE 0

\* ParseRate: a count per unit, as a fraction; <<0, 1>> for no limit.
SecondsOf == [s |-> 1, m |-> 60, h |-> 3600, d |-> 86400]
ParseRate(o) ==
  CASE o.text \in {<<>>, <<"unlimited">>} -> Ok(<<0, 1>>)
    [] parsePositiveInt(o.text) = 0 \/ o.kind \notin DOMAIN SecondsOf -> Fail("rate")
    [] OTHER -> Ok(<<parsePositiveInt(o.text), SecondsOf[o.kind]>>)

\* selection and resolve: one protocol per scope, the block's first.
selection(seg) ==
  LET on(flag) == IsSet(seg, flag) /\ Last(All(seg, {flag})).on
  IN CASE on("http2") /\ on("http1.1") -> Fail("protocol")
       [] on("http2") -> Ok("HTTP2")
       [] on("http1.1") -> Ok("HTTP11")
       [] OTHER -> Ok("none")
resolveProtocol(pre, blk) ==
  LET own == selection(blk)
      chosen == IF own.ok /\ own.val = "none" THEN selection(pre) ELSE own
  IN IF chosen.ok /\ chosen.val = "none" THEN Ok("HTTP2") ELSE chosen

-----------------------------------------------------------------------------
(* Bodies *)

atFile(spec) == spec # <<>> /\ Head(spec) = "@"
At(spec, atom) == Min({i \in DOMAIN spec : spec[i] = atom} \cup {Len(spec) + 1})
Has(spec, atom) == atom \in ToSet(spec)

\* The file a piece reads, and <<>> for none (an empty name is refused before).
RefOf(p) ==
  CASE p.ref # <<>> -> p.ref
    [] p.family = "data" /\ p.kind = "urlencode" ->
         IF Has(p.spec, "@") /\ ~Has(p.spec, "=") THEN SubSeq(p.spec, At(p.spec, "@") + 1, Len(p.spec))
         ELSE <<>>
    [] p.family = "data" /\ p.kind # "raw" -> IF atFile(p.spec) THEN Tail(p.spec) ELSE <<>>
    [] OTHER -> <<>>

\* newJSONPiece and parseFormSpec settle at parse time which pieces are files.
Piece(o) ==
  LET file == \/ o.flag = "json" /\ atFile(o.text)
              \/ o.flag = "form" /\ o.kind \in {"file", "filetext"}
  IN [family |-> o.flag, kind |-> o.kind, name |-> o.name,
      spec |-> IF file THEN <<>> ELSE o.text,
      ref |-> IF ~file THEN <<>> ELSE IF o.flag = "json" THEN Tail(o.text) ELSE o.text]
EmptyReference(o) ==
  \/ o.flag \in {"data", "json"} /\ o.kind # "raw" /\ o.text = <<"@">>
  \/ o.kind = "urlencode" /\ At(o.text, "@") = Len(o.text) /\ ~Has(o.text, "=")
  \/ o.flag = "form" /\ o.kind \in {"file", "filetext"} /\ o.text = <<>>

JsonObject(t) == Len(t) >= 2 /\ Head(t) = "{" /\ Last(t) = "}" /\ Len(t) % 2 = 0
JsonValid(t) == JsonObject(t) \/ Len(t) = 1
\* decodeObject: the keys and their values; the last of a repeated key counts.
Keys(t) == {t[2 * i] : i \in 1..((Len(t) \div 2) - 1)}
Decoded(t) ==
  [key \in Keys(t) |-> t[(2 * Max({i \in 1..((Len(t) \div 2) - 1) : t[2 * i] = key})) + 1]]
mergePatch(target, patch) ==
  LET live == {key \in DOMAIN patch : patch[key] # "null"}
      dropped == DOMAIN patch \ live
  IN [key \in (DOMAIN target \ dropped) \cup live |-> IF key \in live THEN patch[key] ELSE target[key]]
Serialised(doc) ==
  <<"{">> \o FlattenSeq([i \in 1..Cardinality(DOMAIN doc) |->
                           LET key == SetToSeq(DOMAIN doc)[i] IN <<key, doc[key]>>]) \o <<"}">>
MergeJSON(docs) ==
  CASE Len(docs) = 1 -> IF JsonValid(docs[1]) THEN Ok(docs[1]) ELSE Fail("json")
    [] \E i \in DOMAIN docs : ~JsonObject(docs[i]) -> Fail("json")
    [] OTHER -> Ok(Serialised(FoldLeft(LAMBDA doc, t : mergePatch(doc, Decoded(t)),
                                       Decoded(docs[1]), Tail(docs))))

\* resolveJSON: inline documents are checked here, and merged ones too when no
\* file is among them.
resolveJSON(pieces) ==
  LET docs == SelectSeq(pieces, LAMBDA p : p.family = "json")
      inline == SelectSeq(docs, LAMBDA p : p.ref = <<>>)
      specs == [i \in DOMAIN inline |-> inline[i].spec]
  IN /\ \A i \in DOMAIN specs : JsonValid(specs[i])
     /\ (Len(docs) > 1 /\ inline = docs) => MergeJSON(specs).ok

\* resolveBody: the block's pieces follow the preamble's unless it resets them;
\* one kind only.
resolveBody(pre, blk) ==
  LET opts == All(IF IsSet(blk, "reset-body") THEN <<>> ELSE pre, BodyFlags) \o All(blk, BodyFlags)
      pieces == [i \in DOMAIN opts |-> Piece(opts[i])]
  IN CASE \E i \in DOMAIN opts : opts[i].flag = "form" /\ opts[i].name = <<>> -> Fail("form")
       [] \E i \in DOMAIN opts : EmptyReference(opts[i]) -> Fail("filename")
       [] ~resolveJSON(pieces) -> Fail("json")
       [] Cardinality({pieces[i].family : i \in DOMAIN pieces}) > 1 -> Fail("body kinds")
       [] OTHER -> Ok(pieces)
Family(b) == IF b.pieces = <<>> THEN "none" ELSE b.pieces[1].family

-----------------------------------------------------------------------------
(* Variation *)

\* resolveVary: a later binding of a token takes the earlier one's place.
LatestBindings(specs) ==
  LET first(i) == \A j \in 1..(i - 1) : specs.val[j].token # specs.val[i].token
      latest(t) == specs.val[Max({i \in DOMAIN specs.val : specs.val[i].token = t})]
      order == SelectSeq([i \in DOMAIN specs.val |-> i], first)
  IN IF ~specs.ok THEN specs
     ELSE Ok([n \in DOMAIN order |-> latest(specs.val[order[n]].token)])
resolveVary(pre, blk) ==
  LET opts == All(pre, {"vary"}) \o All(blk, {"vary"})
      specs == Gather([i \in DOMAIN opts |->
                 parseVarySpec([token |-> opts[i].name, encoders |-> opts[i].encoders, source |-> opts[i].source])])
  IN LatestBindings(specs)
varyTokens(b) == [i \in DOMAIN b.vary |-> b.vary[i].token]

\* The references a body names as typed, and those of literal sources.
bodyFileRefs(b) == SelectSeq([i \in DOMAIN b.pieces |-> RefOf(b.pieces[i])], LAMBDA r : r # <<>>)
SourceRefs(b) ==
  LET files == SelectSeq(b.vary, LAMBDA v : v.source.kind = "file")
  IN [i \in DOMAIN files |-> files[i].source.file]
validateFileRefs(b, stdinReader) ==
  Stdin \in ToSet(bodyFileRefs(b) \o SourceRefs(b)) => stdinReader

\* mapStrings: every field a token may occupy, and no path.
mapPiece(p, keys, values) ==
  LET Op(s) == Replace(s, keys, values) IN
  CASE p.family = "data" /\ RefOf(p) # <<>> ->
         IF p.kind = "urlencode"
         THEN [p EXCEPT !.ref = RefOf(p), !.name = Op(SubSeq(p.spec, 1, At(p.spec, "@") - 1))]
         ELSE p
    [] p.family = "form" -> [p EXCEPT !.name = Op(@), !.spec = IF p.ref = <<>> THEN Op(@) ELSE @]
    [] p.ref # <<>> -> p
    [] OTHER -> [p EXCEPT !.spec = Op(@)]
mapStrings(b, keys, values) ==
  LET Op(s) == Replace(s, keys, values) IN
  [b EXCEPT !.urls = <<Op(b.urls[1])>>,
            !.headers = [i \in DOMAIN @ |-> mapTyped(@[i], keys, values)],
            !.suppressed = [i \in DOMAIN @ |-> Op(@[i])],
            !.cookies = [i \in DOMAIN @ |-> [name |-> Op(@[i].name), value |-> Op(@[i].value)]],
            !.method = Op(@),
            !.pieces = [i \in DOMAIN @ |-> mapPiece(@[i], keys, values)]]

\* mentions shares mapStrings' enumeration: something would be replaced.
mentions(b, bodyFiles, token) ==
  \/ mapStrings(b, <<token>>, << <<"MARK">> >>) # mapStrings(b, <<>>, <<>>)
  \/ b.varyFiles /\ \E i \in DOMAIN bodyFiles : Occurs(bodyFiles[i].text, token)

hasScheme(url) == Has(url, "://") /\ At(url, "://") > 1
                    /\ \A i \in 1..(At(url, "://") - 1) : url[i] \notin Reserved
ensureScheme(url) == IF DefaultScheme = <<>> \/ hasScheme(url) THEN url ELSE DefaultScheme \o <<"://">> \o url
checkVariantURL(url) == ~Has(url, "://") \/ At(url, "://") < Len(url)

substitute(b, values) ==
  LET Op(s) == Replace(s, varyTokens(b), values)
      out == mapStrings(b, varyTokens(b), values)
  IN [out EXCEPT !.vary = <<>>, !.urls = <<ensureScheme(@[1])>>,
                 !.bodyFiles = IF b.varyFiles
                               THEN [i \in DOMAIN @ |-> [name |-> @[i].name, text |-> Op(@[i].text)]]
                               ELSE @]

\* validateVary: what needs no reading.  A token that only a body file can hold
\* is looked for later.
validateVary(b) ==
  LET sizes == [i \in DOMAIN b.vary |-> staticSize(b.vary[i].source)]
      defer == b.varyFiles /\ bodyFileRefs(b) # <<>>
  IN b.vary # <<>> =>
       /\ Len(b.urls) = 1
       /\ ~overlappingToken(varyTokens(b))
       /\ \A i \in DOMAIN b.vary : mentions(b, <<>>, b.vary[i].token) \/ defer
       /\ \A i \in DOMAIN sizes : checkFanSize(sizes[i])
       /\ (b.mode # "pitchfork" /\ \A i \in DOMAIN sizes : sizes[i] >= 0) => checkFanProduct(sizes)

-----------------------------------------------------------------------------
(* Parsing *)

\* A block whose files and variations hold together.
Validated(b, stdinReader) ==
  CASE ~validateFileRefs(b, stdinReader) -> Fail("stdin")
    [] ~validateVary(b) -> Fail("vary")
    [] OTHER -> Ok(b)

\* The block of two segments, from its parts in the order they are checked.
Assembled(pre, blk, protocol, urls, repeat, headers, cookies, pieces, vary, stdinReader) ==
  LET mode == Resolved(pre, blk, "vary-mode", [Opt("vary-mode") EXCEPT !.kind = "clusterbomb"]).kind
      method == Resolved(pre, blk, "request", Opt("none"))
  IN CASE ~protocol.ok -> protocol
       [] urls = <<>> -> Fail("url")
       [] repeat = 0 -> Fail("repeat")
       [] ~headers.ok -> headers
       [] ~cookies.ok -> cookies
       [] ~pieces.ok -> pieces
       [] ~vary.ok -> vary
       [] mode \notin {"clusterbomb", "pitchfork"} -> Fail("vary-mode")
       [] method.flag = "request" /\ method.text = <<>> -> Fail("request")
       [] OTHER -> Validated(
            [protocol |-> protocol.val,
             urls |-> [i \in DOMAIN urls |-> IF vary.val = <<>> THEN ensureScheme(urls[i]) ELSE urls[i]],
             name |-> Resolved(pre, blk, "name", Opt("name")).text,
             headers |-> headers.val.headers, suppressed |-> headers.val.suppressed,
             cookies |-> cookies.val, method |-> method.text, pieces |-> pieces.val,
             repeat |-> repeat, vary |-> vary.val, mode |-> mode, bodyFiles |-> <<>>,
             varyFiles |-> Resolved(pre, blk, "vary-file-content", Opt("vary-file-content")).on,
             warmup |-> IsSet(blk, "warmup-only")], stdinReader)

toBlock(pre, blk, stdinReader) ==
  LET pairs == All(pre, {"cookie"}) \o All(blk, {"cookie"})
  IN Assembled(pre, blk, resolveProtocol(pre, blk), resolveURLs(pre, blk),
       parsePositiveInt(Resolved(pre, blk, "repeat", [Opt("repeat") EXCEPT !.text = <<"1">>]).text),
       resolveHeaderSet(All(pre, HeaderFlags), All(blk, HeaderFlags)),
       resolveCookies([i \in DOMAIN pairs |-> [name |-> pairs[i].name, value |-> pairs[i].text]]),
       resolveBody(pre, blk), resolveVary(pre, blk), stdinReader)

validateBlockNames(blocks) ==
  \A i, j \in DOMAIN blocks :
    (i # j /\ blocks[i].name # <<>>) => displayValue(blocks[i].name) # displayValue(blocks[j].name)

\* Parse: the preamble, then the version, the protocol, the missing URL and the
\* pacing values, then the blocks.
CheckedBlocks(blocks) ==
  IF blocks.ok /\ ~validateBlockNames(blocks.val) THEN Fail("names") ELSE blocks
ParseBlocks(pre, segments, stdinReader) ==
  LET one(blk) == IF blk.ok THEN toBlock(pre, blk.val, stdinReader) ELSE blk
      blocks == IF Len(segments) = 1 THEN << <<>> >> ELSE Tail(segments)
  IN CheckedBlocks(Gather(
       [i \in DOMAIN blocks |-> one(parseSegment(blocks[i], SharedFlags \cup BlockFlags))]))
ParseSegments(pre, segments, stdinReader) ==
  LET rates == Gather([i \in DOMAIN All(pre.val, {"rate"}) |-> ParseRate(All(pre.val, {"rate"})[i])])
  IN CASE ~pre.ok -> pre
       [] IsSet(pre.val, "version") -> Fail("version")
       [] ~selection(pre.val).ok -> selection(pre.val)
       [] Len(segments) = 1 /\ segURLs(pre.val) = <<>> -> Fail("url")
       [] ~rates.ok -> rates
       [] OTHER -> ParseBlocks(pre.val, segments, stdinReader)
Parse(args, stdinReader) ==
  LET segments == splitSegments(args)
  IN ParseSegments(parseSegment(segments[1], GlobalFlags \cup SharedFlags), segments, stdinReader)
=============================================================================
