--------------------------- MODULE RequestBlocks ---------------------------
(***************************************************************************)
(* From a command's arguments to its requests (src/internal/curlblocks:    *)
(* plan.go, vary.go, naming.go, data.go, form.go, json.go, request.go;     *)
(* src/cmd/tturl: stdin.go, batch.go, request.go, time_request.go).        *)
(*                                                                         *)
(* Parsing is one step.  Expansion and the building of requests read files *)
(* and standard input, one read a step: between two reads anyone may       *)
(* change a file and the user may interrupt.                               *)
(***************************************************************************)
EXTENDS BlockParser

CONSTANT Jobs   \* command lines, with the files and standard input they meet

VARIABLES
  job,       \* the command line
  at,        \* where its preparation stands
  plan,      \* the parsed blocks
  k,         \* the block being expanded, then the group being built
  snap,      \* the block's body snapshots
  vals,      \* values per token so far
  groups,    \* Expand's request groups
  loaded,    \* contents of the group's body pieces so far
  reqs,      \* the requests built
  version,   \* the version of each file on disk
  stdin,     \* newStdinSnapshot: its once, and what it keeps
  cancelled, \* the command's context
  why,       \* the failure, or "none"
  used       \* the file versions each block's requests depend on

workVars == <<plan, k, snap, vals, groups, loaded, reqs, used>>
blockVars == <<job, at, workVars, version, stdin, cancelled, why>>

BlocksInit(jobs) ==
  /\ job \in jobs
  /\ at = "parse" /\ plan = <<>> /\ k = 1 /\ snap = <<>> /\ vals = <<>>
  /\ groups = <<>> /\ loaded = <<>> /\ reqs = <<>> /\ why = "none" /\ used = {}
  /\ version = [f \in DOMAIN job.files |-> 1]
  /\ stdin = [once |-> "fresh", kept |-> Fail("unread")]
  /\ cancelled = FALSE

Go(stage) == at' = stage /\ UNCHANGED <<job, version, stdin, cancelled, why>>
Refuse(reason) ==
  /\ at' = "done" /\ why' = reason
  /\ UNCHANGED <<job, workVars, version, stdin, cancelled>>

ParseArguments ==
  /\ at = "parse"
  /\ \E parsed \in {Parse(job.args, job.stdinReader)} :
        \/ ~parsed.ok /\ Refuse(parsed.why)
        \/ /\ parsed.ok
           /\ plan' = parsed.val
           /\ Go("expand")
           /\ UNCHANGED <<k, snap, vals, groups, loaded, reqs, used>>

-----------------------------------------------------------------------------
(* The reader of a block *)

Snapshot(files, name) == {i \in DOMAIN files : files[i].name = name}

\* A read returns at once from a snapshot or a file; standard input first has to
\* be read to its end.
Ready(files, name) == Snapshot(files, name) # {} \/ name # Stdin \/ stdin.once = "settled"
reader(files, name) ==
  LET held == Snapshot(files, name)
  IN CASE held # {} -> Ok(files[Min(held)].text)
       [] name = Stdin -> stdin.kept
       [] name \notin DOMAIN job.files -> Fail("file")
       [] job.files[name][version[name]].missing -> Fail("file")
       [] OTHER -> Ok(job.files[name][version[name]].text)
Dependence(b, files, name) ==
  IF Snapshot(files, name) # {} \/ name = Stdin THEN {} ELSE { <<b, name, version[name]>> }

NextRef(b) ==
  LET open == SelectSeq(bodyFileRefs(b), LAMBDA r : Snapshot(snap, r) = {})
  IN IF open = <<>> THEN <<>> ELSE Head(open)
NextSource(b) ==
  IF Len(vals) < Len(b.vary) /\ b.vary[Len(vals) + 1].source.kind = "file"
  THEN b.vary[Len(vals) + 1].source.file ELSE <<>>
NextPiece(b) == IF Len(loaded) < Len(b.pieces) THEN RefOf(b.pieces[Len(loaded) + 1]) ELSE <<>>

\* newStdinSnapshot: the first read of standard input settles it for good, an
\* interrupt included.
WantsStdin ==
  \/ at = "snapshot" /\ NextRef(plan[k]) = Stdin
  \/ at = "source" /\ NextSource(plan[k]) = Stdin /\ Snapshot(snap, Stdin) = {}
  \/ /\ at = "build" /\ k <= Len(groups) /\ NextPiece(groups[k].block) = Stdin
     /\ Snapshot(groups[k].block.bodyFiles, Stdin) = {}
StdinFirstRead ==
  /\ WantsStdin /\ stdin.once = "fresh"
  /\ stdin' = IF cancelled THEN [once |-> "settled", kept |-> Fail("cancelled")]
              ELSE IF ~job.stdinOpen THEN [once |-> "settled", kept |-> Fail("stdin")]
              ELSE [stdin EXCEPT !.once = "reading"]
  /\ UNCHANGED <<job, at, workVars, version, cancelled, why>>
StdinEnds ==
  /\ stdin.once = "reading"
  /\ \E input \in {Ok(job.stdin), Fail("stdin")} :
       stdin' = [once |-> "settled", kept |-> IF cancelled THEN Fail("cancelled") ELSE input]
  /\ UNCHANGED <<job, at, workVars, version, cancelled, why>>

-----------------------------------------------------------------------------
(* Expansion *)

Group(b, url, source, row) ==
  [block |-> [b EXCEPT !.urls = <<url>>], url |-> url, source |-> source, row |-> row, labels |-> <<>>]

\* Expand's loop: a plain block gives a group per URL, a varied one a fan.
ExpandBlock ==
  /\ at = "expand" /\ k <= Len(plan)
  /\ LET b == plan[k]
     IN \/ /\ b.vary = <<>>
           /\ groups' = groups \o [i \in DOMAIN b.urls |-> Group(b, b.urls[i], k, <<>>)]
           /\ k' = k + 1
           /\ Go("expand")
           /\ UNCHANGED <<plan, snap, vals, loaded, reqs, used>>
        \/ /\ b.vary # <<>>
           /\ snap' = <<>> /\ vals' = <<>>
           /\ Go("snapshot")
           /\ UNCHANGED <<plan, k, groups, loaded, reqs, used>>

\* Fan, first phase: each distinct body path is read once.
SnapshotBody ==
  /\ at = "snapshot"
  /\ LET ref == NextRef(plan[k])
         read == reader(<<>>, ref)
     IN /\ ref # <<>> /\ Ready(<<>>, ref)
        /\ \/ ~read.ok /\ Refuse(read.why)
           \/ /\ read.ok
              /\ snap' = Append(snap, [name |-> ref, text |-> read.val])
              /\ used' = used \cup Dependence(k, <<>>, ref)
              /\ Go("snapshot")
              /\ UNCHANGED <<plan, k, vals, groups, loaded, reqs>>

\* Then every token has to occur, now that the bodies are known.
CheckTokens ==
  /\ at = "snapshot" /\ NextRef(plan[k]) = <<>>
  /\ LET b == plan[k]
         unused == \E i \in DOMAIN b.vary : ~mentions(b, snap, b.vary[i].token)
     IN \/ unused /\ Refuse("unused token")
        \/ ~unused /\ Go("source") /\ UNCHANGED workVars

\* Then the sources, a file through the same snapshots.
SourceFiles_Live == <<>>
SourceFiles == snap
ReadSource ==
  /\ at = "source" /\ Len(vals) < Len(plan[k].vary)
  /\ LET spec == plan[k].vary[Len(vals) + 1]
         file == NextSource(plan[k])
         read == IF file = <<>> THEN Ok(<<>>) ELSE reader(SourceFiles, file)
         got == IF read.ok THEN specValues(spec, read.val) ELSE read
     IN /\ file # <<>> => Ready(SourceFiles, file)
        /\ CASE ~got.ok -> Refuse(got.why)
             [] ~checkFanSize(Len(got.val)) -> Refuse("fan size")
             [] OTHER -> /\ vals' = Append(vals, got.val)
                         /\ used' = IF file = <<>> THEN used ELSE used \cup Dependence(k, SourceFiles, file)
                         /\ Go("source")
                         /\ UNCHANGED <<plan, k, snap, groups, loaded, reqs>>

\* Last the variants, after the product's size has been checked.
Variants(b, bodyFiles, perToken) ==
  LET tuples == Tuples(b.mode, perToken)
      held == [b EXCEPT !.bodyFiles = bodyFiles]
  IN [i \in DOMAIN tuples |->
        [block |-> substitute(held, [t \in DOMAIN tuples[i] |-> tuples[i][t].sub]),
         row |-> [t \in DOMAIN tuples[i] |-> tuples[i][t].display]]]
FanBlock ==
  /\ at = "source" /\ Len(vals) = Len(plan[k].vary)
  /\ LET b == plan[k]
         counts == [t \in DOMAIN vals |-> Len(vals[t])]
     IN \E fan \in {Variants(b, snap, vals)} :
        CASE b.mode = "clusterbomb" /\ ~checkFanProduct(counts) -> Refuse("fan size")
          [] \E i \in DOMAIN fan : ~checkVariantURL(fan[i].block.urls[1]) -> Refuse("empty url")
          [] OTHER -> /\ groups' = groups \o [i \in DOMAIN fan |->
                           Group(fan[i].block, fan[i].block.urls[1], k, fan[i].row)]
                      /\ k' = k + 1
                      /\ Go("expand")
                      /\ UNCHANGED <<plan, snap, vals, loaded, reqs, used>>

\* NameSpecs: one per URL, or one for a whole fan.
NameSpecs(b) ==
  LET own == SelectSeq(groups, LAMBDA g : g.source = b)
      spec(tokens, rows) == [name |-> plan[b].name, count |-> plan[b].repeat, tokens |-> tokens,
                             rows |-> rows, source |-> b]
      shown == [i \in DOMAIN plan[b].vary |-> displayValue(plan[b].vary[i].token)]
  IN IF plan[b].vary = <<>> THEN [i \in DOMAIN own |-> spec(<<>>, <<>>)]
     ELSE << spec(shown, [i \in DOMAIN own |-> own[i].row]) >>
Specs == FlattenSeq([b \in DOMAIN plan |-> NameSpecs(b)])

\* assignLabels: the labels divide by the groups' copies.
RepeatOf(g) == plan[g.source].repeat
Label ==
  /\ at = "expand" /\ k > Len(plan)
  /\ LET before(i) == FoldLeft(LAMBDA n, g : n + RepeatOf(g), 0, SubSeq(groups, 1, i - 1)) IN
     \E labels \in {ResolveNames(Specs)} :
        \/ ~labels.ok /\ Refuse(labels.why)
        \/ /\ labels.ok
           /\ groups' = [i \in DOMAIN groups |->
                [groups[i] EXCEPT !.labels =
                   SubSeq(labels.val, before(i) + 1, before(i) + RepeatOf(groups[i]))]]
           /\ Go("boundary")
           /\ UNCHANGED <<plan, k, snap, vals, loaded, reqs, used>>

NewMultipartBoundary ==
  /\ at = "boundary"
  /\ \/ job.faults /\ Refuse("boundary")
     \/ Go("build") /\ k' = 1 /\ UNCHANGED <<plan, snap, vals, groups, loaded, reqs, used>>

-----------------------------------------------------------------------------
(* Building requests *)

\* materialise, content and load: what one piece contributes.
stripDataFile(text) == SelectSeq(text, LAMBDA a : a \notin {"CR", "LF", "NUL"})
urlencodeContent(name, content) ==
  IF name = <<>> THEN formEncode(content) ELSE name \o <<"=">> \o formEncode(content)
urlencodeSpec(p, content) ==
  LET eq == At(p.spec, "=")
  IN CASE p.ref # <<>> -> urlencodeContent(p.name, content)
       [] Has(p.spec, "=") -> urlencodeContent(SubSeq(p.spec, 1, eq - 1), SubSeq(p.spec, eq + 1, Len(p.spec)))
       [] Has(p.spec, "@") -> urlencodeContent(SubSeq(p.spec, 1, At(p.spec, "@") - 1), content)
       [] OTHER -> urlencodeContent(<<>>, p.spec)
materialise(p, content) ==
  CASE p.family # "data" -> content
    [] p.kind = "urlencode" -> urlencodeSpec(p, content)
    [] p.kind = "ascii" /\ RefOf(p) # <<>> -> stripDataFile(content)
    [] OTHER -> content

\* Pieces are read in order, each through the variant's snapshots.
LoadPiece ==
  /\ at = "build" /\ k <= Len(groups) /\ Len(loaded) < Len(groups[k].block.pieces)
  /\ LET g == groups[k]
         p == g.block.pieces[Len(loaded) + 1]
         ref == RefOf(p)
         read == IF ref = <<>> THEN Ok(p.spec) ELSE reader(g.block.bodyFiles, ref)
     IN /\ ref # <<>> => Ready(g.block.bodyFiles, ref)
        /\ \/ ~read.ok /\ Refuse(read.why)
           \/ /\ read.ok
              /\ loaded' = Append(loaded, materialise(p, read.val))
              /\ used' = IF ref = <<>> THEN used
                         ELSE used \cup Dependence(g.source, g.block.bodyFiles, ref)
              /\ Go("build")
              /\ UNCHANGED <<plan, k, snap, vals, groups, reqs>>

\* dataBody, formBody, jsonBody.
Joined(parts, mark) ==
  FlattenSeq([i \in DOMAIN parts |-> (IF i = 1 THEN <<>> ELSE mark) \o parts[i]])
requestBody(b, parts) ==
  CASE Family(b) = "none" -> Ok(<<>>)
    [] Family(b) = "data" -> Ok(Joined(parts, <<"&">>))
    [] Family(b) = "json" -> MergeJSON(parts)
    [] Family(b) = "form" ->
         Ok(FlattenSeq([i \in DOMAIN parts |-> <<"boundary">> \o b.pieces[i].name \o parts[i]]))
BodyType(b) ==
  CASE Family(b) = "json" -> <<"application/json">>
    [] Family(b) = "form" -> <<"multipart/form-data">>
    [] OTHER -> <<"application/x-www-form-urlencoded">>

HTTPMethod(b) ==
  IF b.method # <<>> THEN b.method ELSE IF b.pieces # <<>> THEN <<"POST">> ELSE <<"GET">>

\* http.NewRequestWithContext refuses a URL or a method it cannot parse.
Parseable(text) == \A i \in DOMAIN text : text[i] \notin {" ", "LF", "CR", "NUL"}
UserInfo(url) ==
  IF Has(url, "@") THEN SubSeq(url, At(url, "://") + 1, At(url, "@") - 1) ELSE <<>>

\* newRequest, and the strip that the timing command leaves out.
newRequest(g, body) ==
  LET b == g.block
      built == requestHeaders(b, Family(b), BodyType(b), UserInfo(g.url))
  IN [source |-> g.source, url |-> g.url, method |-> HTTPMethod(b), body |-> body,
      protocol |-> b.protocol, warmup |-> b.warmup, labels |-> g.labels,
      headers |-> IF job.command = "time" THEN built ELSE stripHopByHopHeaders(built)]
\* validateTimeRequest: HTTP/2 needs TLS.  Whether the framing can carry the rest
\* of a time request is left open.
TimeRefused(g) ==
  job.command = "time" /\ g.block.protocol = "HTTP2" /\ SubSeq(g.url, 1, At(g.url, "://") - 1) # <<"https">>
BuildRequest ==
  /\ at = "build" /\ k <= Len(groups) /\ Len(loaded) = Len(groups[k].block.pieces)
  /\ LET g == groups[k]
         body == requestBody(g.block, loaded)
     IN CASE ~body.ok -> Refuse(body.why)
          [] ~Parseable(g.url) \/ ~Parseable(HTTPMethod(g.block)) -> Refuse("request")
          [] TimeRefused(g) -> Refuse("time request")
          [] OTHER -> \/ job.command = "time" /\ Refuse("framing")
                      \/ /\ reqs' = Append(reqs, newRequest(g, body.val))
                         /\ loaded' = <<>> /\ k' = k + 1
                         /\ Go("build")
                         /\ UNCHANGED <<plan, snap, vals, groups, used>>

\* The measured requests come first, and one is needed; a batch has one origin,
\* while time addresses each request's own.
Origin(url) ==
  LET scheme == At(url, "://")
      rest == SubSeq(url, scheme + 1, Len(url))
      authority == SubSeq(rest, 1, At(rest, "/") - 1)
  IN << SubSeq(url, 1, scheme - 1), SelectSeq(authority, LAMBDA a : a \notin ToSet(UserInfo(url) \o <<"@">>)) >>
RequestsReady ==
  /\ at = "build" /\ k > Len(groups)
  /\ LET measured == SelectSeq(reqs, LAMBDA r : ~r.warmup)
         origins == {Origin(reqs[i].url) : i \in DOMAIN reqs}
     IN CASE measured = <<>> -> Refuse("no measured request")
          [] job.command # "time" /\ Cardinality(origins) > 1 -> Refuse("origins")
          [] OTHER -> /\ reqs' = measured \o SelectSeq(reqs, LAMBDA r : r.warmup)
                      /\ Go("done") /\ UNCHANGED <<plan, k, snap, vals, groups, loaded, used>>

-----------------------------------------------------------------------------
(* The world *)

\* Someone rewrites, truncates or removes a file.
EditFile ==
  /\ at \notin {"parse", "done"}
  /\ \E f \in DOMAIN job.files :
       /\ version[f] < Len(job.files[f])
       /\ version' = [version EXCEPT ![f] = @ + 1]
  /\ UNCHANGED <<job, at, workVars, stdin, cancelled, why>>
InterruptRequest ==
  /\ job.faults /\ ~cancelled /\ at # "done"
  /\ cancelled' = TRUE
  /\ UNCHANGED <<job, at, workVars, version, stdin, why>>

Prepare ==
  \/ ParseArguments \/ ExpandBlock \/ SnapshotBody \/ CheckTokens \/ ReadSource \/ FanBlock
  \/ Label \/ NewMultipartBoundary \/ LoadPiece \/ BuildRequest \/ RequestsReady
BlocksNext == Prepare \/ StdinFirstRead \/ StdinEnds \/ EditFile \/ InterruptRequest

-----------------------------------------------------------------------------
(* Properties *)

\* Every request of one fan is an instance of the same bytes: whoever rewrites a
\* file during the expansion, a path the block names as a body, or as a body and
\* as a source of values, is taken in one version.
SnapshotShared ==
  \A b \in DOMAIN plan :
    plan[b].vary # <<>> =>
      \A name \in ToSet(bodyFileRefs(plan[b])) :
        Cardinality({u \in used : u[1] = b /\ u[2] = name}) <= 1

\* A fan is exactly the combinations asked for, and substitution is simultaneous:
\* declaring the bindings in another order gives the same requests.
FanExact ==
  (at = "source" /\ Len(vals) = Len(plan[k].vary)) =>
    LET b == plan[k]
        turned == [b EXCEPT !.vary = Reverse(@)]
        sizes == {Len(vals[t]) : t \in DOMAIN vals}
        blocks(fan) == {fan[i].block : i \in DOMAIN fan}
        fan == Variants(b, snap, vals)
    IN /\ blocks(fan) = blocks(Variants(turned, snap, Reverse(vals)))
       /\ Len(fan) = IF b.mode = "pitchfork" THEN Min(sizes)
                     ELSE FoldLeft(LAMBDA n, v : n * Len(v), 1, vals)
       /\ \A t \in DOMAIN vals : b.mode = "clusterbomb" =>
            {fan[i].row[t] : i \in DOMAIN fan} = {vals[t][i].display : i \in DOMAIN vals[t]}

\* A label identifies one request of the command, a group has one per copy, and
\* an automatic name is never the reason labels clash.
LabelsIdentify ==
  /\ at \in {"boundary", "build"} =>
       LET all == FlattenSeq([i \in DOMAIN groups |-> groups[i].labels])
       IN /\ IsInjective([i \in DOMAIN all |-> all[i].display])
          /\ \A i \in DOMAIN groups : Len(groups[i].labels) = RepeatOf(groups[i])
  /\ why = "labels" =>
       ~ResolveNames(SelectSeq(Specs, LAMBDA s : s.name # <<>> \/ s.tokens # <<>>)).ok

\* What the fold over the header flags leaves is what their order says: a typed
\* header stays unless a later --delete-header names it, and a derived one is
\* there when nothing typed claims its name, nothing suppresses it and the last
\* flag to touch it did not remove it.
HeadersAsTyped ==
  at = "expand" /\ k = 1 =>
    \A n \in DOMAIN plan :
      LET segments == splitSegments(job.args)
          pre == All(segments[1], HeaderFlags)
          blk == IF Len(segments) = 1 THEN <<>> ELSE All(segments[n + 1], HeaderFlags)
          occs == pre \o blk
          where(name) == Max({0} \cup {i \in DOMAIN occs : occs[i].flag = "delete-header" /\ occs[i].name = name})
          typed(i) == occs[i].flag = "header" /\ ~(occs[i].kind = "colon" /\ occs[i].text = <<>>)
          kept(i) == typed(i) /\ i > where(occs[i].name)
          order == SelectSeq([i \in DOMAIN occs |-> i], kept)
          claimed(name) == \E i \in DOMAIN order : occs[order[i]].name = name
          suppressed(name) == \E i \in DOMAIN occs :
                                occs[i].flag = "header" /\ ~typed(i) /\ occs[i].name = name
          agent == Max({0} \cup {i \in DOMAIN occs : occs[i].flag = "user-agent"})
          flags == {"user", "oauth2-bearer"}
          auths == (IF AuthOf(pre) = <<>> THEN {} ELSE {LastOf(pre, flags)})
                     \cup (IF AuthOf(blk) = <<>> THEN {} ELSE {Len(pre) + LastOf(blk, flags)})
          derived ==
            {name \in {Authorization, UserAgent, Accept} :
               /\ ~claimed(name) /\ ~suppressed(name)
               /\ CASE name = Accept -> where(name) = 0
                    [] name = UserAgent -> IF agent > where(name) THEN occs[agent].text # <<>>
                                           ELSE where(name) = 0 /\ DefaultUserAgent # <<>>
                    [] OTHER -> \E i \in auths : i > where(name)}
          got == plan[n].headers
      IN /\ SelectSeq(got, LAMBDA h : h.origin = "typed")
              = [i \in DOMAIN order |-> Header(occs[order[i]].name, occs[order[i]].text, "typed")]
         /\ Names(SelectSeq(got, LAMBDA h : h.origin # "typed")) = derived

\* The requests that leave the preparation are the ones the command line asks
\* for: the right combinations, each with its own label and its headers.
RequestsAsTyped == FanExact /\ LabelsIdentify /\ HeadersAsTyped
=============================================================================
