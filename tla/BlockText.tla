----------------------------- MODULE BlockText -----------------------------
(***************************************************************************)
(* The text algebra of request blocks (src/internal/curlblocks: vary.go,   *)
(* varysource.go, varyencode.go, naming.go, header.go, cookie.go,          *)
(* request.go): sources of values, encoders, simultaneous substitution,    *)
(* fans, the labels of concrete requests, and their headers.               *)
(*                                                                         *)
(* A text is a sequence of atoms.  An atom is a byte or a run of bytes     *)
(* that no rule looks into; the atoms the rules tell apart are the space,  *)
(* the line ends, one byte outside printable ASCII and the digits.  A      *)
(* failure is a record without a value.                                    *)
(***************************************************************************)
EXTENDS Integers, Sequences, FiniteSets, SequencesExt, FiniteSetsExt

CONSTANTS
  Letters,     \* the letters of automatic labels, in order (26 in the code)
  MaxInt,      \* the largest int of the platform
  MaxFanSize   \* WithMaxFanSize's ceiling; 0 for none

ASSUME TextAssumption ==
  /\ Len(Letters) > 0 /\ MaxInt \in Nat \ {0} /\ MaxFanSize \in Nat

Ok(v) == [ok |-> TRUE, val |-> v]
Fail(why) == [ok |-> FALSE, why |-> why]

\* The first failure of a sequence of results, or the sequence of their values.
Gather(results) ==
  LET bad == {i \in DOMAIN results : ~results[i].ok}
  IN IF bad # {} THEN results[Min(bad)] ELSE Ok([i \in DOMAIN results |-> results[i].val])

-----------------------------------------------------------------------------
(* Encoding and display *)

Numerals == <<"0", "1", "2", "3", "4", "5", "6", "7", "8", "9", "a", "b", "c", "d", "e", "f">>
UpperNumerals == [i \in 1..16 |-> IF i <= 10 THEN Numerals[i]
                                  ELSE <<"A", "B", "C", "D", "E", "F">>[i - 10]]
Reserved == {" ", "LF", "CR", "NUL", "HIGH", "&", "=", ":", "/"}

Each(text, Op(_)) == FlattenSeq([i \in DOMAIN text |-> Op(text[i])])

\* urlEncode and formEncode differ in the space.
percentEncode(text, space) ==
  Each(text, LAMBDA a : CASE a = " " -> space
                          [] a \in Reserved -> <<"%", a>>
                          [] OTHER -> <<a>>)
urlEncode(text) == percentEncode(text, <<"%", " ">>)
formEncode(text) == percentEncode(text, <<"+">>)

HexText(text, mark) == Each(text, LAMBDA a : <<mark, a>>)
Base64(text, scheme) == <<scheme>> \o text \o <<"end">>
Encode(text, encoder) ==
  CASE encoder = "hex" -> HexText(text, "x")
    [] encoder = "HEX" -> HexText(text, "X")
    [] encoder \in {"b64", "b64url"} -> Base64(text, encoder)
    [] encoder = "url" -> urlEncode(text)
applyEncoders(encoders, raw) == FoldLeft(Encode, raw, encoders)
parseEncoders(names) ==
  IF ToSet(names) \subseteq {"hex", "HEX", "b64", "b64url", "url"} THEN Ok(names) ELSE Fail("encoder")

needsHexDisplay(raw) ==
  /\ raw # <<>>
  /\ \/ Head(raw) = " " \/ Last(raw) = " "
     \/ \E i \in DOMAIN raw : raw[i] \in {"LF", "CR", "NUL", "HIGH"}
displayValue(raw) ==
  IF needsHexDisplay(raw) THEN <<"$HEX[">> \o HexText(raw, "x") \o <<"]">> ELSE raw

-----------------------------------------------------------------------------
(* Sources of values *)

\* An endpoint is its base, its digits and the case of its letters.
ValueOf(digits, base) == FoldLeft(LAMBDA n, d : (n * base) + d, 0, digits)
hasLeadingZero(digits) == Len(digits) > 1 /\ digits[1] = 0

\* parseNumericRange: a range is a first value, a stride and a count.
parseNumericRange(lo, hi, step) ==
  LET base == IF lo.hex THEN 16 ELSE 10
      first == ValueOf(lo.digits, base)
      last == ValueOf(hi.digits, base)
      count == ((last - first) \div step) + 1
      cases == {lo.letters, hi.letters} \ {"none"}
  IN CASE lo.hex # hi.hex \/ lo.signed \/ hi.signed \/ first > last -> Fail("range")
       [] lo.hex /\ Cardinality(cases) = 2 -> Fail("range")
       [] count > MaxInt -> Fail("range")
       [] OTHER -> Ok([first |-> first, step |-> step, count |-> count, base |-> base,
                       upper |-> "upper" \in cases,
                       width |-> IF hasLeadingZero(lo.digits) \/ hasLeadingZero(hi.digits)
                                 THEN Max({Len(lo.digits), Len(hi.digits)}) ELSE 0])

\* format: the natural width or the padded one, whichever is wider.
Width(n, base) == Min({w \in 1..5 : n < base ^ w})
format(range, n) ==
  LET natural == Width(n, range.base)
      width == Max({natural, range.width})
      numerals == IF range.upper THEN UpperNumerals ELSE Numerals
  IN [i \in 1..width |-> numerals[((n \div (range.base ^ (width - i))) % range.base) + 1]]

rangeValues(range) ==
  [i \in 1..range.count |-> format(range, range.first + ((i - 1) * range.step))]

\* splitLines: one value per line, a trailing CR dropped, empty lines skipped.
splitLines(text) ==
  LET closed == Append(text, "LF")
      ends == SelectSeq([i \in DOMAIN closed |-> i], LAMBDA i : closed[i] = "LF")
      line(n) == SubSeq(closed, IF n = 1 THEN 1 ELSE ends[n - 1] + 1, ends[n] - 1)
      trimmed(l) == IF l # <<>> /\ Last(l) = "CR" THEN Front(l) ELSE l
  IN SelectSeq([n \in DOMAIN ends |-> trimmed(line(n))], LAMBDA l : l # <<>>)

\* parseVarySource, parseRange: what SOURCE names, checked without reading.
parseVarySource(src) ==
  CASE src.kind = "file" -> IF src.file = <<>> THEN Fail("filename") ELSE Ok(src)
    [] src.kind = "list" -> IF src.list = <<>> THEN Fail("source") ELSE Ok(src)
    [] src.kind = "range" ->
         IF src.step < 1 THEN Fail("range")
         ELSE LET range == parseNumericRange(src.lo, src.hi, src.step)
              IN IF range.ok THEN Ok([kind |-> "range", range |-> range.val]) ELSE range
    [] OTHER -> Fail("source")

staticSize(src) ==
  CASE src.kind = "list" -> Len(src.list)
    [] src.kind = "range" -> src.range.count
    [] OTHER -> -1

\* VarySpec.values, given the content of a file source.
RawValues(src, content) ==
  CASE src.kind = "file" -> splitLines(content)
    [] src.kind = "list" -> src.list
    [] OTHER -> rangeValues(src.range)
specValues(spec, content) ==
  LET raws == RawValues(spec.source, content)
  IN IF raws = <<>> THEN Fail("no values")
     ELSE Ok([i \in DOMAIN raws |-> [sub |-> applyEncoders(spec.encoders, raws[i]),
                                     display |-> displayValue(raws[i])]])

\* parseVarySpec: NAME[:enc...]=SOURCE.
parseVarySpec(v) ==
  LET encoders == parseEncoders(v.encoders)
      source == parseVarySource(v.source)
  IN CASE v.token = <<>> \/ " " \in ToSet(v.token) -> Fail("token")
       [] ~encoders.ok -> encoders
       [] ~source.ok -> source
       [] OTHER -> Ok([token |-> v.token, encoders |-> v.encoders, source |-> source.val])

-----------------------------------------------------------------------------
(* Substitution *)

MatchesAt(text, i, key) ==
  i + Len(key) - 1 <= Len(text) /\ SubSeq(text, i, i + Len(key) - 1) = key
Occurs(text, key) == \E i \in DOMAIN text : MatchesAt(text, i, key)

\* strings.Replacer: one pass, the first key that matches at a position wins and
\* what it put in is not looked at again.
Replace(text, keys, values) ==
  LET matching(i) == {k \in DOMAIN keys : MatchesAt(text, i, keys[k])}
      from[i \in 1..(Len(text) + 1)] ==
        IF i > Len(text) THEN <<>>
        ELSE IF matching(i) = {} THEN <<text[i]>> \o from[i + 1]
        ELSE LET k == Min(matching(i)) IN values[k] \o from[i + Len(keys[k])]
  IN from[1]

overlappingToken_Equal(tokens) ==
  \E i, j \in DOMAIN tokens : i # j /\ tokens[i] = tokens[j]
overlappingToken(tokens) ==
  \E i, j \in DOMAIN tokens : i # j /\ IsPrefix(tokens[i], tokens[j])

-----------------------------------------------------------------------------
(* Fans *)

checkFanSize(n) == MaxFanSize > 0 => n <= MaxFanSize

\* fanProduct compares by division; 0 stands for a product that does not fit.
fanProduct(counts, max) ==
  FoldLeft(LAMBDA total, n : IF total = 0 \/ n < 1 \/ total > max \div n THEN 0 ELSE total * n,
           1, counts)
checkFanProduct(counts) == MaxFanSize <= 0 \/ fanProduct(counts, MaxFanSize) > 0

\* cartesianValues: odometer order, the last binding fastest.
cartesianValues(perToken) ==
  FoldLeft(LAMBDA tuples, vals :
             FlattenSeq([t \in DOMAIN tuples |-> [v \in DOMAIN vals |-> Append(tuples[t], vals[v])]]),
           << <<>> >>, perToken)

\* zipValues: in step, to the shortest.
zipValues(perToken) ==
  [k \in 1..Min({Len(perToken[t]) : t \in DOMAIN perToken}) |->
     [t \in DOMAIN perToken |-> perToken[t][k]]]

Tuples(mode, perToken) ==
  IF mode = "pitchfork" THEN zipValues(perToken) ELSE cartesianValues(perToken)

-----------------------------------------------------------------------------
(* Labels *)

\* A run names the copies of one request; an unnamed one gets its base later.
joinPairs(tokens, row) ==
  FlattenSeq([i \in DOMAIN tokens |->
     (IF i = 1 THEN <<>> ELSE <<",">>) \o tokens[i] \o <<"=">> \o row[i]])

expandRuns(spec) ==
  LET name == displayValue(spec.name)
      shown == [i \in DOMAIN spec.tokens |-> displayValue(spec.tokens[i])]
      prefix == IF name = <<>> THEN <<>> ELSE name \o <<":">>
      pins == ToSet(shown) \cup (IF name = <<>> THEN {} ELSE {name})
  IN IF spec.tokens = <<>>
     THEN << [base |-> name, auto |-> name = <<>>, count |-> spec.count, source |-> spec.source,
              pins |-> pins, origin |-> <<spec.name>>] >>
     ELSE [k \in DOMAIN spec.rows |->
             [base |-> prefix \o joinPairs(shown, [i \in DOMAIN shown |-> displayValue(spec.rows[k][i])]),
              auto |-> FALSE, count |-> spec.count, source |-> spec.source,
              pins |-> pins, origin |-> <<spec.name>> \o spec.tokens \o spec.rows[k]]]

checkNameOwners(specs) ==
  \A i, j \in DOMAIN specs :
    (specs[i].name # <<>> /\ displayValue(specs[i].name) = displayValue(specs[j].name))
      => specs[i].source = specs[j].source

checkBaseOwners(runs) ==
  \A i, j \in DOMAIN runs :
    (~runs[i].auto /\ ~runs[j].auto /\ runs[i].base = runs[j].base)
      => runs[i].source = runs[j].source /\ runs[i].origin = runs[j].origin

multiplicityLabel(base, ordinal, total) ==
  IF total <= 1 THEN base
  ELSE base \o <<"~">> \o format([base |-> 10, upper |-> FALSE, width |-> Width(total, 10)], ordinal)

autoLabel(i) ==
  LET name[n \in 0..i] ==
        IF n < Len(Letters) THEN <<Letters[n + 1]>>
        ELSE name[(n \div Len(Letters)) - 1] \o <<Letters[(n % Len(Letters)) + 1]>>
  IN name[i]

\* The labels a run of this base will use, the base itself included.
Copies(base, count) == {base} \cup {multiplicityLabel(base, n, count) : n \in 1..count}
autoBaseAvailable(base, count, reserved) == Copies(base, count) \cap reserved = {}

\* First the automatic bases, each the first available, then the ordinals.
NameAutomatic(runs) ==
  LET start == [runs |-> <<>>, reserved |-> {runs[i].base : i \in {j \in DOMAIN runs : ~runs[j].auto}}]
      take(acc, r) ==
        LET i == Min({n \in 0..(Len(runs) + Cardinality(acc.reserved)) :
                        autoBaseAvailable(autoLabel(n), r.count, acc.reserved)})
            base == IF r.auto THEN autoLabel(i) ELSE r.base
        IN [runs |-> Append(acc.runs, [r EXCEPT !.base = base]),
            reserved |-> IF r.auto THEN acc.reserved \cup Copies(base, r.count) ELSE acc.reserved]
  IN FoldLeft(take, start, runs).runs

CopyLabels(copies) ==
  LET total(base) == Cardinality({c \in DOMAIN copies : copies[c].base = base})
      ordinal(c) == Cardinality({d \in 1..c : copies[d].base = copies[c].base})
  IN [c \in DOMAIN copies |->
        [display |-> multiplicityLabel(copies[c].base, ordinal(c), total(copies[c].base)),
         base |-> copies[c].base, pins |-> copies[c].pins]]
DistinctLabels(labels) ==
  IF \E c, d \in DOMAIN labels : labels[c].display = labels[d].display /\ labels[c].base # labels[d].base
  THEN Fail("labels") ELSE Ok(labels)
resolveRuns(runs) ==
  DistinctLabels(CopyLabels(
    FlattenSeq([i \in DOMAIN runs |-> [n \in 1..runs[i].count |-> runs[i]]])))

NamedRuns(specs, runs) ==
  IF ~checkNameOwners(specs) \/ ~checkBaseOwners(runs) THEN Fail("names")
  ELSE resolveRuns(NameAutomatic(runs))
ResolveNames(specs) ==
  NamedRuns(specs, FlattenSeq([i \in DOMAIN specs |-> expandRuns(specs[i])]))
-----------------------------------------------------------------------------
(* Headers (header.go, cookie.go, request.go): the fold that replays -H,   *)
(* -A, -u, --oauth2-bearer and --delete-header in command-line order, and  *)
(* the defaults a request adds to it.  A name is a text that is already    *)
(* case-folded; a header keeps where it came from, and a derived value the *)
(* text it was derived from.                                               *)

CONSTANT DefaultUserAgent   \* the parser's User-Agent; empty for none

Accept == <<"accept">>
UserAgent == <<"user-agent">>
Authorization == <<"authorization">>
ContentType == <<"content-type">>
CookieName == <<"cookie">>

Header(name, value, origin) == [name |-> name, value |-> value, origin |-> origin]
Names(headers) == {headers[i].name : i \in DOMAIN headers}

\* parseHeaderSpec: "Name: value", "Name;" and "Name:".
parseHeaderSpec(spec) ==
  CASE spec.name = <<>> \/ spec.kind \notin {"colon", "semicolon"} -> Fail("header")
    [] OTHER -> Ok([header |-> Header(spec.name, spec.text, "typed"),
                    suppress |-> spec.kind = "colon" /\ spec.text = <<>>])

-----------------------------------------------------------------------------
(* The fold *)

newHeaderFold ==
  [explicit |-> <<>>, defaults |-> <<>>, hSuppress |-> {}, deleteRemoved |-> {}, touched |-> <<>>]

Touch(names, name) == IF name \in ToSet(names) THEN names ELSE Append(names, name)
Without(headers, name) == SelectSeq(headers, LAMBDA h : h.name # name)

add(f, h) ==
  [f EXCEPT !.explicit = Append(@, h), !.deleteRemoved = @ \ {h.name}]
suppressDefault(f, name) ==
  [f EXCEPT !.hSuppress = @ \cup {name}, !.touched = Touch(@, name)]
\* The pending defaults, at most one per name.
setDefault(f, h) ==
  [f EXCEPT !.defaults = Append(Without(@, h.name), h), !.deleteRemoved = @ \ {h.name}]
clearDefault(f, name) ==
  [f EXCEPT !.defaults = Without(@, name), !.deleteRemoved = @ \cup {name}, !.touched = Touch(@, name)]
remove(f, name) ==
  clearDefault([f EXCEPT !.explicit = Without(@, name)], name)

\* authHeader: a bearer token wins over -u; an empty -u still authenticates.
authHeader(user, userSet, bearer) ==
  CASE bearer # <<>> -> << Header(Authorization, bearer, "bearer") >>
    [] userSet -> << Header(Authorization, IF ":" \in ToSet(user) THEN user ELSE Append(user, ":"), "basic") >>
    [] OTHER -> <<>>

\* applySegment: authorization is settled per segment and takes effect at its
\* last flag.
LastOf(occs, flags) == Max({0} \cup {i \in DOMAIN occs : occs[i].flag \in flags})
AuthOf(occs) ==
  LET user == LastOf(occs, {"user"})
      bearer == LastOf(occs, {"oauth2-bearer"})
  IN authHeader(IF user = 0 THEN <<>> ELSE occs[user].text, user > 0,
                IF bearer = 0 THEN <<>> ELSE occs[bearer].text)

applyOcc(f, occs, i) ==
  LET o == occs[i]
  IN CASE o.flag = "header" ->
            LET spec == parseHeaderSpec(o).val
            IN IF spec.suppress THEN suppressDefault(f, spec.header.name) ELSE add(f, spec.header)
       [] o.flag = "user-agent" ->
            IF o.text = <<>> THEN clearDefault(f, UserAgent)
            ELSE setDefault(f, Header(UserAgent, o.text, "valueTyped"))
       [] o.flag = "delete-header" -> remove(f, o.name)
       [] OTHER -> IF i = LastOf(occs, {"user", "oauth2-bearer"}) /\ AuthOf(occs) # <<>>
                   THEN setDefault(f, AuthOf(occs)[1]) ELSE f

applySegment(f, occs) ==
  FoldLeft(LAMBDA acc, i : applyOcc(acc, occs, i), f, [i \in DOMAIN occs |-> i])

\* foldResult: the -H headers, then the defaults none of them claims.
foldResult(f) ==
  LET live == SelectSeq(<<Authorization, UserAgent, Accept>>,
                        LAMBDA n : n \in Names(f.defaults) /\ n \notin f.hSuppress
                                     /\ n \notin Names(f.explicit))
      pending(n) == f.defaults[CHOOSE i \in DOMAIN f.defaults : f.defaults[i].name = n]
  IN [headers |-> f.explicit \o [i \in DOMAIN live |-> pending(live[i])],
      suppressed |-> SelectSeq(f.touched, LAMBDA n : n \in f.hSuppress \cup f.deleteRemoved)]

resolveHeaderSet(pre, blk) ==
  LET baked == setDefault(newHeaderFold, Header(Accept, <<"*/*">>, "baked"))
      seeded == IF DefaultUserAgent = <<>> THEN baked
                ELSE setDefault(baked, Header(UserAgent, DefaultUserAgent, "baked"))
      specs(occs) == [i \in DOMAIN occs |-> IF occs[i].flag = "header" THEN parseHeaderSpec(occs[i])
                                            ELSE Ok(occs[i])]
      checked == Gather(specs(pre) \o specs(blk))
  IN IF ~checked.ok THEN checked
     ELSE Ok(foldResult(applySegment(applySegment(seeded, pre), blk)))

\* mapTyped: only what the user typed varies.  Base64 credentials are decoded,
\* mapped and encoded again, which the model keeps as the credentials.
mapTyped(h, keys, values) ==
  CASE h.origin = "typed" ->
         [h EXCEPT !.name = Replace(@, keys, values), !.value = Replace(@, keys, values)]
    [] h.origin \in {"valueTyped", "basic", "bearer"} ->
         [h EXCEPT !.value = Replace(@, keys, values)]
    [] OTHER -> h

-----------------------------------------------------------------------------
(* A request's headers *)

SuppressesHeader(b, name) == name \in ToSet(b.suppressed)
setsHeader(b, name) == \E i \in DOMAIN b.headers : b.headers[i].origin # "baked" /\ b.headers[i].name = name

\* defaultHeaders: candidates the command line neither set nor suppressed.
defaultHeaders(b, candidates) ==
  SelectSeq(candidates, LAMBDA h : h.value # <<>> /\ ~setsHeader(b, h.name) /\ ~SuppressesHeader(b, h.name))

\* resolveCookies: a pair needs a name and an equals sign.
resolveCookies(pairs) ==
  IF \E i \in DOMAIN pairs : pairs[i].name = <<>> THEN Fail("cookie") ELSE Ok(pairs)
CookieHeader(b) ==
  FlattenSeq([i \in DOMAIN b.cookies |->
     (IF i = 1 THEN <<>> ELSE <<";">>) \o b.cookies[i].name \o <<"=">> \o b.cookies[i].value])

BodyDefaults(kind, type) ==
  << Header(ContentType, type, "body") >>
    \o (IF kind = "json" THEN << Header(Accept, <<"application/json">>, "body") >> ELSE <<>>)

HopByHop == {<<"connection">>, <<"keep-alive">>, <<"proxy-connection">>,
             <<"transfer-encoding">>, <<"upgrade">>}

\* newRequest's header phase: the block's own (Host becomes the authority), a Cookie, the body's defaults in
\* place of baked ones, and Basic authentication from the URL.
requestHeaders(b, kind, type, userinfo) ==
  LET own == SelectSeq(b.headers, LAMBDA h : h.name # <<"host">>)
      cookie == defaultHeaders(b, << Header(CookieName, CookieHeader(b), "cookie") >>)
      body == IF kind = "none" THEN <<>> ELSE defaultHeaders(b, BodyDefaults(kind, type))
      kept == SelectSeq(own \o cookie, LAMBDA h : h.name \notin Names(body)) \o body
      given == SelectSeq(kept, LAMBDA h : h.name = Authorization)
  IN IF /\ userinfo # <<>>
        /\ given = <<>> \/ Head(given).value = <<>>
        /\ ~SuppressesHeader(b, Authorization)
     THEN Append(Without(kept, Authorization), Header(Authorization, userinfo, "url"))
     ELSE kept

stripHopByHopHeaders(headers) == SelectSeq(headers, LAMBDA h : h.name \notin HopByHop)
=============================================================================
