----------------------------- MODULE MCProgram ------------------------------
(* Invocations: utilities; demo servers with refused flags, timing routes at *)
(* their limits, a full quota store and a propagation model; request command *)
(* lines that are refused at each check, fan, clash or meet changing files.  *)
EXTENDS Program

-----------------------------------------------------------------------------
(* Demo servers *)


Timing(maximum, unlimited) == [maximum |-> maximum, unlimited |-> unlimited]
Flags(timing, quota, rtt, jitter) ==
  [parse |-> "ok", extra |-> FALSE, port |-> 0, timing |-> timing, quota |-> quota,
   rtt |-> rtt, jitter |-> jitter, streams |-> 2]
Scenario(flags, load, requests, faults) ==
  [flags |-> flags, load |-> load, requests |-> requests, faults |-> faults]
MCMaxRequests == [none |-> 0, timing |-> 2, quota |-> 4, relay |-> 2]

Value(route, value) == [route |-> route, form |-> "ok", count |-> 1, value |-> value]
TimingRequests ==
  {Value(r, v) : r \in {"sleep", "work"}, v \in {-1, 0, 2, 3, 4}}
    \cup {[Value("sleep", 1) EXCEPT !.count = 2], [Value("work", 1) EXCEPT !.form = "bad"],
          [route |-> "sha256", cut |-> TRUE], [route |-> "index"]}

OfQuota(route, t) == [route |-> route, token |-> t]
QuotaRequests == {[route |-> "create"]} \cup {OfQuota(r, t) : r \in {"status", "use"}, t \in Tokens}

Ordinary == Flags(Timing(0, FALSE), 0, 0, 0)
Refused == {[Ordinary EXCEPT !.parse = "bad"], [Ordinary EXCEPT !.parse = "help"],
            [Ordinary EXCEPT !.extra = TRUE], [Ordinary EXCEPT !.streams = 0],
            [Ordinary EXCEPT !.port = 9], Flags(Timing(0, FALSE), 0, 0, 9),
            Flags(Timing(0, FALSE), 0, 6, 11)}

MCScenarios ==
  {Scenario(f, "none", {}, FALSE) : f \in Refused}
    \cup {Scenario(Flags(t, 0, 0, 0), "timing", TimingRequests, FALSE) :
            t \in {Timing(0, FALSE), Timing(0, TRUE), Timing(3, FALSE)}}
    \cup {Scenario(Ordinary, "timing", {[route |-> "create"]}, TRUE),
          Scenario(Flags(Timing(3, FALSE), 9, 0, 0), "none", {}, FALSE),
          Scenario(Flags(Timing(0, FALSE), 2, 0, 0), "timing", QuotaRequests, FALSE),
          Scenario(Ordinary, "quota", QuotaRequests, FALSE),
          Scenario([Flags(Timing(0, FALSE), 0, 2, 2) EXCEPT !.streams = 1], "relay",
                   {[route |-> "now", seq |-> i] : i \in 1..2}, FALSE)}

-----------------------------------------------------------------------------
(* Command lines *)

Block == Opt("block")
Url(text) == [Opt("positional") EXCEPT !.text = text]
Text(flag, text) == [Opt(flag) EXCEPT !.text = text]
Kind(flag, kind) == [Opt(flag) EXCEPT !.kind = kind]
Named(name) == Text("name", name)
Data(kind, text) == [Opt("data") EXCEPT !.kind = kind, !.text = text]
HeaderOpt(kind, name, text) == [Opt("header") EXCEPT !.kind = kind, !.name = name, !.text = text]
Delete(name) == [Opt("delete-header") EXCEPT !.name = name]
Vary(token, encoders, source) ==
  [Opt("vary") EXCEPT !.name = token, !.encoders = encoders, !.source = source]
List(items) == [NoSource EXCEPT !.kind = "list", !.list = items]
FileSource(name) == [NoSource EXCEPT !.kind = "file", !.file = name]
End(hex, digits, letters) == [hex |-> hex, digits |-> digits, letters |-> letters, signed |-> FALSE]
RangeSource(lo, hi, step) == [NoSource EXCEPT !.kind = "range", !.lo = lo, !.hi = hi, !.step = step]

Content(text) == [missing |-> FALSE, text |-> text]
Gone == [missing |-> TRUE, text |-> <<>>]
File(name, versions) == name :> versions
NoFiles == File(<<"unused">>, << Content(<<>>) >>)
Job(command, args, files, stdinReader, stdinOpen, faults) ==
  [command |-> command, args |-> args, files |-> files, stdinReader |-> stdinReader,
   stdinOpen |-> stdinOpen, stdin |-> <<"v", "LF", "w">>, faults |-> faults]
Plain(args) == Job("race", args, NoFiles, FALSE, FALSE, FALSE)

F == <<"F">>
Host == <<"h", "/">>
Body == <<"body">>
BodyFile == File(Body, << Content(<<"a", "F", "LF">>), Content(<<"b", "F", "LF">>), Gone >>)
Lines(n) == FlattenSeq([i \in 1..n |-> << <<"p">>, <<"q">>, <<"r">>, <<"s">> >>[(i % 4) + 1] \o <<"LF">>])
Two == List(<< <<"p">>, <<"q">> >>)

\* Arguments that are refused at the successive checks of Parse.
RefusedArguments ==
  {<<>>, <<Opt("help")>>, <<Opt("unknown"), Opt("help")>>, <<Opt("version")>>,
   <<Url(Host), Opt("reset-body")>>, <<Block, Opt("version"), Url(Host)>>,
   <<Opt("http2"), Opt("http1.1"), Url(Host)>>, <<Block, Opt("http2")>>,
   <<Url(Host), [Opt("rate") EXCEPT !.text = <<"0">>, !.kind = "s"]>>,
   <<Url(Host), [Opt("rate") EXCEPT !.text = <<"2">>, !.kind = "x"]>>,
   <<Url(Host), Text("repeat", <<"x">>)>>, <<Url(Host), Text("repeat", <<"9", "9">>)>>,
   <<Url(Host), HeaderOpt("plain", <<"x">>, <<"1">>)>>,
   <<Url(Host), Opt("cookie")>>, <<Url(Host), Data("ascii", <<"@">>)>>,
   <<Url(Host), Text("json", <<"{", "a">>)>>,
   <<Data("raw", <<"a">>), Block, Url(Host), Text("json", <<"{", "}">>)>>,
   <<Url(Host), Text("json", <<"1">>), Text("json", <<"{", "}">>)>>,
   <<Url(Host), Opt("form")>>,
   <<Url(Host), Vary(<<>>, <<>>, Two)>>, <<Url(F), Vary(F, <<"rot">>, Two)>>,
   <<Url(F), Vary(F, <<>>, List(<<>>))>>, <<Url(F), Vary(F, <<>>, NoSource)>>,
   <<Url(F), Vary(F, <<>>, FileSource(<<>>))>>,
   <<Url(F), Vary(F, <<>>, RangeSource(End(FALSE, <<5>>, "none"), End(FALSE, <<2>>, "none"), 1))>>,
   <<Url(F), Vary(F, <<>>, RangeSource(End(FALSE, <<0>>, "none"), End(FALSE, <<9, 9>>, "none"), 1))>>,
   <<Url(F), Vary(F, <<>>, Two), Kind("vary-mode", "sniper")>>,
   <<Url(F), Url(F), Vary(F, <<>>, Two)>>, <<Url(Host), Vary(F, <<>>, Two)>>,
   <<Url(<<"F", "X">>), Vary(F, <<>>, Two), Vary(<<"F", "X">>, <<>>, Two)>>,
   <<Url(<<"F", "G", "K">>), Vary(F, <<>>, Two), Vary(<<"G">>, <<>>, Two), Vary(<<"K">>, <<>>, Two)>>,
   <<Url(Host), Text("request", <<>>)>>, <<Url(Host), Data("binary", <<"@", "-">>)>>,
   <<Named(<<"n">>), Url(Host), Block, Block>>, <<Url(<<"h", " ">>)>>}

\* Fans: overlapping values and tokens, both modes, encoders, ranges.
Tokens2 == <<"X", "F">>
Fans ==
  {<<Url(<<"F", "/", "X", "F">>), Vary(F, <<>>, List(<< <<"X">>, <<"F">>, <<>> >>)),
     Vary(Tokens2, <<"url">>, List(<< <<"F", " ">>, <<"y">> >>))>>
     \o mode : mode \in {<<>>, <<Kind("vary-mode", "pitchfork")>>}}
  \cup
  {<<Url(<<"h", "F">>), Data("urlencode", <<"F", "=", "F", " ">>), Vary(F, <<"hex", "b64">>, Two),
     Vary(F, <<>>, RangeSource(End(FALSE, <<0, 9>>, "none"), End(FALSE, <<1, 1>>, "none"), 1))>>,
   <<Url(<<"h", "F">>), Text("cookie", <<"F">>), Vary(F, <<>>, Two)>>,
   <<Url(<<"h", "F">>), Vary(F, <<"HEX">>, RangeSource(End(TRUE, <<9>>, "none"), End(TRUE, <<11>>, "upper"), 2))>>,
   <<Url(<<"http", "://", "F">>), Vary(F, <<>>, List(<< <<"a">>, <<>> >>))>>,
   <<Block, Url(<<"h", "F">>), Vary(F, <<>>, List(<< <<"HIGH">>, <<"$HEX[", "x", "HIGH", "]">> >>))>>}

\* Labels: automatic names among typed ones that look like them.
Labels ==
  {first \o second \o third :
     first \in {<<Block, Url(Host)>>, <<Block, Url(Host), Text("repeat", <<"2">>)>>},
     second \in {<<Block, Url(Host)>> \o <<Named(n)>> : n \in {<<"A">>, <<"A", "~", "1">>, <<"B">>}}
                  \cup {<<Block, Url(Host), Url(Host), Named(<<"A", "~", "1">>), Text("repeat", <<"2">>)>>},
     third \in {<<>>, <<Block, Url(Host), Url(Host), Named(<<"A">>)>>,
                <<Block, Url(Host), Text("repeat", <<"2">>), Url(Host)>>}}

\* Headers: what each flag can do to a name, in every order.
Header1 == {HeaderOpt("colon", Authorization, <<"t">>), HeaderOpt("colon", UserAgent, <<>>),
            HeaderOpt("semicolon", Accept, <<>>), Text("user-agent", <<"ua">>), Text("user-agent", <<>>),
            Text("user", <<"u">>), Text("oauth2-bearer", <<"b">>), Delete(Authorization), Delete(UserAgent)}
HeaderLines ==
  {pre \o <<Block, Url(Host)>> \o blk :
     pre \in {<<>>} \cup {<<a, b>> : a, b \in Header1}, blk \in UNION {[1..n -> Header1] : n \in 0..2}}
    \cup {<<Url(Host), a, b, c>> : a, b, c \in Header1 \ {Text("user-agent", <<"ua">>)}}
    \cup {<<Url(Host), a, Text("json", <<"{", "a", "1", "}">>), [Opt("cookie") EXCEPT !.name = <<"c">>]>> :
            a \in {HeaderOpt("colon", ContentType, <<"t">>), HeaderOpt("colon", <<"connection">>, <<"c">>),
                   HeaderOpt("colon", <<"host">>, <<"x">>), HeaderOpt("colon", Accept, <<>>)}}

\* Files that change while a fan reads them, and standard input.
FileLines ==
  {Job("race", <<Url(<<"h", "F">>), Data(kind, spec), Vary(F, <<>>, FileSource(Body))>>, BodyFile, FALSE, FALSE, FALSE) :
     kind \in {"binary", "ascii"}, spec \in {<<"@", "body">>, <<"F">>}}
  \cup
  {Job("time", <<Url(Host), Data("urlencode", <<"n", "@", "body">>), Data("raw", <<"@", "F">>),
                 Vary(F, <<>>, Two), Text("repeat", <<"2">>),
                 Block, Opt("warmup-only"), Url(<<"http", "://", "u", "@", "h">>), Opt("http1.1")>>,
       BodyFile, FALSE, FALSE, FALSE),
   Job("race", <<Url(Host), Data("ascii", <<"F">>), Vary(F, <<>>, List(<< <<"@", "body">>, <<"x">> >>))>>,
       BodyFile, FALSE, FALSE, FALSE),
   Job("time", <<Block, Opt("warmup-only"), Url(Host)>>, NoFiles, FALSE, FALSE, FALSE),
   Job("time", <<Url(<<"http", "://", "h", "/">>)>>, NoFiles, FALSE, FALSE, FALSE),
   Job("race", <<Url(F), Vary(F, <<>>, FileSource(Body))>>,
       File(Body, << Content(<<"LF", "LF">>), Content(Lines(7)), Content(Lines(4)) >>), FALSE, FALSE, FALSE),
   Job("race", <<Url(<<"F", "G">>), Vary(F, <<>>, FileSource(Body)), Vary(<<"G">>, <<>>, Two)>>,
       File(Body, << Content(Lines(4)), Content(Lines(3)) >>), FALSE, FALSE, FALSE),
   Job("race", <<Url(Host), Data("binary", <<"@", "body">>), Vary(<<"G">>, <<>>, Two)>>, BodyFile, FALSE, FALSE, FALSE),
   Job("race", <<Url(Host), Url(Host), Text("json", <<"@", "body">>), Text("json", <<"{", "k", "null", "}">>)>>,
       File(Body, << Content(<<"{", "k", "1", "j", "2", "}">>), Content(<<"1">>) >>), FALSE, FALSE, FALSE),
   Job("race", <<Url(Host), [Opt("form") EXCEPT !.name = F, !.kind = "file", !.text = Body],
                 [Opt("form") EXCEPT !.name = F, !.kind = "literal", !.text = F], Vary(F, <<>>, Two)>>,
       BodyFile, FALSE, FALSE, TRUE),
   Job("race", <<Url(F), Data("binary", <<"@", "-">>), Vary(F, <<>>, FileSource(Stdin)),
                 Block, Data("ascii", <<"@", "-">>), Opt("reset-body"), Vary(F, <<>>, Two), Url(<<"h", "F">>)>>,
       NoFiles, TRUE, TRUE, TRUE),
   Job("race", <<Url(Host), Data("binary", <<"@", "-">>)>>, NoFiles, TRUE, FALSE, TRUE)}

MCJobs == {Plain(args) : args \in RefusedArguments \cup Fans \cup Labels \cup HeaderLines} \cup FileLines
MCLetters == <<"A", "B">>
MCUserAgent == <<"tturl">>
MCScheme == <<"https">>

MCUtilities ==
  {[command |-> c, rest |-> "none"] : c \in {"", "--help", "--version", "version", "help", "unknown"}}
    \cup {[command |-> "help", rest |-> r] : r \in {"topic", "unknown"}}
    \cup {[command |-> "version", rest |-> "extra"]}
=============================================================================
