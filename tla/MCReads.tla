------------------------------- MODULE MCReads -------------------------------
(***************************************************************************)
(* Small instances of what reads from or writes to others (Google's         *)
(* services, IndexNow and extensions, the rules over a crawl, a browser)    *)
(* and of the documents that carry evidence (the package of a release, the  *)
(* outputs of agents).                                                      *)
(***************************************************************************)
EXTENDS GoogleData, ProviderCalls, SiteRules, PageCapture, PublicationEvidence, AgentOutput, TLC

-----------------------------------------------------------------------------
\* GoogleData: questions whose answers end at, before and after a page or a window.

Provider ==
    [details |-> 0, totals |-> TRUE, incomplete |-> FALSE, loss |-> FALSE, found |-> TRUE,
     lab |-> "scored", record |-> "good", asked |-> {"lcp", "inp"}, metrics |-> {"lcp", "inp"},
     periods |-> 2, series |-> ("lcp" :> <<1, 2>>) @@ ("part" :> <<1, NoValue>>)]
PlainQuestion ==
    [adapter |-> "query", proper |-> TRUE, keyed |-> "given", paged |-> TRUE, rowLimit |-> 2,
     maxPages |-> 2, offset |-> 0, field |-> "asked", holds |-> Provider]
OfAdapter(adapter) == [PlainQuestion EXCEPT !.adapter = adapter]

Tables ==
    {[PlainQuestion EXCEPT !.paged = p, !.rowLimit = l, !.maxPages = m, !.holds.details = d,
                           !.holds.totals = t, !.holds.incomplete = i] :
        p \in BOOLEAN, l \in 1..2, m \in 1..3, d \in 0..5, t \in BOOLEAN, i \in BOOLEAN}
Reports ==
    {[OfAdapter("report") EXCEPT !.rowLimit = l, !.offset = o, !.holds.details = d, !.holds.loss = b] :
        l \in 1..3, o \in 0..3, d \in 0..4, b \in BOOLEAN}
Pages ==
    {[OfAdapter("pagespeed") EXCEPT !.field = f, !.holds.lab = l, !.holds.record = r] :
        f \in {"asked", "skipped"}, l \in {"scored", "failed", "absent"}, r \in {"good", "bad"}}
Histories ==
    {[OfAdapter("history") EXCEPT !.holds.periods = n, !.holds.series = ("lcp" :> a) @@ ("part" :> b)] :
        n \in {0, 2}, a \in {<<>>, <<1, 2>>}, b \in {<<>>, <<NoValue, NoValue>>, <<1, NoValue>>}}
    \cup {[OfAdapter("history") EXCEPT !.holds.periods = 41]}
Records ==
    {[OfAdapter("crux") EXCEPT !.holds.metrics = m] : m \in SUBSET {"lcp", "inp"}}
    \cup {[OfAdapter(a) EXCEPT !.holds.found = b] : a \in {"inspect", "sitemaps"}, b \in BOOLEAN}
RefusedQuestions ==
    {[OfAdapter(a) EXCEPT !.proper = p, !.keyed = k] :
        a \in {"query", "crux"}, p \in BOOLEAN, k \in {"none", "given", "refresh"}}

AllQuestions == Tables \cup Reports \cup Pages \cup Histories \cup Records \cup RefusedQuestions
MCQuestions == AllQuestions

-----------------------------------------------------------------------------
\* ProviderCalls: submissions, providers and costs one change away from ones that hold.

Submitted(host, dir, clean) == [host |-> host, dir |-> dir, clean |-> clean]
AnExtension ==
    [id |-> "image-gen", tier |-> "metered", live |-> "CONFIGURABLE", keys |-> {"K"}, set |-> {"K"},
     connected |-> FALSE, allowed |-> {"read"}, forbidden |-> {"write"}, plain |-> TRUE,
     secure |-> TRUE, fetches |-> FALSE]
AReceipt ==
    [provider |-> "entity-analysis", rows |-> <<[id |-> 1, salience |-> 50], [id |-> 2, salience |-> 0]>>,
     approval |-> [state |-> "APPROVED", estimated |-> 2, ceiling |-> 2]]
PlainCommand ==
    [kind |-> "submit", readable |-> TRUE, urls |-> {Submitted("a", "/x", TRUE)}, keyFile |-> {},
     approvedHost |-> TRUE, key |-> "good", execute |-> TRUE, confirmed |-> TRUE, retries |-> 0,
     extension |-> AnExtension, units |-> 2, unitCost |-> 1, ceiling |-> 2, approve |-> TRUE,
     proper |-> TRUE, receipt |-> AReceipt, registry |-> "image-gen" :> AnExtension]
CallOf(kind) == [PlainCommand EXCEPT !.kind = kind]

SomeUrls == {Submitted("a", "/x", TRUE), Submitted("a", "/y", TRUE), Submitted("b", "/x", TRUE), Submitted("a", "/x", FALSE)}
KeyFiles == {{}} \cup {{Submitted(h, d, TRUE)} : h \in {"a", "b"}, d \in {"/", "/x"}}
Submissions ==
    {[CallOf(k) EXCEPT !.urls = u, !.keyFile = f] :
        k \in {"submit", "validate"}, u \in SUBSET SomeUrls, f \in KeyFiles}
    \cup {[PlainCommand EXCEPT !.key = k, !.execute = e, !.confirmed = c, !.retries = r, !.approvedHost = h] :
        k \in {"none", "bad", "good"}, e, c, h \in BOOLEAN, r \in {-1, 0, 1, 2, 3}}
    \cup {[CallOf("validate") EXCEPT !.readable = FALSE]}
SomeExtensions ==
    {[AnExtension EXCEPT !.tier = t, !.live = l, !.keys = k, !.set = s, !.connected = c] :
        t \in {"free", "metered"}, l \in {"CONFIGURABLE", "BLOCKED_BY_CONTRACT", "HOST_CLIENT_ONLY"},
        k \in {{}, {"K"}, {"K", "L"}}, s \in {{}, {"K"}}, c \in BOOLEAN}
Costs ==
    {[CallOf(k) EXCEPT !.extension.tier = t, !.units = u, !.unitCost = n, !.ceiling = m, !.approve = a] :
        k \in {"estimate", "plan"}, t \in {"free", "metered"}, u \in 0..3,
        n, m \in {NoNumber, -1, 0, 1, 2}, a \in BOOLEAN}
Receipts ==
    {[CallOf("entities") EXCEPT !.receipt.approval.state = s, !.receipt.approval.estimated = n,
                                !.receipt.approval.ceiling = m] :
        s \in {"APPROVED", "BLOCKED"}, n, m \in {NoNumber, -1, 0, 1, 2}}
    \cup {[CallOf("entities") EXCEPT !.receipt.rows[2].id = 1], [CallOf("entities") EXCEPT !.receipt.rows[2].salience = 101]}
Registries ==
    {[CallOf("registry") EXCEPT !.registry = "image-gen" :> e] :
        e \in {[AnExtension EXCEPT !.allowed = a, !.forbidden = f, !.fetches = b, !.secure = s] :
                  a \in {{"read"}, {"read", "send"}}, f \in {{}, {"write"}, {"crawl_private_hosts"}}, b, s \in BOOLEAN}
             \cup {[AnExtension EXCEPT !.id = "other"]}}
AllCommands ==
    Submissions \cup Costs \cup Receipts \cup Registries
    \cup {[CallOf(k) EXCEPT !.extension = e, !.proper = p] :
             k \in {"preflight", "config", "plan", "entities"}, e \in SomeExtensions, p \in BOOLEAN}
MCCallCommands == AllCommands

-----------------------------------------------------------------------------
\* SiteRules: small robots files and small graphs of canonical annotations.

AllTokens == [bot |-> 3, googlebot |-> 9, bingbot |-> 7]

UpTo(set, n) == UNION {[1..k -> set] : k \in 0..n}
ShortPaths == [pattern : UpTo({"a", "b", "*"}, 3), anchored : BOOLEAN]
LongPath(p) == [pattern |-> p, anchored |-> FALSE]
AllTargets == UpTo({"a", "b"}, 3) \ {<<>>}

AgentLine(name) == [kind |-> "agent", name |-> name]
RuleLine(allow, path) == [kind |-> "rule", allow |-> allow, path |-> path]
Lines ==
    {AgentLine("*"), AgentLine("bot"), AgentLine("googlebot"), AgentLine("bingbot"), [kind |-> "other"],
     RuleLine(FALSE, LongPath(<<"a">>)), RuleLine(TRUE, LongPath(<<"*", "b">>)),
     RuleLine(FALSE, LongPath(<<"a", "b">>))}

SomePages == [target : {<<"a">>, <<"a", "b">>, <<"b", "a">>}, noindex : {TRUE}]
               \cup {[target |-> <<"a", "a">>, noindex |-> FALSE]}
RobotsEvidence(answer, lines, asked) ==
    [rule |-> "robots", reply |-> answer, text |-> lines, pages |-> asked]
CanonicalEvidence(canonical) == [rule |-> "canonical", canonical |-> canonical]

\* Consent configurations: every order of default and update, every way the rows of a
\* country and of its subdivision speak about two signals, every rest of the topology.
ConsentCountries == {<<"DE">>}
AllDenied == [s \in SIGNALS |-> "denied"]
GoodConfig ==
    [live |-> FALSE, authorized |-> FALSE, region |-> <<"DE">>, mode |-> "basic", cmp |-> TRUE,
     defaults |-> AllDenied, overrides |-> <<>>, defaultSet |-> TRUE, beforeTags |-> TRUE,
     choice |-> "unrecorded", update |-> TRUE, afterDefault |-> TRUE, async |-> FALSE, wait |-> "none",
     duplicates |-> FALSE, spa |-> "absent", server |-> "absent", cross |-> "absent", differs |-> FALSE]
Entry(row) == [dict |-> TRUE, row |-> row]
Rows == {<<>>} \cup [{"ad_storage"} -> {"granted", "denied", "bad"}]
WithoutUserData == [s \in SIGNALS \ {"ad_user_data"} |-> "denied"]
Ordered ==
    {[GoodConfig EXCEPT !.defaultSet = d, !.beforeTags = b, !.choice = c, !.update = u,
                        !.afterDefault = a, !.cmp = m] :
        d, b, u, a, m \in BOOLEAN, c \in {"seen", "none", "unrecorded"}}
Regional ==
    {[GoodConfig EXCEPT !.region = r, !.defaults = (d @@ AllDenied),
                        !.overrides = (country :> Entry(c)) @@ (Append(country, "1") :> Entry(s))] :
        r \in {UnknownRegion, <<"DE">>, <<"DE", "1">>, <<"US">>, <<"US", "1">>, <<"US", "2">>},
        country \in {<<"DE">>, <<"US">>}, d, c, s \in Rows}
Strange ==
    {[GoodConfig EXCEPT !.defaults = d, !.overrides = o] :
        d \in {<<>>, WithoutUserData, AllDenied},
        o \in {<<>>, MalformedKey :> Entry(AllDenied), <<"DE">> :> [dict |-> FALSE, row |-> <<>>],
               <<"DE">> :> Entry([ad_user_data |-> "denied"])}}
Surrounded ==
    {[GoodConfig EXCEPT !.spa = s, !.server = v, !.cross = x] : s, v, x \in {"absent", "unverified", "broken"}}
    \cup {[GoodConfig EXCEPT !.async = a, !.wait = w] : a \in BOOLEAN, w \in {"none", "bounded", "wrong"}}
    \cup {[GoodConfig EXCEPT !.live = l, !.authorized = a] : l, a \in BOOLEAN}
    \cup {[GoodConfig EXCEPT !.mode = "other"], [GoodConfig EXCEPT !.duplicates = TRUE],
          [GoodConfig EXCEPT !.differs = TRUE]}
AllConsentConfigs == Ordered \cup Regional \cup Strange \cup Surrounded

\* Audits: crawls of a good page and of pages with one or two things wrong, of pages that
\* share a title or a description, of facets, of pages under a number, and of robots
\* records; and registries that do not know, or do not support, what a rule rests on.
SomeAddress(host, base, number, query) == [host |-> host, base |-> base, number |-> number, query |-> query]
Parameter(key) == <<key, "v", TRUE>>
Addresses ==
    <<SomeAddress("own", "/", 0, <<>>), SomeAddress("own", "/a", 0, <<>>), SomeAddress("own", "/list/", 0, <<>>),
      SomeAddress("own", "/list/", 2, <<>>), SomeAddress("own", "/list/", 0, <<Parameter("page")>>),
      SomeAddress("own", "/list/", 0, <<Parameter("q")>>),
      SomeAddress("own", "/list/", 0, <<Parameter("pg"), <<"q", "v", FALSE>>>>),
      SomeAddress("own", "/shop", 0, <<Parameter("color"), Parameter("size")>>),
      SomeAddress("own", "/shop", 0, <<Parameter("size"), Parameter("color")>>),
      SomeAddress("own", "/shop", 0, <<Parameter("size"), <<"color", "", TRUE>>>>),
      SomeAddress("cdn", "/x.js", 0, <<>>), SomeAddress("own", "/x.js", 0, <<>>),
      SomeAddress("own", "/robots.txt", 0, <<>>), SomeAddress("cdn", "/robots.txt", 0, <<>>)>>
Titles == <<"t1", "t2", "t3", "t4", "t5", "t6", "t7", "t8", "t9", "t10">>
Texts == <<"d1", "d2", "d3", "d4", "d5", "d6", "d7", "d8", "d9", "d10">>
GoodMarkup(u) ==
    [words |-> TRUE, gone |-> FALSE, title |-> Titles[u], descriptions |-> <<Texts[u]>>, viewports |-> <<"v">>,
     charsets |-> <<"c">>, openGraph |-> {"og:title", "og:description"}, deprecated |-> FALSE,
     directives |-> {}, canonical |-> u, links |-> {1, u}, assets |-> {11, 12},
     images |-> <<[lazy |-> FALSE, sized |-> TRUE]>>, legacy |-> FALSE]
GoodReply(u) ==
    [requested |-> u, at |-> u, status |-> 200, type |-> "html", charset |-> "", header |-> {},
     markup |-> GoodMarkup(u)]
ChangedReplies(r) ==
    {[r EXCEPT !.requested = 2], [r EXCEPT !.type = "none"], [r EXCEPT !.type = "xhtml"], [r EXCEPT !.type = "other"],
     [r EXCEPT !.markup.words = FALSE], [r EXCEPT !.markup.gone = TRUE],
     [r EXCEPT !.markup.charsets = <<"">>], [r EXCEPT !.markup.charsets = <<>>, !.charset = "c"],
     [r EXCEPT !.markup.viewports = <<>>], [r EXCEPT !.markup.openGraph = {"og:title"}],
     [r EXCEPT !.markup.deprecated = TRUE], [r EXCEPT !.markup.legacy = TRUE],
     [r EXCEPT !.markup.images = <<[lazy |-> TRUE, sized |-> FALSE]>>],
     [r EXCEPT !.markup.images = [k \in 1..3 |-> [lazy |-> k = 3, sized |-> k < 3]]]}
    \cup {[r EXCEPT !.status = s] : s \in {204, 301, 403, 404, 410, 429, 499, 500}}
    \cup {[r EXCEPT !.header = d] : d \in SUBSET {"noindex", "nosnippet"} \ {{}}}
    \cup {[r EXCEPT !.markup.directives = d] : d \in {{"noindex"}, {"max-snippet"}}}
    \cup {[r EXCEPT !.markup.title = t] : t \in {"", "home", Titles[1]}}
    \cup {[r EXCEPT !.markup.descriptions = t] : t \in {<<>>, <<"", "other">>, <<Texts[1]>>}}
    \cup {[r EXCEPT !.markup.canonical = c] : c \in {NoPage, 1, 2}}
Allowing(host, at) ==
    [host |-> host, at |-> at, failed |-> FALSE, status |-> 200, large |-> FALSE, unknown |-> <<>>, forbids |-> {}]
OwnRobots == Allowing("own", 13)
ChangedRobots ==
    {[OwnRobots EXCEPT !.status = s] : s \in {404, 429, 503}}
    \cup {[OwnRobots EXCEPT !.forbids = f] : f \in SUBSET {"/", "/a", "/x.js"}}
    \cup {[OwnRobots EXCEPT !.failed = TRUE, !.status = 0], [OwnRobots EXCEPT !.large = TRUE],
          [OwnRobots EXCEPT !.unknown = <<"crawl-delay", "noindex", "other", "noindex">>]}
AllClaims ==
    {"robots-scope", "robots-5xx", "robots-file-limit", "robots-crawl-delay-unsupported",
     "robots-disallow-not-noindex", "http-429-server-signal", "http-404-410", "soft-404",
     "http-redirect-signals", "canonical-strength", "pagination-self-canonical", "rel-next-prev-dead",
     "pagination-real-links", "canonical-link-consistency", "nosnippet-ai-input", "max-snippet-ai-input",
     "lcp-no-lazy", "lcp-subparts", "cwv-thresholds", "facets-empty-404", "facets-parameter-separator"}
SupportedClaims == [classes |-> [c \in AllClaims |-> "PRIMARY_SOURCE"], allowed |-> {"PRIMARY_SOURCE", "CONTROLLED_EXPERIMENT",
                "LARGE_SCALE_OBSERVATIONAL", "PRACTITIONER_CONSENSUS"}]
AuditOf(replies, robots, registry) ==
    [rule |-> "audit", registry |-> registry,
     crawl |-> [host |-> "own", address |-> Addresses, replies |-> replies, robots |-> robots, failed |-> 1]]
PlainRobots == <<OwnRobots, Allowing("cdn", 14)>>
AuditRegistries ==
    {SupportedClaims, [SupportedClaims EXCEPT !.classes = [c \in AllClaims \ {"soft-404"} |-> "PRIMARY_SOURCE"]],
     [SupportedClaims EXCEPT !.classes["lcp-subparts"] = "STALE"], [SupportedClaims EXCEPT !.classes["canonical-strength"] = "ANALYSIS"]}
AuditEvidence ==
    {AuditOf(<<GoodReply(1), r>>, PlainRobots, SupportedClaims) :
        r \in UNION {ChangedReplies(q) : q \in {GoodReply(3)} \cup ChangedReplies(GoodReply(3))}}
    \cup {AuditOf(<<[GoodReply(1) EXCEPT !.markup.title = t, !.markup.descriptions = d],
                    [GoodReply(3) EXCEPT !.markup.title = t, !.markup.descriptions = d]>>, PlainRobots, SupportedClaims) :
             t \in {"", "home"}, d \in {<<>>, <<"", "same">>}}
    \cup {AuditOf(<<r>>, PlainRobots, g) : r \in ChangedReplies(GoodReply(3)), g \in AuditRegistries}
    \cup {AuditOf(<<GoodReply(1), r>>, <<b, c>>, SupportedClaims) :
             r \in {[GoodReply(2) EXCEPT !.header = d, !.markup.title = t] : d \in {{}, {"noindex"}}, t \in {"", "t2"}}, b \in ChangedRobots,
             c \in {Allowing("cdn", 14), [Allowing("cdn", 14) EXCEPT !.status = 500, !.unknown = <<"noindex">>]}}
    \cup {AuditOf([i \in 1..3 |-> GoodReply(s[i])], PlainRobots, SupportedClaims) : s \in {t \in [1..3 -> 8..10] : IsInjective(t)}}
    \cup {AuditOf(<<GoodReply(1), GoodReply(3), [GoodReply(3) EXCEPT !.requested = 2]>>, PlainRobots, SupportedClaims)}
    \cup {AuditOf(<<[GoodReply(u) EXCEPT !.markup.canonical = c], [GoodReply(c) EXCEPT !.markup.canonical = b]>>,
                  PlainRobots, SupportedClaims) : u \in 3..5, c \in 6..7, b \in {NoPage, 1, 3}}
    \cup {AuditOf(<<[GoodReply(u) EXCEPT !.markup.canonical = c], GoodReply(c)>>, PlainRobots, SupportedClaims) : u \in 4..7, c \in {3}}

\* Every file of up to four of those lines, every short pattern against every short
\* target, two patterns against each other, every reply, and every graph of four pages.
AllEvidence ==
    {RobotsEvidence("found", t, SomePages) : t \in UpTo(Lines, 4)}
    \cup {RobotsEvidence("found", <<AgentLine("*"), RuleLine(FALSE, p)>>,
                         [target : AllTargets, noindex : {TRUE}]) : p \in ShortPaths}
    \cup {RobotsEvidence("found", <<AgentLine("*"), RuleLine(FALSE, p), RuleLine(TRUE, q)>>,
                         [target : AllTargets, noindex : {TRUE}]) :
             p, q \in {r \in ShortPaths : Len(r.pattern) <= 2}}
    \cup {RobotsEvidence(r, <<AgentLine("*"), RuleLine(FALSE, LongPath(<<"a">>))>>, SomePages) :
             r \in {"lost", "busy", "absent"}}
    \cup {CanonicalEvidence(c) : c \in [1..4 -> {NoPage, Elsewhere} \cup 1..4]}
    \cup {[rule |-> "consent", config |-> c] : c \in AllConsentConfigs} \cup AuditEvidence
MCRuleEvidence == AllEvidence
PlainEvidence == CanonicalEvidence([i \in 1..4 |-> NoPage])
OwnNames == {"bot", "googlebot"}

-----------------------------------------------------------------------------
\* PageCapture: every kind of call alone, and two screenshots into one output.

CaptureOf(face, mode, safe, valid, file) ==
  [face |-> face, mode |-> mode, safe |-> safe, valid |-> valid, file |-> file]

SingleCalls ==
  {CaptureOf("evidence", mode, TRUE, TRUE, "a.png") : mode \in {"auto", "always", "never"}}
  \cup {CaptureOf(face, "auto", safe, valid, "a.png") :
          face \in {"page", "screenshot"}, safe, valid \in BOOLEAN}
  \cup {CaptureOf("evidence", "auto", FALSE, TRUE, "a.png"), CaptureOf("health", "auto", TRUE, TRUE, "a.png")}

Screenshot == CaptureOf("screenshot", "auto", TRUE, TRUE, "a.png")

AllCaptureCalls ==
  {[c \in Capturers |-> IF c = "first" THEN call ELSE NoCall] : call \in SingleCalls}
  \cup {[c \in Capturers |-> Screenshot]}
\* A caller that rests while others run.
PlainCapture == [c \in Capturers |-> NoCall]
MCCaptureCalls == AllCaptureCalls \cup {PlainCapture}

-----------------------------------------------------------------------------
(* A package with render smokes on both platforms, documentation and        *)
(* community closures, and the packages that differ from it in one or two   *)
(* places.  Prepared at 1; jobs 1 and 2 run from 2 to 6, job 3 fails.       *)

MCJobs ==
  [j \in 1..3 |-> [platform |-> IF j = 2 THEN "windows" ELSE "ubuntu",
                   start |-> 2, end |-> 6, succeeded |-> j < 3]]
MCProfile ==
  [k \in {"render.page", "render.screenshot"} |->
     [costApproval |-> FALSE, writeApproval |-> FALSE, sideEffect |-> "read_only"]]
  @@ [k \in {"indexnow.submit"} |-> [costApproval |-> TRUE, writeApproval |-> TRUE, sideEffect |-> "write"]]
MCRequired == [k \in {"render-installable", "bing-indexnow"} |->
                 IF k = "bing-indexnow" THEN {"indexnow.submit"} ELSE {"render.page", "render.screenshot"}]
MCDocumented == {"cli_help", "doctor"}

Grant(requests, cost, paid, writes) ==
  [kind |-> "live_authorization", starts |-> 1, expires |-> 7, maxRequests |-> requests,
   maxCost |-> cost, costApproved |-> paid, writeApproved |-> writes]

\* An observation of a platform's job: one request per command, at the given times.
Smoke(platform, job, grant, times, cost, wrote) ==
  LET id(k) == <<platform, k>>
      requests == {[id |-> id(k), command |-> k, at |-> times[k]] : k \in DOMAIN times}
      log(role) == [kind |-> "live_log", role |-> role, observed |-> 5, ids |-> {id(k) : k \in DOMAIN times}]
  IN  [kind |-> "live_observation", commands |-> DOMAIN times, platform |-> platform, job |-> job,
       observed |-> 5, target |-> "urls", authorization |-> grant,
       normalized |-> [kind |-> "normalized_observation", observed |-> 5, requests |-> requests,
                       made |-> Cardinality(requests), cost |-> cost, wrote |-> wrote],
       logs |-> {log("provider"), log("application")}]

Render(page, shot) == "render.page" :> page @@ "render.screenshot" :> shot

Setup(platform, job, command, at) ==
  [kind |-> "capability_prerequisite", platform |-> platform, job |-> job, command |-> command,
   executed |-> at, target |-> "urls",
   capability |-> IF command \in {"browser.install", "render.health"} THEN "render-installable" ELSE "bing-indexnow"]

Closure(id, gate, observations, at) ==
  [kind |-> "capability_closure", id |-> id, execution_gate |-> gate, observations |-> observations, observed |-> at]

Reproduced(command, at) == [kind |-> "reproduction_command", command |-> command, executed |-> at]
Benchmark == [kind |-> "benchmark_corpus"]
Community == [kind |-> "community_observation", observed |-> 5]

OfKind(rows, commands) ==
  {rows[i] : i \in {j \in DOMAIN rows :
     (IF rows[j].kind = "live_observation" THEN rows[j].commands ELSE {rows[j].command}) \cap commands # {}}}

\* The package of these observations and prerequisites, with all it refers to.
PackageOf(observations, prerequisites, closedAt) ==
  LET environment == [kind |-> "reproduction_environment", independent |-> TRUE, created |-> 3]
      commands == <<Reproduced("cli_help", 3), Reproduced("doctor", 4)>>
      render == {"browser.install", "render.health", "render.page", "render.screenshot"}
      bing == {"bing.preflight", "indexnow.validate", "indexnow.submit"}
      closures ==
        "render-installable" :>
          {Closure("render-installable", "live_authorized_smokes",
                   OfKind(observations, render) \cup OfKind(prerequisites, render), closedAt)}
        @@ "bing-indexnow" :>
          {Closure("bing-indexnow", "live_authorized_smokes",
                   OfKind(observations, bing) \cup OfKind(prerequisites, bing), closedAt)}
        @@ "documentation-install-success" :>
          {Closure("documentation-install-success", "external_reproduction", Range(commands), closedAt)}
        @@ "community-infrastructure" :>
          {Closure("community-infrastructure", "external_reproduction", {Community}, closedAt)}
        @@ Distribution :> {}
      package0 == [observations |-> observations, prerequisites |-> prerequisites, environment |-> environment,
                   commands |-> commands, benchmark |-> Benchmark, closures |-> closures]
  IN  [observations |-> observations, prerequisites |-> prerequisites, environment |-> environment,
       commands |-> commands, benchmark |-> Benchmark, closures |-> closures,
       present |-> Used(package0)]

ReadGrant == Grant(4, 0, FALSE, FALSE)
WriteGrant == Grant(1, 1, TRUE, TRUE)
Submission(at, cost) == Smoke("ubuntu", 1, WriteGrant, "indexnow.submit" :> at, cost, TRUE)

HonestSmokes == <<Smoke("ubuntu", 1, ReadGrant, Render(3, 4), 0, FALSE),
                  Smoke("windows", 2, ReadGrant, Render(3, 3), 0, FALSE),
                  Submission(4, 1)>>
HonestSetup == <<Setup("ubuntu", 1, "browser.install", 2), Setup("ubuntu", 1, "render.health", 3),
                 Setup("windows", 2, "browser.install", 2), Setup("windows", 2, "render.health", 2),
                 Setup("ubuntu", 1, "bing.preflight", 3), Setup("ubuntu", 1, "indexnow.validate", 4)>>
HonestPackage == PackageOf(HonestSmokes, HonestSetup, 5)

\* What differs from the honest package, the first.
WithFirst(smoke) == PackageOf([HonestSmokes EXCEPT ![1] = smoke], HonestSetup, 5)
First(job, grant, page, shot) == Smoke("ubuntu", job, grant, Render(page, shot), 0, FALSE)
Tight == Grant(3, 0, FALSE, FALSE)

AllPackages ==
  <<HonestPackage,
    PackageOf(HonestSmokes, HonestSetup, 4),                       \* closed too early
    [HonestPackage EXCEPT !.present = @ \cup {Closure("bing-indexnow", "live_authorized_smokes", {}, 5)}],
    [HonestPackage EXCEPT !.present = @ \ {ReadGrant}],
    [HonestPackage EXCEPT !.closures["bing-indexnow"] = @ \cup {Closure("bing-indexnow", "external_reproduction", {}, 5)}],
    [HonestPackage EXCEPT !.environment.independent = FALSE],
    [HonestPackage EXCEPT !.commands = SubSeq(@, 1, 1)],
    WithFirst(First(1, ReadGrant, 2, 3)),                          \* a page before the health check
    WithFirst(First(1, ReadGrant, 3, 6)),                          \* a request after the observation
    WithFirst(First(1, Grant(2, 0, FALSE, FALSE), 3, 3)),          \* two grants
    WithFirst(First(1, Grant(1, 0, FALSE, FALSE), 3, 3)),          \* a grant too small
    WithFirst(First(3, ReadGrant, 3, 4)),                          \* another job than the setup's
    WithFirst(Smoke("ubuntu", 1, ReadGrant, Render(3, 4), 1, FALSE)),
    WithFirst(Smoke("ubuntu", 1, ReadGrant, Render(3, 4), 0, TRUE)),
    PackageOf([HonestSmokes EXCEPT ![1] = First(1, Tight, 3, 4),   \* each within a grant, not both
                                   ![2] = Smoke("windows", 2, Tight, Render(3, 3), 0, FALSE)], HonestSetup, 5),
    PackageOf([HonestSmokes EXCEPT ![1] = First(3, ReadGrant, 3, 4)],  \* the job that fails
              [HonestSetup EXCEPT ![1].job = 3, ![2].job = 3], 5),
    PackageOf([HonestSmokes EXCEPT ![2] = Smoke("windows", 1, ReadGrant, Render(3, 4), 0, FALSE)],
              [HonestSetup EXCEPT ![3].job = 1, ![4].job = 1], 5),
    PackageOf([HonestSmokes EXCEPT ![3] = Submission(3, 1)], HonestSetup, 5),
    PackageOf([HonestSmokes EXCEPT ![3] = Submission(4, 2)], HonestSetup, 5),
    PackageOf(HonestSmokes, [HonestSetup EXCEPT ![6].target = "others"], 5),
    PackageOf(<<HonestSmokes[1]>> \o HonestSmokes, HonestSetup, 5),
    PackageOf(Append(HonestSmokes,                                 \* a request counted twice
                     Smoke("ubuntu", 1, Grant(1, 0, FALSE, FALSE), "render.page" :> 4, 0, FALSE)),
              HonestSetup, 5),
    PackageOf(<<HonestSmokes[2], HonestSmokes[1], HonestSmokes[3]>>, HonestSetup, 5)>>

\* TLC evaluates AllPackages once, and what stands for a constant at each use.
MCPackages == AllPackages
-----------------------------------------------------------------------------
(* Requests, and outputs one change or two away from one that holds.        *)

Tokens == {"5", "50", "url"}
TokenParts == {<<"5", "50">>}
FileNames == ("a/log" :> "log") @@ ("b/log" :> "log") @@ ("crawl" :> "crawl") @@ ("export" :> "export")

Summary == <<"summary", 0>>
Scope == <<"affected_scope", 0>>
Owner == <<"owner", 0>>

Item(id, source, state) == [id |-> id, source |-> source, state |-> state]
AClaim(id, bound, refs, state, inference, says) ==
    [id |-> id, bound |-> bound, refs |-> refs, state |-> state, inference |-> inference, says |-> says]
AFinding(id, refs, grave) == [id |-> id, refs |-> refs, grave |-> grave]
ADecision(state, refs, human) ==
    [state |-> state, refs |-> refs, human |-> human,
     mapped |-> IF state \in DOMAIN DecisionToExecution THEN DecisionToExecution[state] ELSE "COMPLETE"]

\* An output about a count of 50 in the summary, from a crawl and a log.
GoodOutput(agent) ==
    [parses |-> TRUE, wellFormed |-> TRUE, agent |-> agent, version |-> "2.0.0",
     state |-> "COMPLETE", unverified |-> "absent",
     evidence |-> <<Item("e1", "crawl", "CURRENT"), Item("e2", "a/log", "CURRENT")>>,
     findings |-> <<AFinding("f1", <<"e1">>, FALSE)>>,
     claims |-> <<AClaim("c1", <<Summary>>, <<"e1", "e2">>, "AVAILABLE", FALSE, {"50"})>>,
     texts |-> (Summary :> {"50"}) @@ (Scope :> {}) @@ (Owner :> {"5"}),
     decision |-> IF agent \in DecisionAgents THEN ADecision("READY", {"e1"}, FALSE) ELSE NoDecision]

ClaimOf(o, claim) == [o EXCEPT !.claims = <<claim>>]
ChangedClaims(o) ==
    LET c == o.claims[1]
    IN  {ClaimOf(o, [c EXCEPT !.state = s, !.inference = i]) :
            s \in {"AVAILABLE", "PARTIAL", "STALE", "MISSING", "BLOCKED", "SURE"}, i \in BOOLEAN}
        \cup {ClaimOf(o, [c EXCEPT !.bound = b]) : b \in {<<>>, <<Scope>>, <<Owner>>, <<Summary, Summary>>}}
        \cup {ClaimOf(o, [c EXCEPT !.refs = r]) : r \in {<<>>, <<"e1">>, <<"e1", "e1">>, <<"crawl">>, <<"log">>}}
        \cup {ClaimOf(o, [c EXCEPT !.says = s]) : s \in {{}, {"5"}}}
        \cup {ClaimOf(o, [c EXCEPT !.id = "e1"]), [o EXCEPT !.claims = <<>>], [o EXCEPT !.claims = <<c, c>>]}
ChangedEvidence(o) ==
    {[o EXCEPT !.evidence[2].state = s] : s \in {"STALE", "MISSING", "CONTRADICTORY", "UNVERIFIED", "OLD"}}
    \cup {[o EXCEPT !.evidence[2].id = i] : i \in {"e1", ""}}
    \cup {[o EXCEPT !.evidence[2].source = s] : s \in {"crawl", ""}}
ChangedRest(o) ==
    {[o EXCEPT !.state = s] : s \in {"PARTIAL", "BLOCKED", "SYNTHETIC", "OTHER"}}
    \cup {[o EXCEPT !.unverified = u] : u \in {"set", "unset"}}
    \cup {[o EXCEPT !.version = "3"], [o EXCEPT !.wellFormed = FALSE],
          [o EXCEPT !.texts[Scope] = {"5"}], [o EXCEPT !.texts[Summary] = {"5"}],
          [o EXCEPT !.findings[1].refs = <<>>], [o EXCEPT !.findings[1].refs = <<"e9">>],
          [o EXCEPT !.findings[1].id = "e2"], [o EXCEPT !.findings[1].grave = TRUE]}
\* A weaker second item under a claim of each strength.
TwoChanges(o) == UNION {ChangedClaims(p) : p \in {[o EXCEPT !.evidence[2].state = s] : s \in {"STALE", "MISSING"}}}
Decided(o) ==
    {[o EXCEPT !.decision = ADecision(d, r, h), !.state = s] :
        d \in {"READY", "ABSTAIN", "ESCALATE"}, r \in {{}, {"e1"}, {"e9"}}, h \in BOOLEAN,
        s \in {"COMPLETE", "PARTIAL", "BLOCKED"}} \cup {[o EXCEPT !.decision = NoDecision]}

\* Unversioned files that name their evidence in several ways, and legacy outputs.
Unversioned ==
    LET plain == [GoodOutput("technical") EXCEPT !.version = "none"]
        items == {<<Item("", "a/log", "CURRENT"), Item("", "crawl", "STALE")>>,
                  <<Item("", "a/log", "CURRENT"), Item("", "b/log", "CURRENT")>>,
                  <<Item("e1", "a/log", "CURRENT"), Item("log", "crawl", "CURRENT")>>,
                  <<Item("e1", "", "CURRENT")>>}
        refs == {<<"log">>, <<"crawl">>, <<"a/log">>, <<"e1">>, <<"e9">>, <<"log", "a/log">>}
    IN  {[plain EXCEPT !.evidence = e, !.findings[1].refs = r, !.claims = <<>>] : e \in items, r \in refs}
        \cup {[plain EXCEPT !.evidence = e, !.findings[1].refs = r, !.claims[1].refs = r] : e \in items, r \in refs}
LegacyOutputs ==
    LET plain == [GoodOutput("technical") EXCEPT !.version = "1.0.0", !.unverified = "set", !.state = "PARTIAL"]
    IN  {plain, [plain EXCEPT !.evidence[1].state = "UNVERIFIED", !.evidence[2].state = "UNVERIFIED"],
         [plain EXCEPT !.evidence[1].state = "UNVERIFIED", !.evidence[2].state = "UNVERIFIED",
                       !.claims[1].state = "PARTIAL"]}

AllAnswers ==
    UNION {{o} \cup ChangedClaims(o) \cup ChangedEvidence(o) \cup ChangedRest(o) \cup TwoChanges(o) :
              o \in {GoodOutput("technical")}}
    \cup Decided(GoodOutput("local")) \cup Unversioned \cup LegacyOutputs

-----------------------------------------------------------------------------
Signs(strong, supporting, against) == [strong |-> strong, supporting |-> supporting, against |-> against]
PlainRequest ==
    [kind |-> "session", agent |-> "technical", echo |-> FALSE, routed |-> TRUE, declared |-> "known",
     signals |-> [saas |-> Signs(0, 0, 0), publisher |-> Signs(0, 0, 0)], signalled |-> FALSE,
     domain |-> TRUE, tokens |-> {"5"}, sensitive |-> FALSE, legacy |-> FALSE,
     registered |-> TRUE, files |-> TRUE, skills |-> {[grouped |-> TRUE, definitions |-> 2]},
     procedures |-> 1, playbooks |-> 1]
AllRequests ==
    LET echo == [PlainRequest EXCEPT !.echo = TRUE, !.routed = FALSE]
        signalled == [echo EXCEPT !.declared = "unknown", !.signalled = TRUE]
    IN  {PlainRequest, [PlainRequest EXCEPT !.agent = "local"], [PlainRequest EXCEPT !.domain = FALSE]}
        \cup {[echo EXCEPT !.agent = a, !.domain = d] : a \in {"technical", "local", "scrum"}, d \in BOOLEAN}
        \cup {[signalled EXCEPT !.signals.saas = s, !.signals.publisher = p] :
                 s, p \in {Signs(2, 0, 0), Signs(1, 2, 0), Signs(2, 2, 1)}}
        \cup {[echo EXCEPT !.declared = "unsupported"], [echo EXCEPT !.registered = FALSE],
              [echo EXCEPT !.files = FALSE], [echo EXCEPT !.procedures = 2],
              [echo EXCEPT !.skills = {[grouped |-> FALSE, definitions |-> 2]}],
              [echo EXCEPT !.agent = "local", !.playbooks = 0]}
        \cup {[PlainRequest EXCEPT !.kind = "stream", !.sensitive = b] : b \in BOOLEAN}
        \cup {[PlainRequest EXCEPT !.kind = "file", !.legacy = b] : b \in BOOLEAN}
        \cup {[PlainRequest EXCEPT !.kind = "report"]}
MCAnswers == AllAnswers
MCRequests == AllRequests
===============================================================================
