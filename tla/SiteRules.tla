----------------------------- MODULE SiteRules -----------------------------
(***************************************************************************)
(* The technical audit of what was crawled (src/integrations/product_proof): *)
(* which pages the robots file of the site forbids, which canonical        *)
(* annotations form chains and cycles, and the report all its rules make;  *)
(* and the Consent Mode diagnostic of a supplied configuration             *)
(* (src/scripts/consent_mode_diagnostic.py, consent_report_safety.py).     *)
(* One evaluation answers one of these questions; the rules are also       *)
(* stated by what they mean, and compared with it.                         *)
(***************************************************************************)
EXTENDS Integers, Sequences, FiniteSets, SequencesExt, FiniteSetsExt, TLC

CONSTANTS SiteEvidence, \* what may be evaluated, see below
          AgentTokens,  \* name of a user agent -> its length
          OwnTokens,    \* the names contained in "googlebot"
          MaxHops,      \* hops followed from one origin
          ShownUrls,    \* addresses a finding names
          ShownActions, \* findings the executive summary shows
          BudgetScale,  \* pages from which crawl budget is worth a review
          ConsentRequired \* the countries that require consent, <<country>>

ASSUME RulesAssumption ==
    /\ {MaxHops, ShownUrls, ShownActions, BudgetScale} \subseteq Nat \ {0}
    /\ MaxHops > 1
    /\ OwnTokens \subseteq DOMAIN AgentTokens
    /\ \A a \in OwnTokens : AgentTokens[a] \in Nat

(* Robots evidence: [rule |-> "robots", reply, text, pages].  The reply is *)
(* "lost" (no answer, or a file past the limits), "busy" (429 or 5xx),     *)
(* "absent" (another 4xx) or "found".  A line of the text is [kind |->     *)
(* "agent", name], [kind |-> "rule", allow, path] or [kind |-> "other"]; a *)
(* path is [pattern, anchored], and a page is [target, noindex].           *)
(* Canonical evidence: [rule |-> "canonical", canonical], for every page   *)
(* its canonical address, NoPage, or Elsewhere, which was not crawled.     *)
(* Audit evidence: [rule |-> "audit", crawl, registry], where a registry is *)
(* [classes, allowed], the evidence class of every claim and those that    *)
(* support a recommendation, and a crawl is [host, address, replies,        *)
(* robots, failed].  Addresses are numbers in the order of their names:     *)
(* address[u] is [host, base, number, query], a path, the number of a page *)
(* behind it or 0, and parameters <<key, value, plain>>, plain when they are *)
(* written the way a query is written anew.  A reply is [requested, at,     *)
(* status, type, charset, header, markup], its markup [words, gone, title, *)
(* descriptions, viewports, charsets, openGraph, deprecated, directives,   *)
(* canonical, links, assets, images, legacy].  A robots record is [host,   *)
(* at, failed, status, large, unknown, forbids].                           *)
(* Consent evidence: [rule |-> "consent", config].                         *)
(* A region is <<country>> or <<country, subdivision>>; UnknownRegion is    *)
(* one that cannot be read, MalformedKey such a key of an override.  A row  *)
(* gives some signals a value, valid or not.  A configuration is            *)
(*   [live, authorized, region, mode, cmp, defaults, overrides, defaultSet, *)
(*    beforeTags, choice, update, afterDefault, async, wait, duplicates,    *)
(*    spa, server, cross, differs]                                          *)
(* where overrides maps keys to [dict, row], choice is "seen", "none" or    *)
(* "unrecorded", wait is "none", "bounded" or "wrong", and spa, server and  *)
(* cross are "absent", "unverified" or "broken".                            *)
IsSequence(s) == s \in Seq(Range(s))

\* Every address is asked for once; a page that is reached twice answers the same.
AuditedCrawl(crawl) ==
    LET replies == Range(crawl.replies)
    IN  /\ IsSequence(crawl.replies) /\ IsSequence(crawl.robots)
        /\ \A r \in replies :
             /\ {r.at, r.requested} \subseteq Nat \ {0} /\ r.status \in Nat
             /\ IsSequence(r.markup.descriptions) /\ IsSequence(r.markup.viewports) /\ IsSequence(r.markup.charsets)
        /\ \A i, j \in DOMAIN crawl.replies : crawl.replies[i].requested = crawl.replies[j].requested => i = j
        /\ \A r, q \in replies : r.at = q.at => r.status = q.status /\ r.type = q.type /\ r.charset = q.charset
                                              /\ r.header = q.header /\ r.markup = q.markup
        /\ \A r \in Range(crawl.robots) : IsSequence(r.unknown)
        /\ \A r \in replies : r.at \in DOMAIN crawl.address
        /\ \A u \in DOMAIN crawl.address : IsSequence(crawl.address[u].query)
ASSUME EvidenceAssumption ==
    \A e \in SiteEvidence :
      /\ e.rule = "robots" =>
           /\ IsSequence(e.text) /\ \A p \in e.pages : IsSequence(p.target)
           /\ \A l \in Range(e.text) : l.kind = "rule" => IsSequence(l.path.pattern)
      /\ e.rule = "canonical" => DOMAIN e.canonical \subseteq Nat \ {0}
      /\ e.rule = "audit" => AuditedCrawl(e.crawl)

NoPage == 0
Elsewhere == -1
AnyAgent == "*"
Star == "*"

VARIABLES siteEvidence,
          linesRead,         \* lines of the robots file read so far
          robotsGroups,       \* its groups, [agents, rules], oldest first
          openGroup,        \* the group being read
          origins,      \* pages whose canonical path is still to be followed
          trail,        \* the path being followed: [origin, at, seen, hops]
          ruleFindings, \* what the audit reports: findings, and the pages concerned
          consentReport, \* the report of the consent diagnostic
          auditReport,  \* the report of the technical audit
          evaluated

ruleVars == <<siteEvidence, linesRead, robotsGroups, openGroup, origins, trail, ruleFindings,
              consentReport, auditReport, evaluated>>

NoGroup == [agents |-> <<>>, rules |-> <<>>]
NoReport == [status |-> "none", findings |-> {}, matrix |-> <<>>]
NoAudit == [findings |-> <<>>]
NoTrail == [origin |-> NoPage, at |-> NoPage, seen |-> {}, hops |-> 0]

Robots == siteEvidence.rule = "robots"
Audit == siteEvidence.rule = "audit"
Consent == siteEvidence.rule = "consent"
Canonicals == siteEvidence.rule \in {"canonical", "audit"}
-----------------------------------------------------------------------------
(* What a reply is recorded as.                                            *)

Succeeds(status) == status \in 200..299
Overloaded(status) == status = 429 \/ status >= 500

\* What nobody parsed has nothing in it.
NoMarkup ==
    [words |-> FALSE, gone |-> FALSE, title |-> "", descriptions |-> <<>>, viewports |-> <<>>,
     charsets |-> <<>>, openGraph |-> {}, deprecated |-> FALSE, directives |-> {},
     canonical |-> NoPage, links |-> {}, assets |-> {}, images |-> <<>>, legacy |-> FALSE]

\* The first of several tags that says something.
FirstSaid(texts, otherwise) ==
    LET said == {k \in DOMAIN texts : texts[k] # ""}
    IN  IF said = {} THEN otherwise ELSE texts[Min(said)]

Directives(reply, markup) == markup.directives \cup reply.header

\* A reply is parsed as HTML when it says so or says nothing; whatever it is, one that
\* succeeds and shows little text, or text that says nothing is there, looks missing.
PageRecord(reply) ==
    LET markup == IF reply.type = "other" THEN NoMarkup ELSE reply.markup
    IN  [requested |-> reply.requested, at |-> reply.at, status |-> reply.status,
         html |-> Succeeds(reply.status) /\ reply.type = "html",
         soft |-> Succeeds(reply.status) /\ (markup.gone \/ ~markup.words),
         title |-> markup.title,
         description |-> FirstSaid(markup.descriptions, ""),
         viewport |-> FirstSaid(markup.viewports, ""),
         charset |-> FirstSaid(markup.charsets, reply.charset),
         openGraph |-> markup.openGraph, deprecated |-> markup.deprecated,
         directives |-> Directives(reply, markup),
         canonical |-> markup.canonical, links |-> markup.links, assets |-> markup.assets,
         images |-> markup.images, legacy |-> markup.legacy]

PageRecords(crawl) == [i \in DOMAIN crawl.replies |-> PageRecord(crawl.replies[i])]
At(P, rows) == {P[i].at : i \in rows}
\* The canonical of every page; a page that was reached twice answers the same.
CanonicalOf ==
    IF ~Audit THEN siteEvidence.canonical
    ELSE LET P == PageRecords(siteEvidence.crawl)
         IN  [u \in At(P, DOMAIN P) |-> (CHOOSE p \in Range(P) : p.at = u).canonical]
Crawled == DOMAIN CanonicalOf

\* A page that names another address than its own.
NonSelf(canonical) == {p \in DOMAIN canonical : canonical[p] \notin {NoPage, p}}

RulesInit ==
    /\ siteEvidence \in SiteEvidence
    /\ linesRead = 0 /\ robotsGroups = <<>> /\ openGroup = NoGroup
    /\ origins = IF Canonicals THEN NonSelf(CanonicalOf) ELSE {}
    /\ trail = NoTrail
    /\ ruleFindings = {}
    /\ consentReport = NoReport
    /\ auditReport = NoAudit
    /\ evaluated = FALSE

-----------------------------------------------------------------------------
(* Reading the robots file, whatever the status of the reply.              *)

\* A group is kept as soon as it names an agent, with or without rules.
Flush(kept, g) == IF g.agents = <<>> THEN kept ELSE Append(kept, g)

\* Mutation: every line that names an agent begins a group.
StartsGroupAlways(g) == g.agents # <<>>

\* A line that names an agent begins a new group after a rule; agents named one after
\* the other share their rules, whatever unknown lines stand between them.
StartsGroup(g) == g.rules # <<>>

ReadAgent(l) ==
    /\ l.kind = "agent"
    /\ IF StartsGroup(openGroup)
         THEN /\ robotsGroups' = Flush(robotsGroups, openGroup)
              /\ openGroup' = [agents |-> <<l.name>>, rules |-> <<>>]
         ELSE /\ openGroup' = [openGroup EXCEPT !.agents = Append(@, l.name)]
              /\ UNCHANGED robotsGroups

\* A rule before the first agent is an unknown directive.
ReadRule(l) ==
    /\ l.kind = "rule"
    /\ openGroup' = IF openGroup.agents = <<>> THEN openGroup ELSE [openGroup EXCEPT !.rules = Append(@, l)]
    /\ UNCHANGED robotsGroups

ReadOther(l) == l.kind = "other" /\ UNCHANGED <<robotsGroups, openGroup>>

ReadLine ==
    /\ Robots /\ ~evaluated /\ siteEvidence.reply # "lost"
    /\ linesRead < Len(siteEvidence.text)
    /\ linesRead' = linesRead + 1
    /\ LET l == siteEvidence.text[linesRead + 1] IN ReadAgent(l) \/ ReadRule(l) \/ ReadOther(l)
    /\ UNCHANGED <<siteEvidence, origins, trail, ruleFindings, evaluated, consentReport, auditReport>>

-----------------------------------------------------------------------------
(* The policy that was read.                                               *)

\* The matching loop: a literal advances both, a star remembers where it stood, and a
\* mismatch goes back to the last star and gives it one more character.
PathMatches(path, target) ==
    LET P == path.pattern
        M == Len(P)
        N == Len(target)
        Is(s, c) == s.cursor <= M /\ P[s.cursor] = c
        Walk[s \in [cursor : Nat, position : Nat, star : Nat, retry : Nat]] ==
            IF s.position > N THEN \A i \in s.cursor..M : P[i] = Star
            ELSE \/ s.cursor > M /\ ~path.anchored
                 \/ /\ Is(s, Star)
                    /\ Walk[[s EXCEPT !.star = s.cursor, !.retry = s.position, !.cursor = @ + 1]]
                 \/ /\ ~Is(s, Star) /\ Is(s, target[s.position])
                    /\ Walk[[s EXCEPT !.cursor = @ + 1, !.position = @ + 1]]
                 \/ /\ ~Is(s, Star) /\ ~Is(s, target[s.position]) /\ s.star > 0
                    /\ Walk[[s EXCEPT !.retry = @ + 1, !.position = s.retry + 1, !.cursor = s.star + 1]]
    IN  Walk[[cursor |-> 1, position |-> 1, star |-> 0, retry |-> 0]]

Specificity(path) == Cardinality({i \in DOMAIN path.pattern : path.pattern[i] # Star})

\* How well a group fits the crawler: the longest name contained in its own, nothing for
\* the star, or not at all.
Fit(g) ==
    LET own == {AgentTokens[a] : a \in Range(g.agents) \cap OwnTokens}
    IN  IF own # {} THEN Max(own) ELSE IF AnyAgent \in Range(g.agents) THEN 0 ELSE -1

SelectedGroups(policy) ==
    LET fitting == {g \in Range(policy) : Fit(g) >= 0}
    IN  {g \in fitting : \A h \in fitting : Fit(h) <= Fit(g)}

\* The longest matching rule decides, a tie in favour of access; an empty path says nothing.
AllowedBy(policy, target) ==
    LET rules == {r \in UNION {Range(g.rules) : g \in SelectedGroups(policy)} :
                    /\ r.path.pattern # <<>> \/ r.path.anchored
                    /\ PathMatches(r.path, target)}
        longest == {r \in rules : \A q \in rules : Specificity(q.path) <= Specificity(r.path)}
    IN  rules # {} => \E r \in longest : r.allow

\* What the reply alone says.
ReplyFindings ==
    CASE siteEvidence.reply = "lost" -> {<<"robots-fetch-failed", {}>>}
      [] siteEvidence.reply = "busy" -> {<<"robots-server-error", {}>>}
      [] OTHER -> {}

\* Pages that ask not to be indexed where the crawler cannot read it.
BlockedFindings(policy) ==
    LET hidden == {p \in siteEvidence.pages : p.noindex /\ ~AllowedBy(policy, p.target)}
    IN  IF siteEvidence.reply \in {"busy", "absent"} \/ hidden = {} THEN {}
        ELSE {<<"noindex-blocked-by-robots", hidden>>}

\* The end of the file, and the rules over the record that was made of it; of a lost
\* file there is a record without groups.
EvaluateRobots ==
    /\ Robots /\ ~evaluated
    /\ siteEvidence.reply = "lost" \/ linesRead = Len(siteEvidence.text)
    /\ robotsGroups' = Flush(robotsGroups, openGroup)
    /\ openGroup' = NoGroup
    /\ ruleFindings' = ReplyFindings \cup BlockedFindings(robotsGroups')
    /\ evaluated' = TRUE
    /\ UNCHANGED <<siteEvidence, linesRead, origins, trail, consentReport, auditReport>>

-----------------------------------------------------------------------------
(* Following canonical annotations.                                        *)

Reported(kind) == {f[2] : f \in {g \in ruleFindings : g[1] = kind}}

BeginTrail ==
    /\ Canonicals /\ ~evaluated
    /\ trail = NoTrail /\ origins # {}
    /\ LET p == Min(origins)
       IN  /\ origins' = origins \ {p}
           /\ trail' = [origin |-> p, at |-> CanonicalOf[p], seen |-> {p}, hops |-> 0]
    /\ UNCHANGED <<siteEvidence, linesRead, robotsGroups, openGroup, ruleFindings, evaluated, consentReport, auditReport>>

\* There is a crawled page with a canonical of its own to look at.
OnTrail == trail # NoTrail /\ trail.at \in Crawled /\ CanonicalOf[trail.at] # NoPage

\* The path is at its end: what it comes to is reported.
EndTrail(cyclic, hops) ==
    /\ trail' = NoTrail
    /\ ruleFindings' = ruleFindings \cup (IF cyclic THEN {<<"canonical-cycle", trail.origin>>}
                            ELSE IF hops > 1 THEN {<<"canonical-chain", trail.origin>>} ELSE {})

\* The path comes to a page it has been at.
Returns(t) == t.at \in t.seen

Hop ==
    /\ Canonicals /\ ~evaluated
    /\ OnTrail
    /\ LET hops == trail.hops + 1
           next == CanonicalOf[trail.at]
       IN  IF Returns(trail) \/ next = trail.at \/ hops >= MaxHops
             THEN EndTrail(Returns(trail), hops)
             ELSE /\ trail' = [trail EXCEPT !.at = next, !.seen = @ \cup {trail.at}, !.hops = hops]
                  /\ UNCHANGED ruleFindings
    /\ UNCHANGED <<siteEvidence, linesRead, robotsGroups, openGroup, origins, evaluated, consentReport, auditReport>>

LeaveTrail ==
    /\ Canonicals /\ ~evaluated
    /\ trail # NoTrail /\ ~OnTrail
    /\ EndTrail(FALSE, trail.hops)
    /\ UNCHANGED <<siteEvidence, linesRead, robotsGroups, openGroup, origins, evaluated, consentReport, auditReport>>

EndCanonical ==
    /\ siteEvidence.rule = "canonical" /\ ~evaluated
    /\ trail = NoTrail /\ origins = {}
    /\ evaluated' = TRUE
    /\ UNCHANGED <<siteEvidence, linesRead, robotsGroups, openGroup, origins, trail, ruleFindings, consentReport, auditReport>>

-----------------------------------------------------------------------------
(* The rules over a whole crawl.  Each raises a finding or none, in the     *)
(* order of the code: robots, statuses, canonicals, extraction, head.       *)

\* A rule that concerns somebody raises a finding.
RuleFinding(rule, severity, category, owner, claims, urls) ==
    IF urls = {} THEN <<>>
    ELSE <<[rule |-> rule, severity |-> severity, category |-> category, owner |-> owner,
            claims |-> claims, urls |-> urls, state |-> "VERIFIED"]>>
Stated(state, raised) == [k \in DOMAIN raised |-> [raised[k] EXCEPT !.state = state]]

\* The address of a record about which something holds.
Concerning(r, holds) == {u \in {r.at} : holds}

\* A 4xx other than 429 is no finding: it restricts nothing.
ResponseRaised(r) ==
    IF r.failed
      THEN Stated("MISSING", RuleFinding("robots-fetch-failed", "High", "Crawl Access", "Diagnostic",
                                   {"robots-scope", "robots-5xx"}, {r.at}))
      ELSE RuleFinding("robots-server-error", "Critical", "Crawl Access", "Technical", {"robots-5xx"},
                 Concerning(r, Overloaded(r.status)))
           \o RuleFinding("robots-too-large", "High", "Crawl Access", "Technical", {"robots-file-limit"},
                    Concerning(r, r.large))
Unrestricted(crawl) ==
    {i \in DOMAIN crawl.robots : ~crawl.robots[i].failed /\ crawl.robots[i].status \in (400..499) \ {429}}

UnsupportedRaised(r) ==
    FlattenSeq([k \in DOMAIN r.unknown |->
        RuleFinding("robots-crawl-delay", "Medium", "Crawl Access", "Technical", {"robots-crawl-delay-unsupported"},
              Concerning(r, r.unknown[k] = "crawl-delay"))
        \o RuleFinding("robots-noindex", "High", "Indexability", "Technical", {"robots-disallow-not-noindex"},
                 Concerning(r, r.unknown[k] = "noindex"))])

\* The robots file of the start page is asked about every page, by its path alone, and
\* about the assets of its own host; an error reply says nothing.
BlockedRaised(crawl, P) ==
    LET root == CHOOSE r \in Range(crawl.robots) : r.host = crawl.host
        blocked == {u \in DOMAIN crawl.address : root.status < 400 /\ crawl.address[u].base \in root.forbids}
        assets == {u \in UNION {P[i].assets : i \in DOMAIN P} : crawl.address[u].host = crawl.host}
    IN  RuleFinding("noindex-blocked-by-robots", "Critical", "Indexability", "Technical",
              {"robots-disallow-not-noindex"}, blocked \cap At(P, {i \in DOMAIN P : "noindex" \in P[i].directives}))
        \o RuleFinding("blocked-render-assets", "High", "Rendering", "Diagnostic",
                 {"robots-disallow-not-noindex"}, blocked \cap assets)

RobotsRaised(crawl, P) ==
    FlattenSeq([i \in DOMAIN crawl.robots |->
        LET r == crawl.robots[i]
        IN  ResponseRaised(r) \o (IF r.failed THEN <<>> ELSE UnsupportedRaised(r))])
    \o BlockedRaised(crawl, P)

StatusRaised(P) ==
    LET overloaded == {i \in DOMAIN P : Overloaded(P[i].status)}
        missing == {i \in DOMAIN P : P[i].status \in {404, 410}}
        soft == {i \in DOMAIN P : P[i].soft}
        moved == {i \in DOMAIN P : P[i].requested # P[i].at}
    IN  RuleFinding("server-errors", "Critical", "Availability", "Diagnostic", {"http-429-server-signal"}, At(P, overloaded))
        \o RuleFinding("missing-linked-pages", "High", "Internal Links", "Architecture", {"http-404-410"}, At(P, missing))
        \o RuleFinding("soft-404", "High", "Index Quality", "Technical", {"soft-404"}, At(P, soft))
        \o RuleFinding("internal-redirects", "Medium", "Internal Links", "Architecture", {"http-redirect-signals"},
                 {P[i].requested : i \in moved})

-----------------------------------------------------------------------------
\* Addresses as the rules read them: a blank parameter is none, except where the
\* address of the first page is made, from what is left and written anew.

PAGE == {"page", "paged", "pagenum", "page_num", "pg"}
FACET == {"color", "size", "brand", "price", "sort", "order", "filter", "material", "style",
          "category", "availability"}

\* What a list has at these places, in their order.
Nth(places, n) == CHOOSE i \in places : Cardinality({j \in places : j <= i}) = n
Kept(list, places) == [n \in 1..Cardinality(places) |-> list[Nth(places, n)]]

QueryKeys(a) ==
    LET said == Kept(a.query, {i \in DOMAIN a.query : a.query[i][2] # ""})
    IN  [i \in DOMAIN said |-> said[i][1]]
Paged(a) == a.number # 0 \/ Range(QueryKeys(a)) \cap PAGE # {}
Faceted(a) == Range(QueryKeys(a)) \cap FACET # {}
FirstPage(a) ==
    LET left == Kept(a.query, {i \in DOMAIN a.query : a.query[i][1] \notin PAGE})
    IN  [host |-> a.host, base |-> a.base, number |-> 0,
         query |-> [i \in DOMAIN left |-> <<left[i][1], left[i][2], TRUE>>]]

\* The pages whose canonical is another page, and those where that one failed.
NonCanonical(P) == {i \in DOMAIN P : P[i].canonical \notin {NoPage, P[i].at}}
BrokenTargets(P) ==
    {i \in NonCanonical(P) : \E j \in DOMAIN P : P[j].at = P[i].canonical /\ ~Succeeds(P[j].status)}

\* The walks along canonicals have ended.
CanonicalRaised(crawl, P) ==
    LET onFirst == {i \in DOMAIN P : /\ Paged(crawl.address[P[i].at]) /\ P[i].canonical # NoPage
                                     /\ crawl.address[P[i].canonical] = FirstPage(crawl.address[P[i].at])}
        legacy == {i \in DOMAIN P : P[i].legacy}
        links == UNION {P[i].links : i \in DOMAIN P}
        strength == {"canonical-strength"}
    IN  RuleFinding("canonical-broken-target", "Critical", "Canonicalization", "Technical", strength, At(P, BrokenTargets(P)))
        \o RuleFinding("canonical-cycle", "Critical", "Canonicalization", "Technical", strength, Reported("canonical-cycle"))
        \o RuleFinding("canonical-chain", "High", "Canonicalization", "Technical", strength, Reported("canonical-chain"))
        \o RuleFinding("pagination-canonical-page-one", "Critical", "Pagination", "Architecture",
                 {"pagination-self-canonical"}, At(P, onFirst))
        \o RuleFinding("pagination-legacy-rel", "Low", "Pagination", "Architecture",
                 {"rel-next-prev-dead", "pagination-real-links"}, At(P, legacy))
        \o RuleFinding("links-to-noncanonical", "High", "Internal Links", "Architecture",
                 {"canonical-link-consistency"}, links \cap At(P, NonCanonical(P)))

-----------------------------------------------------------------------------
SnippetRaised(P) ==
    LET with(d) == At(P, {i \in DOMAIN P : d \in P[i].directives})
    IN  RuleFinding("nosnippet-tradeoff", "Medium", "AI Extraction Controls", "Compliance", {"nosnippet-ai-input"}, with("nosnippet"))
        \o RuleFinding("maxsnippet-tradeoff", "Info", "AI Extraction Controls", "Compliance", {"max-snippet-ai-input"}, with("max-snippet"))

\* The first two images of a page may include the one that counts.
ImagesRaised(P) ==
    LET early(i) == {P[i].images[k] : k \in DOMAIN P[i].images \cap 1..2}
        lazy == {i \in DOMAIN P : \E m \in early(i) : m.lazy}
        unsized == {i \in DOMAIN P : \E m \in early(i) : ~m.sized}
    IN  Stated("STRONGLY_SUPPORTED",
               RuleFinding("likely-lcp-lazy", "High", "Core Web Vitals", "Diagnostic", {"lcp-no-lazy", "lcp-subparts"}, At(P, lazy)))
        \o RuleFinding("image-dimensions", "Medium", "Core Web Vitals", "Diagnostic", {"cwv-thresholds"}, At(P, unsized))

\* Facets with the same parameters, in two orders; all facets are named.
FacetsRaised(crawl, P) ==
    LET facets == {i \in DOMAIN P : Faceted(crawl.address[P[i].at])}
        keys(i) == QueryKeys(crawl.address[P[i].at])
        count(i) == [k \in Range(keys(i)) |-> Cardinality({n \in DOMAIN keys(i) : keys(i)[n] = k})]
        disorder == \E i, j \in facets : count(i) = count(j) /\ keys(i) # keys(j)
    IN  RuleFinding("facet-empty-200", "High", "Faceted Navigation", "Commerce", {"facets-empty-404", "soft-404"},
              At(P, {i \in facets : Succeeds(P[i].status) /\ P[i].soft}))
        \o RuleFinding("facet-order-inconsistent", "Medium", "Faceted Navigation", "Commerce", {"facets-parameter-separator"},
                 {u \in At(P, facets) : disorder})

-----------------------------------------------------------------------------
Html(P) == {i \in DOMAIN P : P[i].html}
Indexable(P) == {i \in Html(P) : "noindex" \notin P[i].directives}

GENERIC_TITLES == {"home", "homepage", "untitled", "index", "page", "new page"}

\* The pages whose value is counted more than once; no value is counted.
DuplicateUrls(P, rows, field) ==
    LET said == {i \in rows : P[i][field] # ""}
        times(v) == Cardinality({i \in said : P[i][field] = v})
    IN  At(P, {i \in said : times(P[i][field]) > 1})

HeadFinding(rule, severity, owner, urls) == RuleFinding(rule, severity, "Head Metadata", owner, {}, urls)

TitlesRaised(P) ==
    HeadFinding("head-title-missing", "High", "Technical", At(P, {i \in Indexable(P) : P[i].title = ""}))
    \o HeadFinding("head-title-generic", "Medium", "Content", At(P, {i \in Indexable(P) : P[i].title \in GENERIC_TITLES}))
    \o HeadFinding("head-title-duplicated", "Medium", "Content", DuplicateUrls(P, Indexable(P), "title"))

DescriptionsRaised(P) ==
    HeadFinding("meta-description-missing", "Medium", "Content", At(P, {i \in Indexable(P) : P[i].description = ""}))
    \o HeadFinding("meta-description-duplicated", "Low", "Content", DuplicateUrls(P, Indexable(P), "description"))

TechnicalHeadRaised(P) ==
    HeadFinding("viewport-missing", "High", "Engineer", At(P, {i \in Html(P) : P[i].viewport = ""}))
    \o HeadFinding("charset-missing", "Medium", "Engineer", At(P, {i \in Html(P) : P[i].charset = ""}))
    \o Stated("STRONGLY_SUPPORTED",
              RuleFinding("canonical-missing", "Medium", "Head Metadata", "Technical", {"canonical-strength"},
                    At(P, {i \in Indexable(P) : P[i].canonical = NoPage})))
    \o HeadFinding("deprecated-head-metadata", "Low", "Engineer", At(P, {i \in Html(P) : P[i].deprecated}))

SocialRaised(P) ==
    HeadFinding("social-metadata-incomplete", "Low", "Content",
          At(P, {i \in Indexable(P) : P[i].title # "" /\ ~({"og:title", "og:description"} \subseteq P[i].openGraph)}))

RaisedBy(crawl, P) ==
    RobotsRaised(crawl, P) \o StatusRaised(P) \o CanonicalRaised(crawl, P)
    \o SnippetRaised(P) \o ImagesRaised(P) \o FacetsRaised(crawl, P)
    \o TitlesRaised(P) \o DescriptionsRaised(P) \o TechnicalHeadRaised(P) \o SocialRaised(P)

-----------------------------------------------------------------------------
(* The report.                                                             *)

StrengthOrder == <<"PRIMARY_SOURCE", "CONTROLLED_EXPERIMENT", "LARGE_SCALE_OBSERVATIONAL",
                   "PRACTITIONER_CONSENSUS", "EXPERT_HYPOTHESIS", "ANALYSIS", "UNVERIFIED",
                   "DISPUTED", "STALE", "FALSE">>
StrongestClass(registry, claims) ==
    LET kinds == {registry.classes[c] : c \in claims}
    IN  IF kinds = {} THEN "ANALYSIS"
        ELSE StrengthOrder[Min({i \in DOMAIN StrengthOrder : StrengthOrder[i] \in kinds})]
ApprovedForRecommendation(registry, claims) == \A c \in claims : registry.classes[c] \in registry.allowed

\* The first addresses of a finding, in the order of their names.
Shown(urls) == {u \in urls : Cardinality({v \in urls : v < u}) < ShownUrls}

\* A rule's second finding is numbered; a finding on a claim that nothing supports
\* needs verification, whatever its rule says.
Added(raised, registry) ==
    [k \in DOMAIN raised |->
       LET r == raised[k]
       IN  [id |-> <<r.rule, Cardinality({j \in 1..k : raised[j].rule = r.rule})>>,
            severity |-> r.severity, category |-> r.category, owner |-> r.owner,
            state |-> IF ApprovedForRecommendation(registry, r.claims) THEN r.state ELSE "REQUIRES_VERIFICATION",
            class |-> StrongestClass(registry, r.claims), claims |-> r.claims, urls |-> Shown(r.urls)]]

SEV == <<"Critical", "High", "Medium", "Low", "Info">>
\* The names a report is sorted by, in alphabetical order.
Categories == <<"AI Extraction Controls", "Availability", "Canonicalization", "Core Web Vitals",
                "Crawl Access", "Faceted Navigation", "Head Metadata", "Index Quality",
                "Indexability", "Internal Links", "Pagination", "Rendering">>
RuleNames == <<"blocked-render-assets", "canonical-broken-target", "canonical-chain", "canonical-cycle",
               "canonical-missing", "charset-missing", "deprecated-head-metadata", "facet-empty-200",
               "facet-order-inconsistent", "head-title-duplicated", "head-title-generic",
               "head-title-missing", "image-dimensions", "internal-redirects", "likely-lcp-lazy",
               "links-to-noncanonical", "maxsnippet-tradeoff", "meta-description-duplicated",
               "meta-description-missing", "missing-linked-pages", "noindex-blocked-by-robots",
               "nosnippet-tradeoff", "pagination-canonical-page-one", "pagination-legacy-rel",
               "robots-crawl-delay", "robots-fetch-failed", "robots-noindex", "robots-server-error",
               "robots-too-large", "server-errors", "social-metadata-incomplete", "soft-404",
               "viewport-missing">>
Place(list, name) == CHOOSE i \in DOMAIN list : list[i] = name
SortKey(f) == <<Place(SEV, f.severity), Place(Categories, f.category), Place(RuleNames, f.id[1]), f.id[2]>>
Before(f, g) ==
    \E k \in 1..4 : SortKey(f)[k] < SortKey(g)[k] /\ \A i \in 1..(k - 1) : SortKey(f)[i] = SortKey(g)[i]

\* A finding stands behind those that come before it.
Sorted(added) ==
    LET rank == [k \in DOMAIN added |-> 1 + Cardinality({j \in DOMAIN added : Before(added[j], added[k])})]
    IN  [n \in DOMAIN added |-> added[CHOOSE k \in DOMAIN added : rank[k] = n]]

Groups(findings) ==
    LET of(c) == {i \in DOMAIN findings : findings[i].category = c}
    IN  {[category |-> c, ids |-> {findings[i].id : i \in of(c)}] : c \in {f.category : f \in Range(findings)}}

InState(findings, states) == Cardinality({i \in DOMAIN findings : findings[i].state \in states})
EvidencedStates == {"VERIFIED", "STRONGLY_SUPPORTED"}
OpenGap == {"REQUIRES_VERIFICATION"}

TrustSummary(crawl, P, findings) ==
    [attempted |-> Len(P) + crawl.failed, completed |-> Len(P), failed |-> crawl.failed,
     hosts |-> Len(crawl.robots), verified |-> InState(findings, EvidencedStates),
     inferred |-> Len(findings) - InState(findings, EvidencedStates \cup OpenGap),
     unsupported |-> InState(findings, OpenGap)]

\* The executive summary: the graver, the earlier, and as many as it shows.
Headline(findings) ==
    LET graver(i, j) == LET si == Place(SEV, findings[i].severity)
                            sj == Place(SEV, findings[j].severity) IN si < sj \/ (si = sj /\ i < j)
    IN  {findings[j].id : j \in {n \in DOMAIN findings : Cardinality({i \in DOMAIN findings : graver(i, n)}) < ShownActions}}

\* What each role is credited with: what it collected, proposed, merged and rejected.
Contribution(added, proposed, accepted, merged, rejected) ==
    [added |-> added, proposed |-> proposed, accepted |-> accepted, merged |-> merged, rejected |-> rejected]
Credited(owner, added, findings) ==
    LET own == Cardinality({i \in DOMAIN findings : findings[i].owner = owner}) IN Contribution(added, own, own, 0, 0)
CollectionContributions(crawl, P, findings) ==
    [Diagnostic |-> Credited("Diagnostic", Len(P) + Len(crawl.robots), findings),
     Technical |-> Credited("Technical", Len(P), findings),
     Architecture |-> Credited("Architecture", MapThenSumSet(LAMBDA i : Cardinality(P[i].links), DOMAIN P), findings),
     Compliance |-> Credited("Compliance", Cardinality({i \in DOMAIN P : P[i].directives # {}}), findings)]
DecisionContributions(findings, groups) ==
    LET n == Len(findings)
        open == InState(findings, OpenGap)
    IN  [Analyst |-> Contribution(n, n, n, Max({n - Cardinality(groups), 0}), 0),
         Scrummaster |-> Contribution(0, 0, n - open, 0, open),
         Report |-> Contribution(n, 0, n, 0, 0)]

\* Crawl budget is a decision on the size of what was crawled, and no finding.
ScaleReview(P) == Len(P) >= BudgetScale

AuditReportOf(crawl, registry) ==
    LET P == PageRecords(crawl)
        findings == Sorted(Added(RaisedBy(crawl, P), registry))
        groups == Groups(findings)
    IN  [findings |-> findings, groups |-> groups, headline |-> Headline(findings),
         trust |-> TrustSummary(crawl, P, findings),
         decisions |-> Cardinality(Unrestricted(crawl)) + 1, budget |-> ScaleReview(P),
         collected |-> CollectionContributions(crawl, P, findings),
         decided |-> DecisionContributions(findings, groups)]

\* The registry knows the claims that a rule rests on, and the class of each.
ClaimsKnown(registry, claims) ==
    /\ claims \subseteq DOMAIN registry.classes
    /\ \A c \in claims : registry.classes[c] \in Range(StrengthOrder)

\* The audit ends: with its report, or with none where a claim is not known.
EvaluateAudit ==
    /\ Audit /\ ~evaluated
    /\ trail = NoTrail /\ origins = {}
    /\ LET claims == UNION {r.claims : r \in Range(RaisedBy(siteEvidence.crawl, PageRecords(siteEvidence.crawl)))}
       IN  auditReport' = IF ClaimsKnown(siteEvidence.registry, claims)
                            THEN AuditReportOf(siteEvidence.crawl, siteEvidence.registry) ELSE NoAudit
    /\ evaluated' = TRUE
    /\ UNCHANGED <<siteEvidence, linesRead, robotsGroups, openGroup, origins, trail, ruleFindings, consentReport>>

-----------------------------------------------------------------------------
(* The Consent Mode diagnostic, a function of the configuration supplied.  *)

SIGNALS == {"ad_storage", "analytics_storage", "ad_user_data", "ad_personalization"}
ValidStates == {"granted", "denied"}

UnknownRegion == <<>>
MalformedKey == <<"?">>
CountryOf(region) == IF region = UnknownRegion THEN UnknownRegion ELSE <<region[1]>>
RequiresConsent(region) == region = UnknownRegion \/ CountryOf(region) \in ConsentRequired

-----------------------------------------------------------------------------
(* What a configuration resolves to.                                       *)

\* Only the four signals are kept; a value that is none is denied, and remembered.
ProjectSignals(row) ==
    [s \in SIGNALS \cap DOMAIN row |-> IF row[s] \in ValidStates THEN row[s] ELSE "denied"]
InvalidSignals(row) == {s \in SIGNALS \cap DOMAIN row : row[s] \notin ValidStates}

SafeOverrides(overrides) == {k \in DOMAIN overrides : k # MalformedKey /\ overrides[k].dict}

\* A row in force over what was resolved before: its signals, valid or not, replace it.
ApplyRow(before, row) ==
    LET said == ProjectSignals(row)
    IN  [resolved |-> [s \in DOMAIN said \cup DOMAIN before.resolved |->
                         IF s \in DOMAIN said THEN said[s] ELSE before.resolved[s]],
         invalid |-> (before.invalid \ DOMAIN said) \cup InvalidSignals(row)]

\* The row of the country, then the row of the region where it says more.
ResolveRegionDefaults(config) ==
    LET over(before, k) == IF k \in SafeOverrides(config.overrides)
                             THEN ApplyRow(before, config.overrides[k].row) ELSE before
        country == over([resolved |-> ProjectSignals(config.defaults),
                         invalid |-> InvalidSignals(config.defaults)], CountryOf(config.region))
    IN  IF config.region = CountryOf(config.region) THEN country ELSE over(country, config.region)

InvalidOverrideEntries(config) ==
    \/ config.region = UnknownRegion
    \/ SafeOverrides(config.overrides) # DOMAIN config.overrides
    \/ \E k \in DOMAIN config.overrides : InvalidSignals(config.overrides[k].row) # {}

\* What a signal is declared to be, and what the report treats it as.
DeclaredDefault(config, s) ==
    LET r == ResolveRegionDefaults(config)
    IN  IF s \in r.invalid THEN "invalid" ELSE IF s \in DOMAIN r.resolved THEN r.resolved[s] ELSE "missing"
Treated(config, s) ==
    IF DeclaredDefault(config, s) \in ValidStates /\ config.region # UnknownRegion THEN DeclaredDefault(config, s) ELSE "denied"

-----------------------------------------------------------------------------
(* What is wrong with it: a finding is a defect that was observed, or       *)
(* something that nobody has verified.                                     *)

Flag(holds, severity, area) ==
    IF holds THEN {[severity |-> severity, area |-> area, observed |-> TRUE]} ELSE {}

ConfigurationFindings(config) ==
    Flag(InvalidOverrideEntries(config), "high", "region")
      \cup Flag(config.mode \notin {"basic", "advanced"}, "high", "mode")
      \cup Flag(~config.cmp, "critical", "cmp")

\* A choice nobody recorded is one exactly when an update was recorded.
OrderingFindings(config) ==
    LET chosen == config.choice = "seen" \/ (config.choice = "unrecorded" /\ config.update)
    IN  Flag(~(config.defaultSet /\ config.beforeTags), "critical", "default")
          \cup Flag(chosen /\ ~config.update, "high", "update")
          \cup Flag(config.update /\ ~config.afterDefault, "critical", "update")

MissingSignalFindings(config) ==
    UNION {Flag(s \notin DOMAIN ResolveRegionDefaults(config).resolved,
                   IF s \in {"ad_user_data", "ad_personalization"} THEN "critical" ELSE "high", s) :
             s \in SIGNALS}

StateFindings(config) ==
    UNION {Flag(DeclaredDefault(config, s) \notin ValidStates, "high", s)
             \cup Flag(DeclaredDefault(config, s) = "granted" /\ RequiresConsent(config.region), "critical", s) :
             s \in SIGNALS}

InitializationFindings(config) ==
    Flag((config.async /\ config.wait = "none") \/ config.wait = "wrong", "medium", "timing")
      \cup Flag(config.duplicates, "high", "initialisation")

Topology(how, broken, unverified, area) ==
    IF how = "absent" THEN {}
    ELSE {[severity |-> IF how = "broken" THEN broken ELSE unverified, area |-> area, observed |-> how = "broken"]}

TopologyFindings(config) ==
    Topology(config.spa, "high", "medium", "spa")
      \cup Topology(config.server, "critical", "high", "server-side")
      \cup Topology(config.cross, "high", "high", "cross-domain")
      \cup Flag(config.differs, "high", "environment")

-----------------------------------------------------------------------------
(* The report.                                                             *)

ReportStatus(config, findings) ==
    IF ~config.cmp THEN "BLOCKED"
    ELSE IF \E f \in findings : f.observed /\ f.severity = "critical" THEN "FAIL"
    ELSE IF findings # {} THEN "PARTIAL" ELSE "PASS"

\* A test of the live site that nobody authorized is not diagnosed at all.
Diagnose(config) ==
    LET findings == ConfigurationFindings(config) \cup OrderingFindings(config)
                      \cup MissingSignalFindings(config) \cup StateFindings(config)
                      \cup InitializationFindings(config) \cup TopologyFindings(config)
    IN  IF config.live /\ ~config.authorized
          THEN [status |-> "BLOCKED", findings |-> {}, matrix |-> <<>>]
          ELSE [status |-> ReportStatus(config, findings), findings |-> findings,
                matrix |-> [s \in SIGNALS |-> Treated(config, s)]]

-----------------------------------------------------------------------------
(* Diagnosing a configuration.                                             *)

EvaluateConsent ==
    /\ Consent /\ ~evaluated
    /\ consentReport' = Diagnose(siteEvidence.config)
    /\ evaluated' = TRUE
    /\ UNCHANGED <<siteEvidence, linesRead, robotsGroups, openGroup, origins, trail, ruleFindings, auditReport>>

RulesNext ==
    \/ ReadLine \/ EvaluateRobots \/ EvaluateConsent
    \/ BeginTrail \/ Hop \/ LeaveTrail \/ EndCanonical \/ EvaluateAudit
RulesSpec == RulesInit /\ [][RulesNext]_ruleVars

-----------------------------------------------------------------------------
(* What the rules mean.                                                    *)

\* A pattern fits the beginning of a target, or all of it where it is anchored: where in
\* the target its rest may begin, from the end of the pattern to its beginning.
FitsFrom(path, target) ==
    LET P == path.pattern
        M == Len(P)
        N == Len(target)
        Begins[i \in 1..(M + 1)] ==
            LET rest == Begins[i + 1]
            IN  IF i > M THEN (IF path.anchored THEN {N + 1} ELSE 1..(N + 1))
                ELSE IF P[i] = Star THEN {j \in 1..(N + 1) : \E k \in rest : j <= k}
                ELSE {j \in 1..N : target[j] = P[i] /\ j + 1 \in rest}
    IN  1 \in Begins[1]

\* A rule belongs to an agent's line above it, unless another agent's line follows a
\* rule in between.
Governs(text, a, r) ==
    /\ a < r /\ text[a].kind = "agent" /\ text[r].kind = "rule"
    /\ ~\E i, j \in a..r : i < j /\ text[i].kind = "rule" /\ text[j].kind = "agent"

\* The crawler obeys the rules of the names that fit it best.
Applying(text) ==
    LET fit(name) == IF name \in OwnTokens THEN AgentTokens[name] ELSE IF name = AnyAgent THEN 0 ELSE -1
        own == {a \in DOMAIN text : text[a].kind = "agent" /\ fit(text[a].name) >= 0}
        best == {a \in own : \A b \in own : fit(text[b].name) <= fit(text[a].name)}
    IN  {r \in DOMAIN text : \E a \in best : Governs(text, a, r)}

Forbidden(text, target) ==
    LET matching == {text[r].path : r \in {q \in Applying(text) : FitsFrom(text[q].path, target)
                                               /\ (text[q].path.pattern # <<>> \/ text[q].path.anchored)}}
        longest == {p \in matching : \A q \in matching : Specificity(q) <= Specificity(p)}
    IN  /\ matching # {}
        /\ \A r \in Applying(text) : text[r].path \in longest => ~text[r].allow

\* Where the annotations lead from a page after so many hops.
Onward(canonical, p) == IF p \in DOMAIN canonical THEN canonical[p] ELSE p
Leads(canonical, p) ==
    LET Lead[n \in Nat] == IF n = 0 THEN p ELSE Onward(canonical, Lead[n - 1])
    IN  Lead

\* Pages that ask not to be indexed and that the file forbids are reported, exactly
\* they, wherever the file can be trusted; a file that could not be read is itself
\* reported, so that nobody takes its silence for permission.
RobotsVerdict ==
    /\ siteEvidence.reply = "found" =>
         LET hidden == {p \in siteEvidence.pages : p.noindex /\ Forbidden(siteEvidence.text, p.target)}
         IN  ruleFindings = IF hidden = {} THEN {} ELSE {<<"noindex-blocked-by-robots", hidden>>}
    /\ siteEvidence.reply \in {"lost", "busy"} => ruleFindings # {}

\* A path that comes to a page it has been at, and never stands still.
Circular(lead) ==
    /\ \E n \in 1..MaxHops : /\ lead[n] \in Crawled /\ lead[n - 1] # lead[n]
                            /\ \E m \in 0..(n - 1) : lead[n] = lead[m]
    /\ ~\E n \in 1..MaxHops : lead[n] = lead[n + 1]

\* A reported cycle is one, entered from the origin; every cycle within the bound is
\* reported, and what is followed past the bound is at least a chain.  A reported chain
\* has two hops or more, and one that ends at a page that names itself is reported.
CanonicalVerdict ==
    \A p \in NonSelf(CanonicalOf) :
      LET lead == Leads(CanonicalOf, p)
      IN  /\ p \in Reported("canonical-cycle") <=> Circular(lead)
          /\ p \in Reported("canonical-chain") => Cardinality({lead[n] : n \in 0..2}) = 3
          /\ ~Circular(lead) /\ lead[1] # lead[2] /\ lead[1] \in Crawled
               /\ lead[2] \in Crawled /\ CanonicalOf[lead[2]] # NoPage
               => p \in Reported("canonical-chain")

-----------------------------------------------------------------------------
(* What a report means.                                                    *)

\* The rows in force, the most particular first: of the region, of its country, of
\* nobody; and those of them that speak about a signal.
RowsInForce(config) ==
    LET row(k) == IF k \in SafeOverrides(config.overrides) THEN config.overrides[k].row ELSE <<>>
    IN  <<row(config.region), row(CountryOf(config.region)), config.defaults>>
Spoken(config, s) == {n \in 1..3 : s \in DOMAIN RowsInForce(config)[n]}
Says(config, s, value) ==
    Spoken(config, s) # {} /\ RowsInForce(config)[Min(Spoken(config, s))][s] = value

\* Nothing that was observed lets data pass that a visitor has not consented to.
Dangerous(config) ==
    \/ ~config.defaultSet \/ ~config.beforeTags
    \/ (config.update /\ ~config.afterDefault)
    \/ config.server = "broken"
    \/ \E s \in {"ad_user_data", "ad_personalization"} : Spoken(config, s) = {}
    \/ (RequiresConsent(config.region) /\ \E s \in SIGNALS : Says(config, s, "granted"))

\* What the report's acceptance criteria ask for.
Acceptable(config) ==
    /\ config.region # UnknownRegion /\ DOMAIN config.overrides = SafeOverrides(config.overrides)
    /\ \A s \in SIGNALS : Says(config, s, "denied") \/ (Says(config, s, "granted") /\ ~RequiresConsent(config.region))
    /\ config.choice = "seen" => config.update
    /\ {config.spa, config.server, config.cross} = {"absent"} /\ ~config.differs /\ ~config.duplicates

\* A signal is treated as granted only where the most particular row that speaks about
\* it says so, in a region that is known; a report passes only a configuration that
\* meets its criteria, and fails exactly the dangerous ones that have a consent
\* platform; nothing else blocks one.
ConsentVerdict(config, report) ==
    IF config.live /\ ~config.authorized THEN report.status = "BLOCKED" /\ report.findings = {}
    ELSE /\ \A s \in SIGNALS : report.matrix[s] = "granted" <=> config.region # UnknownRegion /\ Says(config, s, "granted")
         /\ report.status = "BLOCKED" <=> ~config.cmp
         /\ report.status = "FAIL" <=> config.cmp /\ Dangerous(config)
         /\ report.status = "PASS" => config.cmp /\ ~Dangerous(config) /\ Acceptable(config)

-----------------------------------------------------------------------------
(* What the report of an audit means.                                      *)

Indexed == {"head-title-missing", "head-title-generic", "head-title-duplicated", "meta-description-missing",
           "meta-description-duplicated", "canonical-missing", "social-metadata-incomplete"}
Walked == {"canonical-broken-target", "canonical-cycle", "canonical-chain", "pagination-canonical-page-one"}

\* The rules that speak of an address, as a page and not as what others refer to.
Told(report, u) == {report.findings[k].id[1] : k \in {n \in DOMAIN report.findings : u \in report.findings[n].urls}}

\* The report accounts for itself: every finding has its own name, stands in one group
\* and in one line of the trust summary, and is accepted or open at the evidence gate;
\* nothing is called verified on a class of evidence that supports no recommendation;
\* and no finding is left out of the summary for a less grave one.
AccountsAddUp(registry, report) ==
    LET F == report.findings
        G == report.groups
        shown == {k \in DOMAIN F : F[k].id \in report.headline}
        gate == report.decided.Scrummaster
    IN  /\ \A i, j \in DOMAIN F : i < j => F[i].id # F[j].id /\ Place(SEV, F[i].severity) <= Place(SEV, F[j].severity)
        /\ \A k \in DOMAIN F : Cardinality({g \in G : F[k].id \in g.ids}) = 1
        /\ UNION {g.ids : g \in G} = {f.id : f \in Range(F)}
        /\ report.trust.verified + report.trust.inferred + report.trust.unsupported = Len(F)
        /\ gate.accepted + gate.rejected = Len(F)
        /\ \A k \in DOMAIN F : F[k].state \in {"VERIFIED", "STRONGLY_SUPPORTED"} /\ F[k].claims # {} => F[k].class \in registry.allowed
        /\ Cardinality(shown) = Min({Len(F), ShownActions})
        /\ \A k \in shown, n \in DOMAIN F \ shown : Place(SEV, F[k].severity) <= Place(SEV, F[n].severity)

\* Rules that know nothing of each other do not contradict each other about a page: one
\* that cannot be read asks for no head, one without a title has none that is shared or
\* generic, one without a canonical has none that leads astray, and what leads astray
\* is linked to under a name that is not preferred.
RulesAgree(crawl, report) ==
    \A u \in Crawled :
      LET told == Told(report, u)
      IN  /\ told \cap {"server-errors", "missing-linked-pages"} # {}
               => told \cap (Indexed \cup {"soft-404", "facet-empty-200", "viewport-missing", "charset-missing"}) = {}
          /\ "noindex-blocked-by-robots" \in told => told \cap Indexed = {}
          /\ "head-title-missing" \in told
               => told \cap {"head-title-generic", "head-title-duplicated", "social-metadata-incomplete"} = {}
          /\ "meta-description-missing" \in told => "meta-description-duplicated" \notin told
          /\ "canonical-missing" \in told => told \cap (Walked \cup {"links-to-noncanonical"}) = {}
          /\ "facet-empty-200" \in told => "soft-404" \in told
          /\ told \cap Walked # {} /\ (\E r \in Range(crawl.replies) : r.type # "other" /\ u \in r.markup.links)
               => "links-to-noncanonical" \in told

\* The page rules say nothing of a page that was reached once exactly when nothing is to
\* be said (reached twice, it shares its title with itself): it is where it was asked
\* for, succeeds or is refused for a reason the audit does not judge, shows text, and, if
\* it is HTML that may be indexed, presents itself as nobody else does.
PresentsItself(crawl, r) ==
    LET m == r.markup
        rivals == {q \in Range(crawl.replies) : /\ q.at # r.at /\ q.type = "html" /\ Succeeds(q.status)
                                                /\ "noindex" \notin q.header \cup q.markup.directives}
        described == {t \in Range(m.descriptions) : t # ""}
    IN  /\ m.title \notin GENERIC_TITLES \cup {""} /\ \A q \in rivals : q.markup.title # m.title
        /\ described # {} /\ \A q \in rivals : FirstSaid(q.markup.descriptions, "") # FirstSaid(m.descriptions, "")
        /\ m.canonical # NoPage /\ {"og:title", "og:description"} \subseteq m.openGraph
Presentable(crawl, r) ==
    LET m == r.markup
    IN  r.type = "html" /\ Succeeds(r.status) =>
          /\ \E t \in Range(m.viewports) : t # ""
          /\ r.charset # "" \/ \E t \in Range(m.charsets) : t # ""
          /\ ~m.deprecated
          /\ "noindex" \in r.header \cup m.directives \/ PresentsItself(crawl, r)
Reached(r) ==
    /\ r.requested = r.at /\ r.status \notin {404, 410, 429} /\ r.status < 500
    /\ Succeeds(r.status) => r.type # "other" /\ r.markup.words /\ ~r.markup.gone
PageRules == Indexed \cup {"server-errors", "missing-linked-pages", "soft-404", "viewport-missing",
                           "charset-missing", "deprecated-head-metadata", "internal-redirects"}
SilenceIsEarned(crawl, report) ==
    \A r \in Range(crawl.replies) :
      LET told == Told(report, r.at) \cup Told(report, r.requested)
          once == \A q \in Range(crawl.replies) : r.at \in {q.at, q.requested} => q = r
      IN  once => (told \cap PageRules = {} <=> Reached(r) /\ Presentable(crawl, r))

\* An audit whose findings were not cut off means all of that.
AddressesOf(crawl) == {r.at : r \in Range(crawl.replies)} \cup {r.requested : r \in Range(crawl.replies)}
AuditVerdict ==
    LET crawl == siteEvidence.crawl
    IN  auditReport # NoAudit /\ Cardinality(AddressesOf(crawl)) <= ShownUrls =>
          /\ AccountsAddUp(siteEvidence.registry, auditReport)
          /\ RulesAgree(crawl, auditReport)
          /\ SilenceIsEarned(crawl, auditReport)

-----------------------------------------------------------------------------
(* The property.                                                           *)

RobotsFilesMean == evaluated /\ Robots => RobotsVerdict
CanonicalsMean == evaluated /\ Canonicals => CanonicalVerdict
ConsentMeans == evaluated /\ Consent => ConsentVerdict(siteEvidence.config, consentReport)
AuditsMean == evaluated /\ Audit => AuditVerdict

\* The rules report what they mean, no more and no less.
RulesSayWhatTheyMean == RobotsFilesMean /\ CanonicalsMean /\ ConsentMeans /\ AuditsMean
=============================================================================
