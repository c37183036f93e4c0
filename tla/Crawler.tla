------------------------------ MODULE Crawler -------------------------------
(***************************************************************************)
(* The bounded breadth-first crawl of one site                             *)
(* (src/integrations/product_proof/crawler.py): a queue, the addresses ever*)
(* enqueued, and three bounds that end it together.                        *)
(***************************************************************************)
EXTENDS Integers, Sequences, FiniteSets, SequencesExt

CONSTANTS Sites,        \* what may be crawled: address -> addresses it links to
          Start,        \* the first address, in every site
          MaxUrls, CrawlDepth

\* Addresses are numbers in their order; a page has finitely many links.
ASSUME CrawlAssumption ==
    /\ MaxUrls \in Nat \ {0} /\ CrawlDepth \in Nat
    /\ \A s \in Sites :
         /\ Start \in DOMAIN s /\ DOMAIN s \subseteq Int
         /\ \A url \in DOMAIN s : s[url] \subseteq DOMAIN s /\ IsFiniteSet(s[url])

VARIABLES site,         \* the site being crawled
          queue,        \* <<address, depth>>, oldest first
          enqueued,
          pages, failed,\* sequences of addresses
          crawlPhase    \* "crawling" or "done"

crawlVars == <<site, queue, enqueued, pages, failed, crawlPhase>>

CrawlInit ==
    /\ site \in Sites
    /\ queue = <<<<Start, 0>>>> /\ enqueued = {Start}
    /\ pages = <<>> /\ failed = <<>>
    /\ crawlPhase = "crawling"

\* Addresses in their order.
InOrder(urls) ==
    [i \in 1..Cardinality(urls) |-> CHOOSE u \in urls : Cardinality({v \in urls : v < u}) = i - 1]

\* Mutation: the bound on pages also bounds what is enqueued.
EnqueueWithinPages(known, links) ==
    LET new == InOrder(links \ known)
        room == MaxUrls - Cardinality(known)
    IN  SubSeq(new, 1, IF room < Len(new) THEN room ELSE Len(new))

\* The links of a page not enqueued before, in their order, while there is room.
EnqueueLinks(known, links) ==
    LET new == InOrder(links \ known)
        room == 5 * MaxUrls - Cardinality(known)
    IN  SubSeq(new, 1, IF room < Len(new) THEN room ELSE Len(new))

\* One round of the loop.  A fetch may fail in any way, the budget of characters of
\* the crawl included; a page at the depth bound is kept and not followed.
Fetch ==
    /\ crawlPhase = "crawling"
    /\ queue # <<>> /\ Len(pages) < MaxUrls
    /\ LET url == Head(queue)[1]
           depth == Head(queue)[2]
           targets == IF depth >= CrawlDepth THEN <<>> ELSE EnqueueLinks(enqueued, site[url])
       IN  \/ /\ failed' = Append(failed, url)
              /\ queue' = Tail(queue)
              /\ UNCHANGED <<enqueued, pages>>
           \/ /\ pages' = Append(pages, url)
              /\ queue' = Tail(queue) \o [i \in DOMAIN targets |-> <<targets[i], depth + 1>>]
              /\ enqueued' = enqueued \cup Range(targets)
              /\ UNCHANGED failed
    /\ UNCHANGED <<site, crawlPhase>>

\* The loop ends; the robots files of the site and of a few asset hosts are read,
\* and the evidence is returned.
Return ==
    /\ crawlPhase = "crawling"
    /\ queue = <<>> \/ Len(pages) >= MaxUrls
    /\ crawlPhase' = "done"
    /\ UNCHANGED <<site, queue, enqueued, pages, failed>>

CrawlNext == Fetch \/ Return
CrawlSpec == CrawlInit /\ [][CrawlNext]_crawlVars

Truncated == queue # <<>> \/ Len(pages) >= MaxUrls
DataState == IF failed # <<>> \/ queue # <<>> THEN "PARTIAL"
             ELSE IF pages # <<>> THEN "AVAILABLE" ELSE "EMPTY"

\* What the service makes of it: it calls a result complete whatever failed, and then
\* warns; its own state says AVAILABLE as soon as there is a page.
ResultStatus == IF pages # <<>> /\ ~Truncated THEN "complete" ELSE "partial"
RunWarned == Truncated \/ failed # <<>>

\* A path of k links, and the addresses within n links of the start.
LinkPath(path, k) == path[0] = Start /\ \A i \in 1..k : path[i] \in site[path[i - 1]]
Within(n) ==
    {url \in DOMAIN site :
       \E k \in 0..n : \E path \in [0..k -> DOMAIN site] : LinkPath(path, k) /\ path[k] = url}

\* A crawl that calls its data available has every page within the depth bound and no
\* other, none twice, whichever of the bounds ended it; one that is neither truncated
\* nor has a failure says so.  A result called complete has them too, or warns.
AvailableIsComplete ==
    crawlPhase = "done" =>
        LET whole == Range(pages) = Within(CrawlDepth)
        IN  /\ IsInjective(pages)
            /\ Range(pages) \subseteq Within(CrawlDepth)
            /\ DataState = "AVAILABLE" => whole
            /\ ResultStatus = "complete" /\ ~RunWarned => whole
            /\ ~Truncated /\ failed = <<>> => DataState = "AVAILABLE"
            /\ ~whole => Truncated \/ failed # <<>>
=============================================================================
