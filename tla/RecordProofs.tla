---------------------------- MODULE RecordProofs ----------------------------
(***************************************************************************)
(* What is kept and what is read, for any number of stores, rows, events,   *)
(* outputs and pages: what the evidence store's rows say and which of them  *)
(* survive, that the memory of a chat loses nothing, that what the finding  *)
(* registry accepts does not depend on the order of the reports, and that a *)
(* crawl that says it is complete is.  The components share no state and    *)
(* each theorem is about the behaviours of its own specification.           *)
(***************************************************************************)
EXTENDS EvidenceStore, SessionMemory, FindingRegistry, Crawler, FiniteSetTheorems, SequenceTheorems,
        WellFoundedInduction, TLAPS

-----------------------------------------------------------------------------
(* One row, after the changes f from outside; o are the stores that are open.  *)

\* Nobody took an altered row over, and what the row's digests were made of is
\* as the store was told it; a row without them is so itself.
Truthful(r) ==
  \/ r.blessed
  \/ ~FullyHashed(r) /\ Intact(r)
  \/ /\ FullyHashed(r)
     /\ r.recordHash.payload = "captured" /\ r.recordHash.meta = "captured"
     /\ Canonical[r.recordHash.url] = r.home

\* The row stands in the series of its page, or the next store to open puts it there.
Placed(r, o) ==
  /\ r.home = Canonical[r.url]
  /\ FullyHashed(r) \/ o # {} => r.url = r.home

Sound(r) == Verifies(r) /\ Canonical[r.url] = r.url

Good(r, f, o) ==
  /\ r \in Row
  /\ "digest" \notin f => Truthful(r)
  /\ f \subseteq {"digest"} => Intact(r)
  /\ f = {} => Sound(r) \/ (o = {} /\ ~FullyHashed(r))
  /\ "url" \notin f => Placed(r, o)

LEMMA CanonicalTwice ==
  ASSUME NEW u \in Url, Canonical[u] # Invalid
  PROVE  Canonical[u] \in Url /\ Canonical[Canonical[u]] = Canonical[u]
BY StoreAssumption

LEMMA RowFields ==
  ASSUME NEW r \in Row
  PROVE  /\ r.url \in Url /\ r.at \in Time /\ r.payload \in Text /\ r.meta \in Text
         /\ r.payloadHash \in Text \cup {NoHash} /\ r.recordHash \in Envelopes \cup {NoHash}
         /\ r.home \in Url \cup {Invalid} /\ r.blessed \in BOOLEAN
         /\ Envelope(r) \in Envelopes /\ Envelope(r) # NoHash /\ r.payload # NoHash
         /\ r # NoRow
BY NoneAssumption DEF Row, Envelope, Envelopes

LEMMA GoodStays ==
  ASSUME NEW r, NEW f, NEW o, NEW g, NEW p, f \subseteq g, p \subseteq o, Good(r, f, o)
  PROVE  Good(r, g, p)
BY DEF Good, Placed

LEMMA HashedRow ==
  ASSUME NEW r \in Row
  PROVE  Hashed(r) = [url |-> r.url, at |-> r.at, payload |-> r.payload, meta |-> r.meta,
                      payloadHash |-> r.payload, recordHash |-> Envelope(r),
                      home |-> r.home, blessed |-> r.blessed]
<1>1. /\ r = [url |-> r.url, at |-> r.at, payload |-> r.payload, meta |-> r.meta, payloadHash |-> r.payloadHash,
               recordHash |-> r.recordHash, home |-> r.home, blessed |-> r.blessed]
      /\ DOMAIN r = {"url", "at", "payload", "meta", "payloadHash", "recordHash", "home", "blessed"}
  BY DEF Row
<1>2. Hashed(r) = [f \in DOMAIN r |-> IF f = "recordHash" THEN Envelope(r)
                                      ELSE IF f = "payloadHash" THEN r.payload ELSE r[f]]
  BY <1>1 DEF Hashed
<1> QED
  BY <1>1, <1>2

LEMMA GoodSnapshot ==
  ASSUME NEW u \in CanonicalUrl, NEW at \in Time, NEW f, NEW o
  PROVE  /\ Good(Snapshot(u, at), f, o)
         /\ Snapshot(u, at).home = u /\ Snapshot(u, at).url = u /\ Snapshot(u, at).at = at
<1> DEFINE r == Snapshot(u, at)
           e == [url |-> u, at |-> at, payload |-> "captured", meta |-> "captured"]
<1>1. u \in Url /\ Canonical[u] = u
  <2>1. PICK v \in Url : u = Canonical[v] /\ u # Invalid
    BY DEF CanonicalUrl
  <2> QED
    BY <2>1, CanonicalTwice
<1>2. r = [url |-> u, at |-> at, payload |-> "captured", meta |-> "captured",
           payloadHash |-> "captured", recordHash |-> e, home |-> u, blessed |-> FALSE]
  <2> DEFINE told == Unhashed(u, at)
  <2>1. told = [url |-> u, at |-> at, payload |-> "captured", meta |-> "captured",
                payloadHash |-> NoHash, recordHash |-> NoHash, home |-> u, blessed |-> FALSE]
    BY <1>1 DEF Unhashed
  <2> HIDE DEF told
  <2>2. told \in Row /\ Envelope(told) = e
    BY <1>1, <2>1 DEF Row, Text, Envelope
  <2>3. r = Hashed(told)
    BY DEF Snapshot, told
  <2> QED
    BY <2>1, <2>2, <2>3, HashedRow
<1> HIDE DEF r
<1>3. r \in Row
  BY <1>1, <1>2 DEF Row, Text, Envelopes
<1>4. Envelope(r) = e /\ e # NoHash /\ "captured" # NoHash
  BY <1>1, <1>2, NoneAssumption DEF Envelope, Envelopes, Text
<1>5. Sound(r) /\ Intact(r) /\ Placed(r, o)
  BY <1>1, <1>2, <1>4 DEF Sound, Verifies, Intact, Placed
<1>6. Truthful(r)
  BY <1>1, <1>2, <1>4 DEF Truthful, FullyHashed
<1>7. Good(r, f, o)
  BY <1>3, <1>5, <1>6 DEF Good
<1>8. r.home = u /\ r.url = u /\ r.at = at
  BY <1>2
<1> QED
  BY <1>7, <1>8 DEF r

LEMMA GoodBackfilled ==
  ASSUME NEW r, NEW f, NEW o, NEW p, Good(r, f, o), ~RefusedRow(r)
  PROVE  /\ Good(Backfilled(r), f, p)
         /\ Backfilled(r).home = r.home /\ Backfilled(r).at = r.at /\ Backfilled(r) # NoRow
<1> DEFINE u == Canonical[r.url]
           e == [url |-> u, at |-> r.at, payload |-> r.payload, meta |-> r.meta]
           b == Backfilled(r)
<1>1. r \in Row
  BY DEF Good
<1>2. CASE FullyHashed(r)
  BY <1>1, <1>2, RowFields DEF Backfilled, Good, Placed
<1>3. CASE ~FullyHashed(r)
  <2>1. u \in Url /\ Canonical[u] = u
    BY <1>1, <1>3, RowFields, CanonicalTwice DEF RefusedRow
  <2>2. b = [url |-> u, at |-> r.at, payload |-> r.payload, meta |-> r.meta,
             payloadHash |-> r.payload, recordHash |-> e, home |-> r.home, blessed |-> r.blessed]
    BY <1>1, <1>3 DEF Backfilled, Hashed, Canonicalized, Envelope, Row
  <2> HIDE DEF b
  <2>3. b \in Row
    BY <1>1, <2>1, <2>2, RowFields DEF Row, Envelopes
  <2>4. Envelope(b) = e /\ e # NoHash /\ r.payload # NoHash
    BY <1>1, <2>1, <2>2, RowFields, NoneAssumption DEF Envelope, Envelopes, Text
  <2>5. Sound(b)
    BY <2>1, <2>2, <2>4 DEF Sound, Verifies
  <2>6. FullyHashed(b)
    BY <2>2, <2>4 DEF FullyHashed
  <2>7. Intact(r) => Intact(b) /\ Truthful(b)
    BY <2>1, <2>2, <2>6 DEF Intact, Truthful
  <2>8. Truthful(r) => Truthful(b)
    BY <1>3, <2>2, <2>7 DEF Truthful
  <2>9. "url" \notin f => Placed(b, p)
    BY <2>1, <2>2 DEF Good, Placed
  <2>10. Good(b, f, p)
    BY <2>3, <2>5, <2>7, <2>8, <2>9 DEF Good
  <2>11. b.home = r.home /\ b.at = r.at /\ b # NoRow
    BY <2>2, <2>3, RowFields
  <2> QED
    BY <2>10, <2>11 DEF b
<1> QED
  BY <1>2, <1>3

\* What a repair writes rests on what it has read of the row, of the same page.
LEMMA GoodRepaired ==
  ASSUME NEW r, NEW read, NEW f, NEW o, o # {}, Good(r, f, o), Good(read, f, o), r.home = read.home,
         Canonical[read.url] # Invalid, Outdated(read)
  PROVE  /\ Good(RepairedRow(r, read), f, o)
         /\ RepairedRow(r, read).home = r.home /\ RepairedRow(r, read).at = r.at
         /\ RepairedRow(r, read) # NoRow
<1> DEFINE u == Canonical[read.url]
           e == [url |-> u, at |-> read.at, payload |-> read.payload, meta |-> read.meta]
           b == RepairedRow(r, read)
<1>1. r \in Row /\ read \in Row
  BY DEF Good
<1>2. u \in Url /\ Canonical[u] = u
  BY <1>1, RowFields, CanonicalTwice
<1>3. Envelope(Canonicalized(read)) = e
  BY <1>1 DEF Canonicalized, Envelope, Row
<1>4. b = [url |-> u, at |-> r.at, payload |-> r.payload, meta |-> r.meta,
           payloadHash |-> read.payload, recordHash |-> e, home |-> r.home,
           blessed |-> (r.blessed \/ ~Intact(read))]
  <2>1. b = [r EXCEPT !.url = u, !.payloadHash = read.payload, !.recordHash = e,
                      !.blessed = @ \/ ~Intact(read)]
    BY <1>3 DEF RepairedRow
  <2> HIDE DEF e, b
  <2> QED
    BY <1>1, <2>1 DEF Row
<1> HIDE DEF b
<1>5. b \in Row
  BY <1>1, <1>2, <1>4, RowFields DEF Row, Envelopes, Intact
<1>6. e # NoHash /\ read.payload # NoHash
  BY <1>1, <1>2, RowFields, NoneAssumption DEF Envelopes, Text
<1>7. FullyHashed(b)
  BY <1>4, <1>6 DEF FullyHashed
<1>8. Truthful(b)
  <2>1. CASE r.blessed \/ ~Intact(read)
    BY <1>4, <2>1 DEF Truthful
  <2>2. CASE Intact(read)
    BY <1>2, <1>4, <1>7, <2>2 DEF Truthful, Intact
  <2> QED
    BY <2>1, <2>2
<1>9. f \subseteq {"digest"} => Intact(b)
  BY <1>2, <1>4 DEF Good, Intact
<1>10. f # {}
  BY <1>1 DEF Good, Sound, Outdated
<1>11. "url" \notin f => Placed(b, o)
  BY <1>2, <1>4 DEF Good, Placed
<1>12. Good(b, f, o)
  BY <1>5, <1>8, <1>9, <1>10, <1>11 DEF Good
<1>13. b.home = r.home /\ b.at = r.at /\ b # NoRow
  BY <1>4, <1>5, RowFields
<1> QED
  BY <1>12, <1>13 DEF b

LEMMA GoodDamaged ==
  ASSUME NEW r, NEW f, NEW o, Good(r, f, o), FullyHashed(r), NEW d \in Damaged(r), d[1] \notin f
  PROVE  /\ Good(d[2], f \cup {d[1]}, o)
         /\ d[2].home = r.home /\ d[2].at = r.at /\ d[2] # NoRow
<1>1. r \in Row
  BY DEF Good
<1>2. CASE \E t \in Text : d = <<"payload", [r EXCEPT !.payload = t]>> \/ d = <<"meta", [r EXCEPT !.meta = t]>>
  <2>1. /\ d[1] \in {"payload", "meta"} /\ d[2] \in Row
        /\ d[2].url = r.url /\ d[2].home = r.home /\ d[2].at = r.at /\ d[2].blessed = r.blessed
        /\ d[2].payloadHash = r.payloadHash /\ d[2].recordHash = r.recordHash
    BY <1>1, <1>2 DEF Row
  <2>2. FullyHashed(d[2])
    BY <2>1 DEF FullyHashed
  <2> QED
    BY <2>1, <2>2, RowFields DEF Good, Truthful, Placed
<1>3. CASE \/ d = <<"digest", [r EXCEPT !.payloadHash = NoHash]>>
           \/ d = <<"digest", [r EXCEPT !.recordHash = NoHash]>>
  <2>1. /\ d[1] = "digest" /\ d[2] \in Row
        /\ d[2].url = r.url /\ d[2].home = r.home /\ d[2].at = r.at
        /\ d[2].payload = r.payload /\ d[2].meta = r.meta
    BY <1>1, <1>3 DEF Row
  <2> QED
    BY <2>1, RowFields DEF Good, Intact, Placed
<1>4. CASE \E u \in Url : d = <<"url", [r EXCEPT !.url = u]>>
  <2>1. /\ d[1] = "url" /\ d[2] \in Row
        /\ d[2].home = r.home /\ d[2].at = r.at /\ d[2].blessed = r.blessed
        /\ d[2].payloadHash = r.payloadHash /\ d[2].recordHash = r.recordHash
    BY <1>1, <1>4 DEF Row
  <2>2. FullyHashed(d[2])
    BY <2>1 DEF FullyHashed
  <2> QED
    BY <2>1, <2>2, RowFields DEF Good, Truthful
<1> QED
  BY <1>2, <1>3, <1>4 DEF Damaged, Text

-----------------------------------------------------------------------------
(* A table of rows.  An id is of one page for good, h[i], and is below n.    *)

Fits(t, h, n, f, o) ==
  /\ t \in Table
  /\ \A i \in RowId : t[i] # NoRow => i < n /\ t[i].home = h[i] /\ Good(t[i], f, o)

SameTimes(s, t) ==
  \A i \in RowId : (s[i] = NoRow <=> t[i] = NoRow) /\ (t[i] # NoRow => s[i].at = t[i].at)

\* The page of the next id is u.
Extended(h, n, u) == [i \in RowId |-> IF i = n THEN u ELSE h[i]]

Migrated(t) == [i \in RowId |-> IF t[i] = NoRow THEN NoRow ELSE Backfilled(t[i])]

RepairedTable(t, read, ids) ==
  [i \in RowId |-> IF i \in ids /\ t[i] # NoRow THEN RepairedRow(t[i], read[i]) ELSE t[i]]

LEMMA FitsStays ==
  ASSUME NEW t, NEW h, NEW n, NEW f, NEW o, Fits(t, h, n, f, o), NEW g, NEW p, f \subseteq g, p \subseteq o
  PROVE  Fits(t, h, n, g, p)
BY GoodStays DEF Fits

LEMMA FitsAnyOpen ==
  ASSUME NEW t, NEW h, NEW n, NEW f, NEW o, Fits(t, h, n, f, o), o # {}, NEW p
  PROVE  Fits(t, h, n, f, p)
BY DEF Fits, Good, Placed

LEMMA FitsNothing ==
  ASSUME NEW h, NEW n, NEW f, NEW o
  PROVE  Fits(Nothing, h, n, f, o)
BY DEF Fits, Nothing, Table

LEMMA FitsFewer ==
  ASSUME NEW t, NEW h, NEW n, NEW f, NEW o, Fits(t, h, n, f, o),
         NEW s, s = [i \in RowId |-> s[i]], \A i \in RowId : s[i] \in {t[i], NoRow}
  PROVE  Fits(s, h, n, f, o)
<1>1. \A i \in RowId : s[i] \in Row \cup {NoRow}
  BY DEF Fits, Table
<1>2. s \in Table
  BY <1>1 DEF Table
<1> QED
  BY <1>2 DEF Fits

LEMMA FitsMigrated ==
  ASSUME NEW t, NEW h, NEW n, NEW f, NEW o, NEW p, Fits(t, h, n, f, o),
         \A i \in Filled(t) : ~RefusedRow(t[i])
  PROVE  Fits(Migrated(t), h, n, f, p) /\ SameTimes(Migrated(t), t)
<1>1. \A i \in RowId : t[i] # NoRow =>
        /\ Good(Backfilled(t[i]), f, p)
        /\ Backfilled(t[i]).home = t[i].home /\ Backfilled(t[i]).at = t[i].at
        /\ Backfilled(t[i]) # NoRow /\ Backfilled(t[i]) \in Row
  BY GoodBackfilled DEF Fits, Filled, Good
<1>2. Migrated(t) \in Table
  BY <1>1 DEF Migrated, Table
<1> QED
  BY <1>1, <1>2 DEF Fits, SameTimes, Migrated

LEMMA FitsRepaired ==
  ASSUME NEW t, NEW h, NEW n, NEW f, NEW o, o # {}, NEW read, Fits(t, h, n, f, o), Fits(read, h, n, f, o),
         NEW ids \in SUBSET RowId,
         \A i \in ids : Outdated(read[i]) /\ Canonical[read[i].url] # Invalid
  PROVE  Fits(RepairedTable(t, read, ids), h, n, f, o) /\ SameTimes(RepairedTable(t, read, ids), t)
<1>1. \A i \in ids : t[i] # NoRow =>
        /\ Good(RepairedRow(t[i], read[i]), f, o)
        /\ RepairedRow(t[i], read[i]).home = t[i].home /\ RepairedRow(t[i], read[i]).at = t[i].at
        /\ RepairedRow(t[i], read[i]) # NoRow /\ RepairedRow(t[i], read[i]) \in Row
  <2> TAKE i \in ids
  <2> HAVE t[i] # NoRow
  <2>1. read[i] # NoRow /\ Outdated(read[i]) /\ Canonical[read[i].url] # Invalid
    BY DEF Outdated
  <2>2. t[i].home = read[i].home /\ Good(t[i], f, o) /\ Good(read[i], f, o)
    BY <2>1 DEF Fits
  <2>3. /\ Good(RepairedRow(t[i], read[i]), f, o)
        /\ RepairedRow(t[i], read[i]).home = t[i].home /\ RepairedRow(t[i], read[i]).at = t[i].at
        /\ RepairedRow(t[i], read[i]) # NoRow
    BY <2>1, <2>2, GoodRepaired
  <2> QED
    BY <2>3 DEF Good
<1>2. RepairedTable(t, read, ids) \in Table
  BY <1>1 DEF RepairedTable, Table, Fits
<1> QED
  BY <1>1, <1>2 DEF Fits, SameTimes, RepairedTable

LEMMA FitsExtended ==
  ASSUME NEW t, NEW h, NEW n \in RowId, NEW f, NEW o, Fits(t, h, n, f, o), NEW u
  PROVE  Fits(t, Extended(h, n, u), n + 1, f, o)
<1>1. \A i \in RowId : i < n => i < n + 1 /\ Extended(h, n, u)[i] = h[i]
  BY DEF Extended, RowId
<1> QED
  BY <1>1 DEF Fits

LEMMA FitsRecorded ==
  ASSUME NEW t, NEW h, NEW n \in RowId, NEW f, NEW o, Fits(t, h, n, f, o),
         NEW u \in CanonicalUrl, NEW at \in Time
  PROVE  Fits([t EXCEPT ![n] = Snapshot(u, at)], Extended(h, n, u), n + 1, f, o)
<1> DEFINE s == [t EXCEPT ![n] = Snapshot(u, at)]
<1>1. Good(Snapshot(u, at), f, o) /\ Snapshot(u, at).home = u /\ Snapshot(u, at) \in Row
  BY GoodSnapshot DEF Good
<1>2. s \in Table
  BY <1>1 DEF Fits, Table
<1>3. Fits(t, Extended(h, n, u), n + 1, f, o)
  BY FitsExtended
<1>4. n < n + 1 /\ Extended(h, n, u)[n] = u
  BY DEF RowId, Extended
<1>5. \A i \in RowId : s[i] = IF i = n THEN Snapshot(u, at) ELSE t[i]
  BY DEF Fits, Table
<1> HIDE DEF s
<1>6. Fits(s, Extended(h, n, u), n + 1, f, o)
  BY <1>1, <1>2, <1>3, <1>4, <1>5 DEF Fits
<1> QED
  BY <1>6 DEF s

LEMMA FitsDamaged ==
  ASSUME NEW t, NEW h, NEW n, NEW f, NEW o, Fits(t, h, n, f, o),
         NEW i \in Filled(t), FullyHashed(t[i]), NEW d \in Damaged(t[i]), d[1] \notin f
  PROVE  /\ Fits([t EXCEPT ![i] = d[2]], h, n, f \cup {d[1]}, o)
         /\ SameTimes([t EXCEPT ![i] = d[2]], t)
<1> DEFINE s == [t EXCEPT ![i] = d[2]]
<1>1. /\ Good(d[2], f \cup {d[1]}, o) /\ d[2].home = t[i].home /\ d[2].at = t[i].at
      /\ d[2] # NoRow /\ d[2] \in Row
  <2>1. Good(t[i], f, o)
    BY DEF Fits, Filled
  <2>2. /\ Good(d[2], f \cup {d[1]}, o) /\ d[2].home = t[i].home /\ d[2].at = t[i].at
        /\ d[2] # NoRow
    BY <2>1, GoodDamaged
  <2> QED
    BY <2>2 DEF Good
<1>2. Fits(t, h, n, f \cup {d[1]}, o)
  <2>1. f \subseteq f \cup {d[1]} /\ o \subseteq o
    OBVIOUS
  <2> QED
    BY <2>1, FitsStays
<1>3. \A j \in RowId : s[j] = IF j = i THEN d[2] ELSE t[j]
  BY DEF Fits, Table
<1>4. s \in Table
  BY <1>1 DEF Fits, Table
<1> HIDE DEF s
<1>5. Fits(s, h, n, f \cup {d[1]}, o) /\ SameTimes(s, t)
  BY <1>1, <1>2, <1>3, <1>4 DEF Fits, SameTimes, Filled
<1> QED
  BY <1>5 DEF s

-----------------------------------------------------------------------------
(* All tables there are: what is stored, what the writer of an open          *)
(* transaction sees, what a repair has read, and what a store sees that is    *)
(* still in the transaction of a repair that failed.                          *)

Openers == {c \in Conn : conn[c] \notin {"closed", "verified"}}

RowsFit(h) ==
  /\ Fits(table, h, nextId, faults, Openers)
  /\ Fits(draft, h, nextId, faults, Openers)
  /\ \A c \in Conn : Fits(seen[c], h, nextId, faults, Openers)
  /\ \A c \in Conn : Fits(snapshot[c], h, nextId, faults, Openers)

ConnInv ==
  /\ writer = NoConn => draft = table
  /\ writer # NoConn => writer \in Conn /\ conn[writer] \notin {"closed", "verified"}
  /\ SameTimes(draft, table)
  /\ \A c \in Conn : conn[c] # "repairing" => seen[c] = Nothing
  /\ \A c \in Conn : conn[c] # "purging" => doomed[c] = {}
  /\ \A c \in Conn : \A i \in doomed[c] : i < nextId
  /\ \A c \in Conn : left[c] # "reading" => snapshot[c] = Nothing
  /\ \A c \in Conn : left[c] # "none" => conn[c] \in {"open", "purging", "repairing"}

\* The rows a purge has chosen or that one may still choose from what its store
\* sees of an earlier file.
Old(t) == {i \in Filled(t) : Recency(t, i) >= Keep}
Chosen(c) == doomed[c] \cup Old(snapshot[c])

\* As NewestSurvivePurge, of the rows in the file.
DoomedInv ==
  "url" \notin faults =>
    \A c \in Conn : \A i \in Chosen(c) : table[i] # NoRow => Recency(table, i) >= Keep

RowsInv == StoreTypeOK /\ ConnInv /\ \E h : RowsFit(h)

LEMMA ViewFits ==
  ASSUME ConnInv, NEW h, RowsFit(h), NEW c \in Conn
  PROVE  /\ Fits(View(c), h, nextId, faults, Openers)
         /\ MayWrite(c) \/ View(c) # snapshot[c] => SameTimes(View(c), table)
BY DEF View, MayWrite, ConnInv, RowsFit, SameTimes

LEMMA ViewIsTable ==
  ASSUME RowsInv, NEW c \in Conn, conn[c] \in {"closed", "verified"}
  PROVE  View(c) = table
BY StoreAssumption DEF RowsInv, ConnInv, View

\* What a step can do to the transactions left open, and what a store can then see.
Turns(c) ==
  \/ Settle(c) \/ Fix(c) \/ UNCHANGED <<left, snapshot>>
  \/ left' = [left EXCEPT ![c] = IF @ = "none" THEN "begun" ELSE @] /\ UNCHANGED snapshot

LEMMA TurnsKeep ==
  ASSUME RowsInv, NEW c \in Conn, Turns(c)
  PROVE  /\ left' \in [Conn -> {"none", "begun", "reading"}] /\ snapshot' \in [Conn -> Table]
         /\ \A d \in Conn : \/ snapshot'[d] = Nothing
                            \/ left[d] # "none" /\ snapshot'[d] \in {snapshot[d], table}
         /\ \A d \in Conn : left'[d] # "reading" => snapshot'[d] = Nothing
         /\ \A d \in Conn : d # c => left'[d] = left[d]
<1>1. /\ left \in [Conn -> {"none", "begun", "reading"}] /\ snapshot \in [Conn -> Table]
      /\ Nothing \in Table /\ table \in Table
      /\ \A d \in Conn : left[d] # "reading" => snapshot[d] = Nothing
  BY DEF RowsInv, StoreTypeOK, ConnInv, Nothing, Table
<1>2. CASE Settle(c)
  <2>1. left' = [left EXCEPT ![c] = "none"] /\ snapshot' = [snapshot EXCEPT ![c] = Nothing]
    BY <1>2 DEF Settle
  <2>2. left' \in [Conn -> {"none", "begun", "reading"}] /\ snapshot' \in [Conn -> Table]
    BY <1>1, <2>1
  <2>3. \A d \in Conn : \/ d = c /\ left'[d] = "none" /\ snapshot'[d] = Nothing
                        \/ d # c /\ left'[d] = left[d] /\ snapshot'[d] = snapshot[d]
    BY <1>1, <2>1
  <2>4. ASSUME NEW d \in Conn, left[d] = "none" PROVE snapshot[d] = Nothing
    BY <1>1, <2>4
  <2>5. \A d \in Conn : \/ snapshot'[d] = Nothing
                        \/ left[d] # "none" /\ snapshot'[d] \in {snapshot[d], table}
    BY <2>3, <2>4
  <2>6. \A d \in Conn : left'[d] # "reading" => snapshot'[d] = Nothing
    BY <1>1, <2>3
  <2>7. \A d \in Conn : d # c => left'[d] = left[d]
    BY <2>3
  <2> QED
    BY <2>2, <2>5, <2>6, <2>7
<1>3. CASE Fix(c)
  BY <1>1, <1>3 DEF Fix
<1>4. CASE UNCHANGED <<left, snapshot>>
  BY <1>1, <1>4
<1>5. CASE left' = [left EXCEPT ![c] = IF @ = "none" THEN "begun" ELSE @] /\ UNCHANGED snapshot
  BY <1>1, <1>5
<1> QED
  BY <1>2, <1>3, <1>4, <1>5 DEF Turns

LEMMA SnapshotsFit ==
  ASSUME RowsInv, NEW c \in Conn, Turns(c), NEW h, RowsFit(h), faults \subseteq faults'
  PROVE  \A d \in Conn : Fits(snapshot'[d], h, nextId, faults', Openers')
<1> TAKE d \in Conn
<1>1. CASE snapshot'[d] = Nothing
  BY <1>1, FitsNothing
<1>2. CASE left[d] # "none" /\ snapshot'[d] \in {snapshot[d], table}
  <2>1. Openers # {}
    BY <1>2 DEF RowsInv, ConnInv, Openers
  <2>2. Fits(snapshot'[d], h, nextId, faults, Openers)
    BY <1>2 DEF RowsFit
  <2>3. Fits(snapshot'[d], h, nextId, faults, Openers')
    BY <2>1, <2>2, FitsAnyOpen
  <2> QED
    BY <2>3, FitsStays
<1> QED
  BY <1>1, <1>2, TurnsKeep

LEMMA SameTimesItself ==
  ASSUME NEW t
  PROVE  SameTimes(t, t)
BY DEF SameTimes

LEMMA RowsAreFinite ==
  ASSUME NEW S \in SUBSET RowId
  PROVE  IsFiniteSet(S)
<1>1. 1 \in Int /\ MaxId \in Int
  BY StoreAssumption
<1>2. IsFiniteSet(RowId)
  BY <1>1, FS_Interval DEF RowId
<1> QED
  BY <1>2, FS_Subset

LEMMA RowsInit == StoreInit => RowsInv
<1> SUFFICES ASSUME StoreInit PROVE RowsInv
  OBVIOUS
<1>1. PICK rows \in SUBSET RowId :
        /\ \A i \in rows : \A j \in 1..i : j \in rows
        /\ Cardinality(rows) < MaxId
        /\ Cardinality(rows) <= MaxLegacy
        /\ nextId = Cardinality(rows) + 1
        /\ \E legacy \in [rows -> LegacyRows] :
             table = [i \in RowId |-> IF i \in rows THEN legacy[i] ELSE NoRow]
  BY DEF StoreInit
<1>2. PICK legacy \in [rows -> LegacyRows] :
        table = [i \in RowId |-> IF i \in rows THEN legacy[i] ELSE NoRow]
  BY <1>1
<1>3. /\ writer = NoConn /\ draft = table /\ conn = [c \in Conn |-> "closed"]
      /\ seen = [c \in Conn |-> Nothing] /\ doomed = [c \in Conn |-> {}]
      /\ check = [c \in Conn |-> "none"] /\ faults = {}
      /\ left = [c \in Conn |-> "none"] /\ snapshot = [c \in Conn |-> Nothing]
  BY DEF StoreInit
<1>4. \A i \in rows : i < nextId
  <2> TAKE i \in rows
  <2>1. i \in Nat /\ i \in Int /\ 1 \in Int /\ 1..i \subseteq rows
    BY <1>1 DEF RowId
  <2>2. IsFiniteSet(rows)
    BY RowsAreFinite
  <2>3. Cardinality(1..i) <= Cardinality(rows) /\ Cardinality(rows) \in Nat
    BY <2>1, <2>2, FS_Subset, FS_CardinalityType
  <2>4. Cardinality(1..i) = i
    BY <2>1, FS_Interval DEF RowId
  <2> QED
    BY <1>1, <2>1, <2>3, <2>4 DEF RowId
<1>5. nextId \in 1..(MaxId + 1)
  <2>1. Cardinality(rows) \in Nat
    BY RowsAreFinite, FS_CardinalityType
  <2> QED
    BY <1>1, <2>1, StoreAssumption
<1>6. \A r \in LegacyRows : Good(r, {}, {}) /\ r # NoRow
  <2> TAKE r \in LegacyRows
  <2>1. PICK u \in Url : r = Unhashed(u, 0) \/ r = [Unhashed(u, 0) EXCEPT !.payloadHash = "captured"]
    BY DEF LegacyRows
  <2>2. PICK p \in {"captured", NoHash} :
          r = [url |-> u, at |-> 0, payload |-> "captured", meta |-> "captured",
               payloadHash |-> p, recordHash |-> NoHash, home |-> Canonical[u], blessed |-> FALSE]
    BY <2>1 DEF Unhashed
  <2>3. r \in Row
    BY <2>2, StoreAssumption DEF Row, Text, Time
  <2>4. ~FullyHashed(r) /\ Intact(r) /\ r.home = Canonical[r.url]
    BY <2>2 DEF FullyHashed, Intact
  <2> QED
    BY <2>3, <2>4, NoneAssumption DEF Good, Truthful, Placed
<1>7. Openers = {}
  BY <1>3 DEF Openers
<1>8. table \in Table
  <2>1. \A i \in rows : legacy[i] \in LegacyRows
    BY <1>2
  <2>2. \A i \in rows : legacy[i] \in Row
    BY <1>6, <2>1 DEF Good
  <2> QED
    BY <1>2, <2>2 DEF Table
<1> DEFINE h == [i \in RowId |-> table[i].home]
<1>9. Fits(table, h, nextId, faults, Openers)
  <2>1. \A i \in RowId : table[i] # NoRow => i < nextId /\ Good(table[i], {}, {})
    <3> TAKE i \in RowId
    <3> HAVE table[i] # NoRow
    <3>1. i \in rows /\ table[i] = legacy[i]
      BY <1>2
    <3>2. legacy[i] \in LegacyRows
      BY <1>2, <3>1
    <3> QED
      BY <1>4, <1>6, <3>1, <3>2
  <2>2. Fits(table, h, nextId, {}, {})
    BY <1>8, <2>1 DEF Fits
  <2> QED
    BY <1>3, <1>7, <2>2
<1>10. RowsFit(h)
  BY <1>3, <1>9, FitsNothing DEF RowsFit
<1>11. ConnInv
  BY <1>3, SameTimesItself DEF ConnInv
<1>12. Nothing \in Table
  BY DEF Nothing, Table
<1>13. StoreTypeOK
  BY <1>3, <1>5, <1>8, <1>12 DEF StoreTypeOK
<1> QED
  BY <1>10, <1>11, <1>13 DEF RowsInv

-----------------------------------------------------------------------------
(* The steps.                                                               *)

\* What a step that ends a transaction with the table t has to keep.
LEMMA CommitKeeps ==
  ASSUME RowsInv, NEW t, Commit(t), NEW h, Fits(t, h, nextId', faults', Openers'),
         \A c \in Conn : Fits(seen'[c], h, nextId', faults', Openers'),
         NEW d \in Conn, Turns(d), left'[d] = "none", \A c \in Conn \ {d} : conn'[c] = conn[c],
         \A c \in Conn : Fits(snapshot'[c], h, nextId', faults', Openers'),
         nextId' \in nextId..(MaxId + 1),
         conn' \in [Conn -> {"closed", "open", "purging", "repairing", "verified", "checking", "drift"}],
         seen' \in [Conn -> Table], doomed' \in [Conn -> SUBSET RowId],
         check' = check, faults' = faults,
         \A c \in Conn : conn'[c] # "repairing" => seen'[c] = Nothing,
         \A c \in Conn : doomed'[c] \subseteq doomed[c] /\ (conn'[c] # "purging" => doomed'[c] = {})
  PROVE  RowsInv'
<1>1. table' = t /\ draft' = t /\ writer' = NoConn
  BY DEF Commit
<1>2. RowsFit(h)'
  BY <1>1 DEF RowsFit
<1>3. \A c \in Conn : \A i \in doomed'[c] : i < nextId'
  <2> TAKE c \in Conn
  <2> TAKE i \in doomed'[c]
  <2>1. i \in RowId /\ i < nextId /\ nextId \in Nat /\ nextId' \in Nat /\ nextId <= nextId'
    BY StoreAssumption DEF RowsInv, ConnInv, StoreTypeOK
  <2> QED
    BY <2>1 DEF RowId
<1>4. ConnInv'
  <2>1. \A c \in Conn : left'[c] # "none" => conn'[c] \in {"open", "purging", "repairing"}
    BY TurnsKeep DEF RowsInv, ConnInv
  <2> QED
    BY <1>1, <1>3, <2>1, SameTimesItself, TurnsKeep DEF ConnInv
<1>5. StoreTypeOK'
  <2>1. table' \in Table /\ nextId' \in 1..(MaxId + 1)
    BY <1>1, StoreAssumption DEF Fits, RowsInv, StoreTypeOK
  <2> QED
    BY <1>1, <2>1, TurnsKeep DEF RowsInv, StoreTypeOK
<1> QED
  BY <1>2, <1>4, <1>5 DEF RowsInv

LEMMA SettledTurn ==
  ASSUME RowsInv, NEW c \in Conn, Settle(c)
  PROVE  Turns(c) /\ left'[c] = "none"
BY DEF RowsInv, StoreTypeOK, Settle, Turns

LEMMA RecordKeeps ==
  ASSUME RowsInv, NEW c \in Conn, Record(c)
  PROVE  RowsInv'
<1>1. PICK h : RowsFit(h)
  BY DEF RowsInv
<1>2. PICK u \in CanonicalUrl, at \in Time :
        Commit([View(c) EXCEPT ![nextId] = Snapshot(u, at)])
  BY DEF Record
<1>3. /\ nextId \in RowId /\ nextId' = nextId + 1
      /\ UNCHANGED <<conn, seen, doomed, check, faults>> /\ Settle(c)
  BY DEF Record
<1>4. Openers' = Openers
  BY <1>3 DEF Openers
<1>5. Fits([View(c) EXCEPT ![nextId] = Snapshot(u, at)], Extended(h, nextId, u), nextId', faults', Openers')
  <2>1. Fits(View(c), h, nextId, faults, Openers)
    BY <1>1, ViewFits DEF RowsInv
  <2> QED
    BY <1>3, <1>4, <2>1, FitsRecorded
<1>6. \A d \in Conn : Fits(seen'[d], Extended(h, nextId, u), nextId', faults', Openers')
  BY <1>1, <1>3, <1>4, FitsExtended DEF RowsFit
<1>7. nextId' \in nextId..(MaxId + 1)
  BY <1>3, StoreAssumption DEF RowId
<1>8. Turns(c) /\ left'[c] = "none"
  BY <1>3, SettledTurn
<1>9. \A d \in Conn : Fits(snapshot'[d], Extended(h, nextId, u), nextId', faults', Openers')
  <2>1. \A d \in Conn : Fits(snapshot'[d], h, nextId, faults', Openers')
    BY <1>1, <1>3, <1>8, SnapshotsFit
  <2> QED
    BY <1>3, <2>1, FitsExtended
<1> QED
  BY <1>2, <1>3, <1>5, <1>6, <1>7, <1>8, <1>9, CommitKeeps DEF RowsInv, ConnInv, StoreTypeOK

LEMMA DeleteKeeps ==
  ASSUME RowsInv, NEW c \in Conn, Delete(c)
  PROVE  RowsInv'
<1>1. PICK h : RowsFit(h)
  BY DEF RowsInv
<1>2. PICK u \in CanonicalUrl :
        Commit([i \in RowId |-> IF View(c)[i] # NoRow /\ View(c)[i].url = u THEN NoRow ELSE View(c)[i]])
  BY DEF Delete
<1>3. UNCHANGED <<nextId, conn, seen, doomed, check, faults>> /\ Settle(c)
  BY DEF Delete
<1>4. Openers' = Openers
  BY <1>3 DEF Openers
<1> DEFINE t == [i \in RowId |-> IF View(c)[i] # NoRow /\ View(c)[i].url = u THEN NoRow ELSE View(c)[i]]
<1>5. Fits(t, h, nextId', faults', Openers')
  <2>1. Fits(View(c), h, nextId, faults, Openers)
    BY <1>1, ViewFits DEF RowsInv
  <2>2. t = [i \in RowId |-> t[i]] /\ \A i \in RowId : t[i] \in {View(c)[i], NoRow}
    OBVIOUS
  <2> HIDE DEF t
  <2> QED
    BY <1>3, <1>4, <2>1, <2>2, FitsFewer
<1>6. \A d \in Conn : Fits(seen'[d], h, nextId', faults', Openers')
  BY <1>1, <1>3, <1>4 DEF RowsFit
<1>7. nextId' \in nextId..(MaxId + 1)
  BY <1>3, StoreAssumption DEF RowsInv, StoreTypeOK
<1> HIDE DEF t
<1>8. Commit(t)
  BY <1>2 DEF t
<1>9. Turns(c) /\ left'[c] = "none"
  BY <1>3, SettledTurn
<1>10. \A d \in Conn : Fits(snapshot'[d], h, nextId', faults', Openers')
  BY <1>1, <1>3, <1>9, SnapshotsFit
<1> QED
  BY <1>3, <1>5, <1>6, <1>7, <1>8, <1>9, <1>10, CommitKeeps DEF RowsInv, ConnInv, StoreTypeOK

\* A transaction that is left, has read, or ends with nothing written.
LEMMA TurnsAlone ==
  ASSUME RowsInv, NEW c \in Conn, conn[c] = "open", Turns(c),
         UNCHANGED <<table, nextId, writer, draft, conn, seen, doomed, check, faults>>
  PROVE  RowsInv'
<1>1. PICK h : RowsFit(h)
  BY DEF RowsInv
<1>2. Openers' = Openers
  BY DEF Openers
<1>3. \A d \in Conn : Fits(snapshot'[d], h, nextId', faults', Openers')
  BY <1>1, SnapshotsFit
<1>4. RowsFit(h)'
  BY <1>1, <1>2, <1>3 DEF RowsFit
<1>5. ConnInv' /\ StoreTypeOK'
  BY TurnsKeep DEF RowsInv, ConnInv, StoreTypeOK
<1> QED
  BY <1>4, <1>5 DEF RowsInv

LEMMA PurgeDeleteKeeps ==
  ASSUME RowsInv, NEW c \in Conn, PurgeDelete(c)
  PROVE  RowsInv'
<1>1. PICK h : RowsFit(h)
  BY DEF RowsInv
<1>2. /\ conn[c] = "purging" /\ conn' = [conn EXCEPT ![c] = "open"]
      /\ doomed' = [doomed EXCEPT ![c] = {}]
      /\ UNCHANGED <<nextId, seen, check, faults>> /\ Settle(c)
  BY DEF PurgeDelete, Go
<1>3. Openers' = Openers
  BY <1>2 DEF Openers, RowsInv, StoreTypeOK
<1>4. \A d \in Conn : Fits(seen'[d], h, nextId', faults', Openers')
  BY <1>1, <1>2, <1>3 DEF RowsFit
<1>5. /\ conn' \in [Conn -> {"closed", "open", "purging", "repairing", "verified", "checking", "drift"}]
      /\ doomed' \in [Conn -> SUBSET RowId]
      /\ \A d \in Conn : conn'[d] # "repairing" => seen'[d] = Nothing
      /\ \A d \in Conn : doomed'[d] \subseteq doomed[d] /\ (conn'[d] # "purging" => doomed'[d] = {})
  BY <1>2 DEF RowsInv, ConnInv, StoreTypeOK
<1> DEFINE t == [i \in RowId |-> IF i \in doomed[c] THEN NoRow ELSE View(c)[i]]
<1>8. Turns(c) /\ left'[c] = "none" /\ \A d \in Conn \ {c} : conn'[d] = conn[d]
  BY <1>2, SettledTurn DEF RowsInv, StoreTypeOK
<1>9. \A d \in Conn : Fits(snapshot'[d], h, nextId', faults', Openers')
  BY <1>1, <1>2, <1>8, SnapshotsFit
<1>6. CASE Commit(t)
  <2>1. Fits(t, h, nextId', faults', Openers')
    <3>1. Fits(View(c), h, nextId, faults, Openers)
      BY <1>1, ViewFits DEF RowsInv
    <3>2. t = [i \in RowId |-> t[i]] /\ \A i \in RowId : t[i] \in {View(c)[i], NoRow}
      OBVIOUS
    <3> HIDE DEF t
    <3> QED
      BY <1>2, <1>3, <3>1, <3>2, FitsFewer
  <2>3. nextId' \in nextId..(MaxId + 1)
    BY <1>2, StoreAssumption DEF RowsInv, StoreTypeOK
  <2> HIDE DEF t
  <2> QED
    BY <1>2, <1>4, <1>5, <1>6, <1>8, <1>9, <2>1, <2>3, CommitKeeps DEF RowsInv, StoreTypeOK
<1>7. CASE UNCHANGED <<table, writer, draft>>
  <2>2. RowsFit(h)'
    BY <1>1, <1>2, <1>3, <1>4, <1>7, <1>9 DEF RowsFit
  <2>3. ConnInv'
    BY <1>2, <1>5, <1>7, <1>8, TurnsKeep DEF RowsInv, ConnInv, StoreTypeOK
  <2> QED
    BY <1>2, <1>5, <1>7, <1>8, <2>2, <2>3, TurnsKeep DEF RowsInv, StoreTypeOK
<1> QED
  BY <1>6, <1>7 DEF PurgeDelete

\* A store that opens gives every row its place.
LEMMA OpenKeeps ==
  ASSUME RowsInv, NEW c \in Conn, NEW from \in {"closed", "verified"}, NEW to \in {"open", "checking"},
         Go(c, from, to), Migrate, UNCHANGED <<nextId, left, snapshot, seen, doomed, check, faults>>
  PROVE  RowsInv'
<1>1. PICK h : RowsFit(h)
  BY DEF RowsInv
<1>2. /\ Commit(Migrated(table)) /\ \A i \in Filled(table) : ~RefusedRow(table[i])
      /\ conn[c] = from /\ conn' = [conn EXCEPT ![c] = to]
  BY DEF Migrate, Migrated, Go
<1>3. Fits(Migrated(table), h, nextId', faults', Openers')
  BY <1>1, <1>2, FitsMigrated DEF RowsFit
<1>4. \A d \in Conn : Fits(seen'[d], h, nextId', faults', Openers')
  <2> TAKE d \in Conn
  <2>1. CASE conn[d] = "repairing"
    <3>1. d \in Openers /\ \A e \in Openers' : e \in Openers \/ e = c
      BY <1>2, <2>1 DEF Openers, RowsInv, StoreTypeOK
    <3>2. Fits(seen[d], h, nextId, faults, Openers) /\ Openers # {}
      BY <1>1, <3>1 DEF RowsFit
    <3>3. Fits(seen[d], h, nextId, faults, Openers')
      BY <3>2, FitsAnyOpen
    <3> QED
      BY <3>3
  <2>2. CASE conn[d] # "repairing"
    BY <2>2, FitsNothing DEF RowsInv, ConnInv
  <2> QED
    BY <2>1, <2>2
<1>5. nextId' \in nextId..(MaxId + 1)
  BY StoreAssumption DEF RowsInv, StoreTypeOK
<1>6. /\ conn' \in [Conn -> {"closed", "open", "purging", "repairing", "verified", "checking", "drift"}]
      /\ \A d \in Conn : conn'[d] # "repairing" => seen'[d] = Nothing
      /\ \A d \in Conn : doomed'[d] \subseteq doomed[d] /\ (conn'[d] # "purging" => doomed'[d] = {})
  BY <1>2 DEF RowsInv, ConnInv, StoreTypeOK
<1>7. Turns(c) /\ left'[c] = "none" /\ \A d \in Conn \ {c} : conn'[d] = conn[d]
  BY <1>2 DEF Turns, RowsInv, ConnInv, StoreTypeOK
<1>8. \A d \in Conn : Fits(snapshot'[d], h, nextId', faults', Openers')
  BY <1>1, <1>7, SnapshotsFit
<1> QED
  BY <1>2, <1>3, <1>4, <1>5, <1>6, <1>7, <1>8, CommitKeeps DEF RowsInv, StoreTypeOK

LEMMA PurgeReadKeeps ==
  ASSUME RowsInv, NEW c \in Conn, PurgeRead(c)
  PROVE  RowsInv'
<1>1. PICK h : RowsFit(h)
  BY DEF RowsInv
<1>2. PICK cutoff \in Time, scope \in {Url} \cup {{u} : u \in CanonicalUrl} :
        doomed' = [doomed EXCEPT ![c] = Expired(View(c), scope, cutoff)]
  BY DEF PurgeRead
<1>3. /\ conn[c] = "open" /\ conn' = [conn EXCEPT ![c] = "purging"]
      /\ UNCHANGED <<table, nextId, writer, draft, seen, check, faults>> /\ Turns(c)
  BY DEF PurgeRead, Go, Turns
<1>4. Openers' = Openers
  BY <1>3 DEF Openers, RowsInv, StoreTypeOK
<1>5. RowsFit(h)'
  <2>1. \A d \in Conn : Fits(snapshot'[d], h, nextId', faults', Openers')
    BY <1>1, <1>3, SnapshotsFit
  <2> QED
    BY <1>1, <1>3, <1>4, <2>1 DEF RowsFit
<1>6. Expired(View(c), scope, cutoff) \subseteq {i \in RowId : i < nextId}
  BY <1>1, ViewFits DEF Expired, Filled, Fits, RowsInv
<1>7. /\ doomed' \in [Conn -> SUBSET RowId]
      /\ \A d \in Conn : \A i \in doomed'[d] : i < nextId'
      /\ \A d \in Conn : conn'[d] # "purging" => doomed'[d] = {}
  BY <1>2, <1>3, <1>6 DEF RowsInv, ConnInv, StoreTypeOK
<1>8. \A d \in Conn : left'[d] # "none" => conn'[d] \in {"open", "purging", "repairing"}
  BY <1>3, TurnsKeep DEF RowsInv, ConnInv, StoreTypeOK
<1>9. ConnInv'
  BY <1>3, <1>7, <1>8, TurnsKeep DEF RowsInv, ConnInv, StoreTypeOK
<1>10. StoreTypeOK'
  BY <1>3, <1>7, TurnsKeep DEF RowsInv, StoreTypeOK
<1> QED
  BY <1>5, <1>9, <1>10 DEF RowsInv

LEMMA RepairReadKeeps ==
  ASSUME RowsInv, NEW c \in Conn, RepairRead(c)
  PROVE  RowsInv'
<1>1. PICK h : RowsFit(h)
  BY DEF RowsInv
<1>2. /\ conn[c] = "open" /\ conn' = [conn EXCEPT ![c] = "repairing"]
      /\ seen' = [seen EXCEPT ![c] = View(c)]
      /\ UNCHANGED <<table, nextId, writer, draft, doomed, check, faults>> /\ Turns(c)
  BY DEF RepairRead, Go, Turns
<1>3. Openers' = Openers
  BY <1>2 DEF Openers, RowsInv, StoreTypeOK
<1>4. Fits(View(c), h, nextId, faults, Openers)
  BY <1>1, ViewFits DEF RowsInv
<1>5. \A d \in Conn : seen'[d] = IF d = c THEN View(c) ELSE seen[d]
  BY <1>2 DEF RowsInv, StoreTypeOK
<1>6. RowsFit(h)'
  <2>1. \A d \in Conn : Fits(snapshot'[d], h, nextId', faults', Openers')
    BY <1>1, <1>2, SnapshotsFit
  <2> QED
    BY <1>1, <1>2, <1>3, <1>4, <1>5, <2>1 DEF RowsFit
<1>7. View(c) \in Table
  BY <1>4 DEF Fits
<1>8. ConnInv' /\ StoreTypeOK'
  BY <1>2, <1>7, TurnsKeep DEF RowsInv, ConnInv, StoreTypeOK
<1> QED
  BY <1>6, <1>8 DEF RowsInv

\* What a repair updates, it has read of that row, and nothing before a row that
\* raises does.
LEMMA RepairFits ==
  ASSUME RowsInv, NEW c \in Conn, RepairWrite(c), NEW h, RowsFit(h)
  PROVE  \E t : /\ Fits(t, h, nextId, faults, Openers) /\ SameTimes(t, table) /\ Turns(c)
                /\ \/ Commit(t) /\ Settle(c)
                   \/ writer' = c /\ draft' = t /\ UNCHANGED table /\ Settle(c)
                   \/ UNCHANGED <<table, writer, draft>>
<1> DEFINE raising == {i \in Filled(seen[c]) : Canonical[seen[c][i].url] = Invalid}
           updated == {i \in RowId : Outdated(seen[c][i]) /\ \A j \in raising : i < j}
           t == Repaired(c, updated)
<1>1. Openers # {}
  BY DEF RepairWrite, Go, Openers
<1>2. /\ \/ Commit(t) /\ MayWrite(c) /\ Settle(c)
         \/ writer' = c /\ draft' = t /\ UNCHANGED table /\ MayWrite(c) /\ Settle(c)
         \/ UNCHANGED <<table, writer, draft>>
      /\ Turns(c)
  BY DEF RepairWrite, Turns
<1>9. CASE UNCHANGED <<table, writer, draft>>
  BY <1>2, <1>9, SameTimesItself DEF RowsFit
<1>3. Fits(View(c), h, nextId, faults, Openers) /\ (MayWrite(c) => SameTimes(View(c), table))
  BY ViewFits DEF RowsInv
<1>4. \A i \in updated : Outdated(seen[c][i]) /\ Canonical[seen[c][i].url] # Invalid
  <2> TAKE i \in updated
  <2>1. i \in RowId /\ Outdated(seen[c][i]) /\ i \in Filled(seen[c])
    BY DEF Outdated, Filled
  <2>2. i \notin raising
    BY DEF RowId
  <2> QED
    BY <2>1, <2>2
<1>5. Fits(seen[c], h, nextId, faults, Openers)
  BY DEF RowsFit
<1>6. t = RepairedTable(View(c), seen[c], updated) /\ updated \in SUBSET RowId
  BY DEF Repaired, RepairedTable
<1> HIDE DEF raising, updated, t
<1>7. Fits(t, h, nextId, faults, Openers) /\ SameTimes(t, View(c))
  BY <1>1, <1>3, <1>4, <1>5, <1>6, FitsRepaired
<1>8. MayWrite(c) => SameTimes(t, table)
  BY <1>3, <1>7 DEF SameTimes
<1> QED
  BY <1>2, <1>7, <1>8, <1>9

LEMMA RepairWriteKeeps ==
  ASSUME RowsInv, NEW c \in Conn, RepairWrite(c)
  PROVE  RowsInv'
<1>1. PICK h : RowsFit(h)
  BY DEF RowsInv
<1>2. /\ conn[c] = "repairing" /\ conn' = [conn EXCEPT ![c] = "open"]
      /\ seen' = [seen EXCEPT ![c] = Nothing]
      /\ UNCHANGED <<nextId, doomed, check, faults>>
  BY DEF RepairWrite, Go
<1>3. Openers' = Openers /\ Openers # {}
  BY <1>2 DEF Openers, RowsInv, StoreTypeOK
<1>4. \A d \in Conn : seen'[d] = IF d = c THEN Nothing ELSE seen[d]
  BY <1>2 DEF RowsInv, StoreTypeOK
<1>5. \A d \in Conn : Fits(seen'[d], h, nextId', faults', Openers')
  BY <1>1, <1>2, <1>3, <1>4, FitsNothing DEF RowsFit
<1>6. Nothing \in Table
  BY DEF Nothing, Table
<1>7. /\ conn' \in [Conn -> {"closed", "open", "purging", "repairing", "verified", "checking", "drift"}]
      /\ seen' \in [Conn -> Table]
      /\ \A d \in Conn : conn'[d] # "repairing" => seen'[d] = Nothing
      /\ \A d \in Conn : doomed'[d] \subseteq doomed[d] /\ (conn'[d] # "purging" => doomed'[d] = {})
  BY <1>2, <1>6 DEF RowsInv, ConnInv, StoreTypeOK
<1>8. PICK t : /\ Fits(t, h, nextId, faults, Openers) /\ SameTimes(t, table) /\ Turns(c)
               /\ \/ Commit(t) /\ Settle(c)
                  \/ writer' = c /\ draft' = t /\ UNCHANGED table /\ Settle(c)
                  \/ UNCHANGED <<table, writer, draft>>
  BY <1>1, RepairFits
<1>9. Fits(t, h, nextId', faults', Openers')
  BY <1>2, <1>3, <1>8
<1>13. \A d \in Conn : Fits(snapshot'[d], h, nextId', faults', Openers')
  BY <1>1, <1>2, <1>8, SnapshotsFit
<1>14. \A d \in Conn \ {c} : conn'[d] = conn[d]
  BY <1>2 DEF RowsInv, StoreTypeOK
<1>10. CASE Commit(t) /\ Settle(c)
  <2>1. nextId' \in nextId..(MaxId + 1)
    BY <1>2, StoreAssumption DEF RowsInv, StoreTypeOK
  <2> QED
    BY <1>2, <1>5, <1>7, <1>9, <1>10, <1>13, <1>14, <2>1, SettledTurn, CommitKeeps DEF RowsInv, StoreTypeOK
<1>11. CASE writer' = c /\ draft' = t /\ UNCHANGED table
  <2>1. RowsFit(h)'
    BY <1>1, <1>2, <1>3, <1>5, <1>9, <1>11, <1>13 DEF RowsFit
  <2>2. c # NoConn /\ conn'[c] = "open"
    BY <1>2, StoreAssumption DEF RowsInv, StoreTypeOK
  <2>3. ConnInv'
    BY <1>2, <1>7, <1>8, <1>11, <1>14, <2>2, TurnsKeep DEF RowsInv, ConnInv
  <2>4. t \in Table
    BY <1>8 DEF Fits
  <2> QED
    BY <1>2, <1>7, <1>8, <1>11, <2>1, <2>3, <2>4, TurnsKeep DEF RowsInv, StoreTypeOK
<1>12. CASE UNCHANGED <<table, writer, draft>>
  <2>1. RowsFit(h)'
    BY <1>1, <1>2, <1>3, <1>5, <1>12, <1>13 DEF RowsFit
  <2>2. ConnInv'
    BY <1>2, <1>7, <1>8, <1>12, TurnsKeep DEF RowsInv, ConnInv, StoreTypeOK
  <2> QED
    BY <1>2, <1>7, <1>8, <1>12, <2>1, <2>2, TurnsKeep DEF RowsInv, StoreTypeOK
<1> QED
  BY <1>8, <1>10, <1>11, <1>12

LEMMA LeaveKeeps ==
  ASSUME RowsInv, NEW c \in Conn, Leave(c)
  PROVE  RowsInv'
<1>1. PICK h : RowsFit(h)
  BY DEF RowsInv
<1>2. /\ conn' = [conn EXCEPT ![c] = "closed"] /\ doomed' = [doomed EXCEPT ![c] = {}]
      /\ seen' = [seen EXCEPT ![c] = Nothing] /\ check' = [check EXCEPT ![c] = "none"]
      /\ UNCHANGED <<table, nextId, faults>> /\ Settle(c)
  BY DEF Leave
<1>3. \/ writer = c /\ writer' = NoConn /\ draft' = table
      \/ writer # c /\ UNCHANGED <<writer, draft>>
  BY DEF Leave
<1>4. Openers' \subseteq Openers
  BY <1>2 DEF Openers, RowsInv, StoreTypeOK
<1>5. /\ Fits(table, h, nextId, faults, Openers') /\ Fits(draft, h, nextId, faults, Openers')
      /\ \A d \in Conn : Fits(seen[d], h, nextId, faults, Openers')
  BY <1>1, <1>4, FitsStays DEF RowsFit
<1>6. \A d \in Conn : seen'[d] = IF d = c THEN Nothing ELSE seen[d]
  BY <1>2 DEF RowsInv, StoreTypeOK
<1>11. Turns(c) /\ left'[c] = "none"
  BY <1>2, SettledTurn
<1>12. \A d \in Conn : Fits(snapshot'[d], h, nextId', faults', Openers')
  BY <1>1, <1>2, <1>11, SnapshotsFit
<1>7. RowsFit(h)'
  BY <1>2, <1>3, <1>5, <1>6, <1>12, FitsNothing DEF RowsFit
<1>8. Nothing \in Table
  BY DEF Nothing, Table
<1>9. ConnInv'
  BY <1>2, <1>3, <1>11, SameTimesItself, TurnsKeep DEF RowsInv, ConnInv, StoreTypeOK
<1>10. StoreTypeOK'
  BY <1>2, <1>3, <1>8, <1>11, TurnsKeep DEF RowsInv, StoreTypeOK
<1> QED
  BY <1>7, <1>9, <1>10 DEF RowsInv

LEMMA DriftKeeps ==
  ASSUME RowsInv, NEW c \in Conn, VerifyUntampered(c) \/ CheckDrift(c)
  PROVE  RowsInv'
<1>1. PICK h : RowsFit(h)
  BY DEF RowsInv
<1>2. /\ \/ conn[c] = "closed" /\ conn' = [conn EXCEPT ![c] = "verified"]
         \/ conn[c] = "checking" /\ conn' = [conn EXCEPT ![c] = "drift"]
      /\ check' \in [Conn -> {"none", "ok", "failed"}]
      /\ UNCHANGED <<table, nextId, writer, draft, left, snapshot, seen, doomed, faults>>
  BY DEF VerifyUntampered, CheckDrift, Go, RowsInv, StoreTypeOK
<1>3. Openers' = Openers
  BY <1>2 DEF Openers, RowsInv, StoreTypeOK
<1>4. RowsFit(h)'
  BY <1>1, <1>2, <1>3 DEF RowsFit
<1>5. ConnInv'
  BY <1>2 DEF RowsInv, ConnInv, StoreTypeOK
<1>6. StoreTypeOK'
  BY <1>2 DEF RowsInv, StoreTypeOK
<1> QED
  BY <1>4, <1>5, <1>6 DEF RowsInv

LEMMA DamageKeeps ==
  ASSUME RowsInv, Damage
  PROVE  RowsInv'
<1>1. PICK h : RowsFit(h)
  BY DEF RowsInv
<1>2. PICK i \in Filled(table) : \E d \in Damaged(table[i]) :
        /\ FullyHashed(table[i])
        /\ d[1] \notin faults
        /\ table' = [table EXCEPT ![i] = d[2]]
        /\ draft' = table'
        /\ faults' = faults \cup {d[1]}
  BY DEF Damage
<1>3. PICK d \in Damaged(table[i]) :
        /\ FullyHashed(table[i])
        /\ d[1] \notin faults
        /\ table' = [table EXCEPT ![i] = d[2]]
        /\ draft' = table'
        /\ faults' = faults \cup {d[1]}
  BY <1>2
<1>4. writer = NoConn /\ UNCHANGED <<nextId, writer, left, snapshot, conn, seen, doomed, check>>
  BY DEF Damage
<1>5. Openers' = Openers /\ faults \subseteq faults'
  BY <1>3, <1>4 DEF Openers
<1>6. Fits(table', h, nextId', faults', Openers')
  BY <1>1, <1>3, <1>4, <1>5, FitsDamaged DEF RowsFit
<1>7. \A c \in Conn : /\ Fits(seen'[c], h, nextId', faults', Openers')
                      /\ Fits(snapshot'[c], h, nextId', faults', Openers')
  BY <1>1, <1>4, <1>5, FitsStays DEF RowsFit
<1>8. RowsFit(h)'
  BY <1>3, <1>6, <1>7 DEF RowsFit
<1>9. ConnInv'
  BY <1>3, <1>4, SameTimesItself DEF RowsInv, ConnInv
<1>10. d[1] \in {"payload", "meta", "url", "digest"}
  BY DEF Damaged
<1>11. table' \in Table
  BY <1>6 DEF Fits
<1>12. StoreTypeOK'
  BY <1>3, <1>4, <1>10, <1>11 DEF RowsInv, StoreTypeOK
<1> QED
  BY <1>8, <1>9, <1>12 DEF RowsInv

LEMMA RowsStep == RowsInv /\ [StoreNext]_storeVars => RowsInv'
<1> SUFFICES ASSUME RowsInv, [StoreNext]_storeVars PROVE RowsInv'
  OBVIOUS
<1>1. ASSUME NEW c \in Conn, Open(c) \/ OpenDrift(c) PROVE RowsInv'
  BY <1>1, OpenKeeps DEF Open, OpenDrift
<1>2. ASSUME NEW c \in Conn, Record(c) \/ Delete(c) \/ PurgeRead(c) \/ PurgeDelete(c) PROVE RowsInv'
  BY <1>2, RecordKeeps, DeleteKeeps, PurgeReadKeeps, PurgeDeleteKeeps
<1>3. ASSUME NEW c \in Conn, RepairRead(c) \/ RepairWrite(c) \/ Leave(c) PROVE RowsInv'
  BY <1>3, RepairReadKeeps, RepairWriteKeeps, LeaveKeeps
<1>4. ASSUME NEW c \in Conn, VerifyUntampered(c) \/ CheckDrift(c) PROVE RowsInv'
  BY <1>4, DriftKeeps
<1>7. ASSUME NEW c \in Conn, WriteFails(c) \/ Read(c) PROVE RowsInv'
  BY <1>7, TurnsAlone DEF WriteFails, Read, Turns
<1>5. CASE Damage
  BY <1>5, DamageKeeps
<1>6. CASE UNCHANGED storeVars
  BY <1>6 DEF storeVars, RowsInv, StoreTypeOK, ConnInv, RowsFit, Openers
<1> QED
  BY <1>1, <1>2, <1>3, <1>4, <1>5, <1>6, <1>7 DEF StoreNext

-----------------------------------------------------------------------------
(* The digests.                                                             *)

LEMMA VerifiedIsIntact ==
  ASSUME NEW r, NEW f, NEW o, Good(r, f, o), "digest" \notin f \/ f = {"digest"}, Verifies(r)
  PROVE  Intact(r) \/ r.blessed
<1>1. /\ r.payloadHash = r.payload /\ r.recordHash = Envelope(r)
      /\ r.payload # NoHash /\ Envelope(r) # NoHash
  BY RowFields DEF Good, Verifies
<1>2. FullyHashed(r)
  BY <1>1 DEF FullyHashed
<1>3. CASE "digest" \notin f
  <2>1. Truthful(r)
    BY <1>3 DEF Good
  <2>2. Envelope(r).payload = r.payload /\ Envelope(r).meta = r.meta /\ Envelope(r).url = r.url
    BY DEF Envelope
  <2> QED
    BY <1>1, <1>2, <2>1, <2>2 DEF Truthful, Intact
<1>4. CASE f = {"digest"}
  BY <1>4 DEF Good
<1> QED
  BY <1>3, <1>4

LEMMA DigestsHold == RowsInv => DigestsTellTheTruth
<1> SUFFICES ASSUME RowsInv PROVE DigestsTellTheTruth
  OBVIOUS
<1>1. PICK h : RowsFit(h)
  BY DEF RowsInv
<1>2. ASSUME "digest" \notin faults \/ faults = {"digest"}, NEW i \in RowId,
             NEW t \in {table} \cup {View(c) : c \in Conn}, t[i] # NoRow, Verifies(t[i])
      PROVE  Intact(t[i]) \/ t[i].blessed
  <2>2. Fits(t, h, nextId, faults, Openers)
    BY <1>1, ViewFits DEF RowsFit, RowsInv
  <2>1. Good(t[i], faults, Openers)
    BY <1>2, <2>2 DEF Fits
  <2> QED
    BY <1>2, <2>1, VerifiedIsIntact
<1>3. ASSUME faults = {}, NEW c \in {d \in Conn : conn[d] \notin {"closed", "verified"}},
             NEW t \in {table, View(c)}, NEW i \in Filled(t)
      PROVE  Verifies(t[i])
  <2>1. Openers # {}
    BY <1>3 DEF Openers
  <2>3. Fits(t, h, nextId, faults, Openers)
    BY <1>1, <1>3, ViewFits DEF RowsFit, RowsInv
  <2>2. Good(t[i], faults, Openers)
    BY <1>3, <2>3 DEF Fits, Filled
  <2> QED
    BY <1>3, <2>1, <2>2 DEF Good, Sound
<1>4. ASSUME "url" \notin faults, NEW c \in {d \in Conn : conn[d] \in {"open", "drift"}}, NEW u \in CanonicalUrl
      PROVE  {i \in Filled(View(c)) : View(c)[i].home = u /\
                Cardinality({j \in Filled(View(c)) : View(c)[j].home = u /\ Newer(View(c), j, i)}) < 2}
               = LatestOf(View(c), u, 2)
  <2> DEFINE t == View(c)
             ahead(i) == {j \in Filled(t) : t[j].home = u /\ Newer(t, j, i)}
  <2>1. \A i \in Filled(t) : t[i].url = t[i].home
    <3>1. Fits(t, h, nextId, faults, Openers) /\ Openers # {}
      BY <1>1, <1>4, ViewFits DEF RowsInv, Openers
    <3> QED
      BY <1>4, <3>1 DEF Fits, Filled, Good, Placed
  <2> HIDE DEF t
  <2>2. \A i \in Filled(t) : t[i].url = u => Recency(t, i) = Cardinality(ahead(i))
    <3> TAKE i \in Filled(t)
    <3> HAVE t[i].url = u
    <3>1. ahead(i) = {j \in Filled(t) : t[j].url = t[i].url /\ Newer(t, j, i)}
      BY <2>1
    <3> QED
      BY <3>1 DEF Recency
  <2>3. {i \in Filled(t) : t[i].home = u /\ Cardinality(ahead(i)) < 2} = LatestOf(t, u, 2)
    <3> HIDE DEF ahead
    <3> QED
      BY <2>1, <2>2 DEF LatestOf
  <2> QED
    BY <2>3 DEF t
<1> QED
  BY <1>2, <1>3, <1>4 DEF DigestsTellTheTruth

-----------------------------------------------------------------------------
(* What a purge has chosen.                                                 *)

\* The rows of the series of i that are newer.
Ahead(t, i) == {j \in Filled(t) : t[j].url = t[i].url /\ Newer(t, j, i)}

SameSeries(s, t) ==
  /\ Filled(s) = Filled(t)
  /\ \A i \in Filled(t) : s[i].url = t[i].url /\ s[i].at = t[i].at

LEMMA SameRecency ==
  ASSUME NEW s, NEW t, SameSeries(s, t), NEW i \in Filled(t)
  PROVE  Recency(s, i) = Recency(t, i)
<1>1. Ahead(s, i) = Ahead(t, i)
  BY DEF Ahead, SameSeries, Newer
<1> QED
  BY <1>1 DEF Recency, Ahead

LEMMA MoreRecent ==
  ASSUME NEW s, NEW t, NEW i, NEW j, Ahead(s, i) \subseteq Ahead(t, j)
  PROVE  Recency(s, i) \in Nat /\ Recency(t, j) \in Nat /\ Recency(s, i) <= Recency(t, j)
<1>1. Ahead(s, i) \in SUBSET RowId /\ Ahead(t, j) \in SUBSET RowId
  BY DEF Ahead, Filled
<1>2. IsFiniteSet(Ahead(s, i)) /\ IsFiniteSet(Ahead(t, j))
  BY <1>1, RowsAreFinite
<1>3. Cardinality(Ahead(s, i)) \in Nat /\ Cardinality(Ahead(t, j)) \in Nat
  BY <1>2, FS_CardinalityType
<1>4. Cardinality(Ahead(s, i)) <= Cardinality(Ahead(t, j))
  BY <1>2, FS_Subset
<1> QED
  BY <1>3, <1>4 DEF Recency, Ahead

\* The library's well-founded induction gives a least element.
LEMMA LeastOfNaturals ==
  ASSUME NEW S \in SUBSET Nat, S # {}
  PROVE  \E n \in S : \A m \in S : n <= m
<1>1. PICK n \in S : \A m \in S : ~ (<<m, n>> \in OpToRel(<, Nat))
  BY NatLessThanWellFounded, WFMin
<1>2. \A m \in S : ~ (m < n)
  BY <1>1 DEF OpToRel
<1> QED
  BY <1>2

\* Newer orders the rows of one table.
LEMMA NewerIsAnOrder ==
  ASSUME NEW t \in Table, NEW i \in Filled(t), NEW j \in Filled(t), NEW k \in Filled(t)
  PROVE  /\ Newer(t, i, j) /\ Newer(t, j, k) => Newer(t, i, k)
         /\ ~Newer(t, i, i)
<1>1. /\ t[i].at \in Nat /\ t[j].at \in Nat /\ t[k].at \in Nat
      /\ i \in Nat /\ j \in Nat /\ k \in Nat
  BY StoreAssumption DEF Table, Filled, Row, Time, RowId
<1> QED
  BY <1>1 DEF Newer

\* Whoever is ahead of a row has fewer rows ahead.
LEMMA AheadIsNewer ==
  ASSUME NEW t \in Table, NEW i \in Filled(t), NEW j \in Ahead(t, i)
  PROVE  Ahead(t, j) \subseteq Ahead(t, i) /\ Recency(t, j) < Recency(t, i)
<1>1. j \in Filled(t) /\ t[j].url = t[i].url /\ Newer(t, j, i)
  BY DEF Ahead
<1>2. Ahead(t, j) \subseteq Ahead(t, i)
  <2> SUFFICES ASSUME NEW k \in Ahead(t, j) PROVE k \in Ahead(t, i)
    OBVIOUS
  <2>1. k \in Filled(t) /\ t[k].url = t[j].url /\ Newer(t, k, j)
    BY DEF Ahead
  <2>2. Newer(t, k, i)
    BY <1>1, <2>1, NewerIsAnOrder
  <2> QED
    BY <1>1, <2>1, <2>2 DEF Ahead
<1>3. j \notin Ahead(t, j)
  BY <1>1, NewerIsAnOrder DEF Ahead
<1>4. IsFiniteSet(Ahead(t, i)) /\ IsFiniteSet(Ahead(t, j))
  BY RowsAreFinite DEF Ahead, Filled
<1>5. Cardinality(Ahead(t, j)) \in Nat /\ Cardinality(Ahead(t, i)) \in Nat
  BY <1>4, FS_CardinalityType
<1>6. Cardinality(Ahead(t, j)) <= Cardinality(Ahead(t, i)) /\ Cardinality(Ahead(t, j)) # Cardinality(Ahead(t, i))
  BY <1>2, <1>3, <1>4, FS_Subset
<1>7. Recency(t, j) = Cardinality(Ahead(t, j)) /\ Recency(t, i) = Cardinality(Ahead(t, i))
  BY DEF Recency, Ahead
<1> QED
  BY <1>2, <1>5, <1>6, <1>7

\* Taking rows away of which each had Keep rows ahead leaves Keep rows ahead of
\* every row that had them: the newest of those that went, and of the row itself,
\* had Keep ahead of it and none of them went.
LEMMA SurvivorsKeepTheirRank ==
  ASSUME NEW t \in Table, NEW gone \in SUBSET RowId, NEW s,
         s = [k \in RowId |-> IF k \in gone THEN NoRow ELSE t[k]],
         \A k \in gone : t[k] # NoRow => Recency(t, k) >= Keep,
         NEW i \in Filled(s), Recency(t, i) >= Keep
  PROVE  Recency(s, i) >= Keep
<1>1. i \in Filled(t) /\ i \notin gone /\ s[i] = t[i]
  BY DEF Filled
<1> DEFINE affected == {i} \cup (gone \cap Ahead(t, i))
           ranks == {Recency(t, k) : k \in affected}
<1>2. affected \subseteq Filled(t)
  BY <1>1 DEF Ahead
<1>3. \A k \in Filled(t) : Recency(t, k) \in Nat
  BY MoreRecent
<1>4. ranks \in SUBSET Nat /\ ranks # {}
  BY <1>2, <1>3
<1>5. PICK n \in ranks : \A m \in ranks : n <= m
  BY <1>4, LeastOfNaturals
<1>6. PICK k \in affected : n = Recency(t, k)
  BY <1>5
<1>7. Recency(t, k) >= Keep /\ Ahead(t, k) \subseteq Ahead(t, i) /\ k \in Filled(t)
  <2>1. CASE k = i
    BY <1>1, <2>1
  <2>2. CASE k \in gone \cap Ahead(t, i)
    BY <1>1, <1>2, <2>2, AheadIsNewer DEF Filled
  <2> QED
    BY <1>6, <2>1, <2>2
<1>8. Ahead(t, k) \cap gone = {}
  <2> SUFFICES ASSUME NEW j \in Ahead(t, k), j \in gone PROVE FALSE
    OBVIOUS
  <2>1. j \in affected /\ Recency(t, j) < Recency(t, k)
    BY <1>7, AheadIsNewer
  <2>2. Recency(t, j) \in ranks /\ Recency(t, j) \in Nat /\ Recency(t, k) \in Nat
    BY <1>2, <1>3, <1>6, <2>1
  <2> QED
    BY <1>5, <1>6, <2>1, <2>2
<1>9. Ahead(t, k) \subseteq Ahead(s, i)
  <2> SUFFICES ASSUME NEW j \in Ahead(t, k) PROVE j \in Ahead(s, i)
    OBVIOUS
  <2>1. j \in Ahead(t, i) /\ j \notin gone /\ j \in RowId
    BY <1>7, <1>8 DEF Ahead, Filled
  <2>2. s[j] = t[j]
    BY <2>1
  <2> QED
    BY <1>1, <2>1, <2>2 DEF Ahead, Filled, Newer
<1>10. Recency(t, k) <= Recency(s, i) /\ Recency(t, k) \in Nat /\ Recency(s, i) \in Nat
  BY <1>9, MoreRecent
<1> QED
  BY <1>7, <1>10, StoreAssumption

LEMMA PlacedSeries ==
  ASSUME NEW s, NEW t, NEW h, NEW m, NEW n, NEW f, NEW o, NEW p,
         Fits(s, h, m, f, o), Fits(t, h, n, f, p), o # {}, p # {}, "url" \notin f, SameTimes(s, t)
  PROVE  SameSeries(s, t)
BY DEF Fits, Good, Placed, SameTimes, SameSeries, Filled

LEMMA ViewSeries ==
  ASSUME RowsInv, "url" \notin faults, NEW c \in Conn, conn[c] \notin {"closed", "verified"},
         MayWrite(c) \/ View(c) # snapshot[c]
  PROVE  SameSeries(View(c), table) /\ View(c) \in Table
<1>1. PICK h : RowsFit(h)
  BY DEF RowsInv
<1>2. Fits(View(c), h, nextId, faults, Openers) /\ SameTimes(View(c), table) /\ Openers # {}
  BY <1>1, ViewFits DEF RowsInv, Openers
<1>3. Fits(table, h, nextId, faults, Openers)
  BY <1>1 DEF RowsFit
<1>4. SameSeries(View(c), table)
  BY <1>2, <1>3, PlacedSeries
<1> QED
  BY <1>2, <1>4 DEF Fits

LEMMA ChosenStays ==
  ASSUME RowsInv, NEW c \in Conn, Settle(c) \/ UNCHANGED snapshot,
         NEW d \in Conn, doomed'[d] \subseteq doomed[d], NEW i \in Chosen(d)'
  PROVE  i \in Chosen(d)
<1>1. Old(Nothing) = {}
  BY DEF Old, Filled, Nothing
<1>2. snapshot'[d] \in {Nothing, snapshot[d]}
  BY DEF RowsInv, StoreTypeOK, Settle
<1> QED
  BY <1>1, <1>2 DEF Chosen

LEMMA ChosenRows ==
  ASSUME RowsInv, NEW c \in Conn, NEW i \in Chosen(c)
  PROVE  i \in RowId /\ i < nextId /\ Openers # {}
<1>1. PICK h : RowsFit(h)
  BY DEF RowsInv
<1>2. CASE i \in doomed[c]
  BY <1>2 DEF RowsInv, ConnInv, StoreTypeOK, Openers
<1>3. CASE i \in Old(snapshot[c])
  <2>1. i \in RowId /\ i < nextId
    BY <1>1, <1>3 DEF Old, Filled, RowsFit, Fits
  <2>2. snapshot[c] # Nothing
    BY <1>3 DEF Old, Filled, Nothing
  <2> QED
    BY <2>1, <2>2 DEF RowsInv, ConnInv, Openers
<1> QED
  BY <1>2, <1>3 DEF Chosen

\* Where the series stand still, so does what was chosen.
LEMMA StillDoomed ==
  ASSUME RowsInv, DoomedInv, faults \subseteq faults', NEW c \in Conn, Settle(c) \/ UNCHANGED snapshot,
         \A d \in Conn : doomed'[d] \subseteq doomed[d],
         "url" \notin faults' /\ Openers # {} => SameSeries(table', table)
  PROVE  DoomedInv'
<1> SUFFICES ASSUME "url" \notin faults', NEW d \in Conn, NEW i \in Chosen(d)', table'[i] # NoRow
             PROVE  Recency(table', i) >= Keep
  BY DEF DoomedInv
<1>1. i \in Chosen(d)
  BY ChosenStays
<1>2. i \in RowId /\ SameSeries(table', table)
  BY <1>1, ChosenRows
<1>3. i \in Filled(table)
  BY <1>2 DEF SameSeries, Filled
<1>4. Recency(table', i) = Recency(table, i)
  BY <1>2, <1>3, SameRecency
<1> QED
  BY <1>1, <1>3, <1>4 DEF DoomedInv, Filled

\* A store that reads, in a transaction that was left open or outside one, may
\* choose what is old in what it sees.
LEMMA DoomedByReading ==
  ASSUME RowsInv, DoomedInv, NEW c \in Conn, conn[c] = "open", Fix(c), UNCHANGED <<table, faults>>,
         \A d \in Conn : \A i \in doomed'[d] : i \in doomed[d] \/ (d = c /\ i \in Old(View(c)))
  PROVE  DoomedInv'
<1> SUFFICES ASSUME "url" \notin faults, NEW d \in Conn, NEW i \in Chosen(d)', table[i] # NoRow
             PROVE  Recency(table, i) >= Keep
  BY DEF DoomedInv
<1>1. CASE i \in Chosen(d)
  BY <1>1 DEF DoomedInv
<1>2. CASE i \in Old(table)
  BY <1>2 DEF Old
<1>3. CASE d = c /\ i \in Old(View(c))
  <2>1. CASE View(c) = snapshot[c]
    BY <1>1, <1>3, <2>1 DEF Chosen
  <2>2. CASE View(c) # snapshot[c]
    <3>1. i \in Filled(View(c)) /\ Recency(View(c), i) >= Keep
      BY <1>3 DEF Old
    <3>2. SameSeries(View(c), table)
      BY <2>2, ViewSeries
    <3>3. Recency(View(c), i) = Recency(table, i)
      BY <3>1, <3>2, SameRecency DEF SameSeries
    <3> QED
      BY <3>1, <3>3
  <2> QED
    BY <2>1, <2>2
<1>4. i \in doomed'[d] \/ i \in Old(snapshot'[d])
  BY DEF Chosen
<1>5. snapshot'[d] \in {snapshot[d], table}
  BY DEF Fix, RowsInv, StoreTypeOK
<1> QED
  BY <1>1, <1>2, <1>3, <1>4, <1>5 DEF Chosen

\* Where rows are added or go whole series at a time, what was ahead stays.
LEMMA DoomedByRecordOrDelete ==
  ASSUME RowsInv, DoomedInv, NEW c \in Conn, Record(c) \/ Delete(c)
  PROVE  DoomedInv'
<1>1. /\ UNCHANGED <<conn, doomed, faults>> /\ conn[c] \in {"open", "drift"}
      /\ Settle(c) /\ MayWrite(c)
  BY DEF Record, Delete
<1> SUFFICES ASSUME "url" \notin faults, NEW d \in Conn, NEW i \in Chosen(d)', table'[i] # NoRow
             PROVE  Recency(table', i) >= Keep
  BY <1>1 DEF DoomedInv
<1>9. i \in Chosen(d)
  BY <1>1, ChosenStays
<1> DEFINE t == View(c)
<1>2. i \in RowId /\ i < nextId
  BY <1>9, ChosenRows
<1>3. SameSeries(t, table) /\ t \in Table
  BY <1>1, ViewSeries
<1>4. \A j \in Filled(t) : j < nextId
  <2>1. PICK h : RowsFit(h)
    BY DEF RowsInv
  <2> QED
    BY <2>1, ViewFits DEF RowsInv, Fits, Filled
<1> HIDE DEF t
<1>5. i \in Filled(t) /\ Ahead(t, i) \subseteq Ahead(table', i)
  <2>1. CASE Record(c)
    <3>1. PICK u \in CanonicalUrl, at \in Time : table' = [t EXCEPT ![nextId] = Snapshot(u, at)]
      BY <2>1 DEF Record, Commit, t
    <3>2. nextId \in Nat
      BY StoreAssumption DEF RowsInv, StoreTypeOK
    <3>3. \A j \in RowId : j < nextId => table'[j] = t[j]
      BY <1>3, <3>1, <3>2 DEF Table, RowId
    <3> QED
      BY <1>2, <1>4, <3>3 DEF Ahead, Filled, Newer
  <2>2. CASE Delete(c)
    <3>1. PICK u \in CanonicalUrl :
            table' = [j \in RowId |-> IF t[j] # NoRow /\ t[j].url = u THEN NoRow ELSE t[j]]
      BY <2>2 DEF Delete, Commit, t
    <3> QED
      BY <1>2, <3>1 DEF Ahead, Filled, Newer
  <2> QED
    BY <2>1, <2>2
<1>6. Recency(t, i) <= Recency(table', i) /\ Recency(t, i) \in Nat /\ Recency(table', i) \in Nat
  BY <1>5, MoreRecent
<1>7. i \in Filled(table) /\ Recency(t, i) = Recency(table, i)
  BY <1>3, <1>5, SameRecency DEF SameSeries
<1>8. Recency(table, i) >= Keep
  BY <1>7, <1>9 DEF DoomedInv, Filled
<1> QED
  BY <1>6, <1>7, <1>8, StoreAssumption

LEMMA DoomedByPurgeRead ==
  ASSUME RowsInv, DoomedInv, NEW c \in Conn, PurgeRead(c)
  PROVE  DoomedInv'
<1>1. /\ UNCHANGED <<table, faults>> /\ conn[c] = "open" /\ Fix(c)
      /\ doomed \in [Conn -> SUBSET RowId]
  BY DEF PurgeRead, Go, RowsInv, StoreTypeOK
<1>2. PICK cutoff \in Time, scope \in {Url} \cup {{u} : u \in CanonicalUrl} :
        doomed' = [doomed EXCEPT ![c] = Expired(View(c), scope, cutoff)]
  BY DEF PurgeRead
<1>3. Expired(View(c), scope, cutoff) \subseteq Old(View(c))
  BY DEF Expired, Old
<1>4. \A d \in Conn : \A i \in doomed'[d] : i \in doomed[d] \/ (d = c /\ i \in Old(View(c)))
  <2> TAKE d \in Conn
  <2>1. doomed'[d] = IF d = c THEN Expired(View(c), scope, cutoff) ELSE doomed[d]
    BY <1>1, <1>2
  <2> HIDE DEF Expired, Old
  <2> QED
    BY <1>3, <2>1
<1> QED
  BY <1>1, <1>4, DoomedByReading

LEMMA DoomedByPurgeDelete ==
  ASSUME RowsInv, DoomedInv, NEW c \in Conn, PurgeDelete(c)
  PROVE  DoomedInv'
<1>1. /\ UNCHANGED faults /\ conn[c] = "purging" /\ Settle(c)
      /\ doomed' = [doomed EXCEPT ![c] = {}]
      /\ doomed \in [Conn -> SUBSET RowId]
  BY DEF PurgeDelete, Go, RowsInv, StoreTypeOK
<1> SUFFICES ASSUME "url" \notin faults, NEW d \in Conn, NEW i \in Chosen(d)', table'[i] # NoRow
             PROVE  Recency(table', i) >= Keep
  BY <1>1 DEF DoomedInv
<1>2. i \in Chosen(d) /\ i \in RowId
  <2>1. doomed'[d] \subseteq doomed[d]
    BY <1>1
  <2> QED
    BY <1>1, <2>1, ChosenStays, ChosenRows
<1>3. CASE UNCHANGED table
  BY <1>2, <1>3 DEF DoomedInv
<1>4. CASE MayWrite(c) /\ table' = [k \in RowId |-> IF k \in doomed[c] THEN NoRow ELSE View(c)[k]]
  <2> DEFINE t == View(c)
  <2>1. SameSeries(t, table) /\ t \in Table
    BY <1>1, <1>4, ViewSeries
  <2> HIDE DEF t
  <2>2. \A e \in Conn : \A k \in Chosen(e) : t[k] # NoRow => Recency(t, k) >= Keep
    <3> TAKE e \in Conn
    <3> TAKE k \in Chosen(e)
    <3> HAVE t[k] # NoRow
    <3>1. k \in Filled(t)
      BY ChosenRows DEF Filled
    <3>2. k \in Filled(table) /\ Recency(t, k) = Recency(table, k)
      BY <2>1, <3>1, SameRecency DEF SameSeries
    <3> QED
      BY <3>2 DEF DoomedInv, Filled
  <2>3. i \in Filled(table')
    BY <1>2 DEF Filled
  <2>4. i \in Filled(t)
    BY <1>4, <2>3 DEF Filled, t
  <2>5. Recency(t, i) >= Keep
    BY <1>2, <2>2, <2>4 DEF Filled
  <2>6. table' = [k \in RowId |-> IF k \in doomed[c] THEN NoRow ELSE t[k]] /\ doomed[c] \in SUBSET RowId
    BY <1>1, <1>4 DEF t
  <2>7. \A k \in doomed[c] : t[k] # NoRow => Recency(t, k) >= Keep
    BY <2>2 DEF Chosen
  <2> QED
    BY <2>1, <2>3, <2>5, <2>6, <2>7, SurvivorsKeepTheirRank
<1> QED
  BY <1>3, <1>4 DEF PurgeDelete, Commit

LEMMA DoomedStep == RowsInv /\ DoomedInv /\ [StoreNext]_storeVars => DoomedInv'
<1> SUFFICES ASSUME RowsInv, DoomedInv, [StoreNext]_storeVars PROVE DoomedInv'
  OBVIOUS
<1>1. PICK h : RowsFit(h)
  BY DEF RowsInv
<1>3. SameSeries(table, table)
  BY DEF SameSeries
<1>4. ASSUME NEW c \in Conn, Open(c) \/ OpenDrift(c) PROVE DoomedInv'
  <2>1. /\ table' = Migrated(table) /\ \A i \in Filled(table) : ~RefusedRow(table[i])
        /\ UNCHANGED <<doomed, faults, snapshot>>
    BY <1>4 DEF Open, OpenDrift, Migrate, Commit, Migrated
  <2>2. Fits(table', h, nextId, faults, Openers) /\ SameTimes(table', table)
    BY <1>1, <2>1, FitsMigrated DEF RowsFit
  <2>3. "url" \notin faults /\ Openers # {} => SameSeries(table', table)
    BY <1>1, <2>2, PlacedSeries DEF RowsFit
  <2> QED
    BY <1>4, <2>1, <2>3, StillDoomed
<1>5. ASSUME NEW c \in Conn, RepairWrite(c) PROVE DoomedInv'
  <2>1. PICK t : /\ Fits(t, h, nextId, faults, Openers) /\ SameTimes(t, table)
                 /\ \/ Commit(t) /\ Settle(c)
                    \/ writer' = c /\ draft' = t /\ UNCHANGED table /\ Settle(c)
                    \/ UNCHANGED <<table, writer, draft>>
    BY <1>1, <1>5, RepairFits
  <2>2. UNCHANGED <<doomed, faults>> /\ table' \in {t, table} /\ (Settle(c) \/ UNCHANGED snapshot)
    BY <1>5, <2>1 DEF RepairWrite, Commit
  <2>3. "url" \notin faults /\ Openers # {} => SameSeries(t, table)
    BY <1>1, <2>1, PlacedSeries DEF RowsFit
  <2> QED
    BY <1>3, <1>5, <2>2, <2>3, StillDoomed
<1>6. CASE Damage
  <2>1. UNCHANGED <<doomed, snapshot>>
    BY <1>6 DEF Damage
  <2>2. PICK i \in Filled(table) : \E d \in Damaged(table[i]) :
          /\ FullyHashed(table[i])
          /\ d[1] \notin faults
          /\ table' = [table EXCEPT ![i] = d[2]]
          /\ draft' = table'
          /\ faults' = faults \cup {d[1]}
    BY <1>6 DEF Damage
  <2>3. PICK d \in Damaged(table[i]) :
          /\ FullyHashed(table[i])
          /\ d[1] \notin faults
          /\ table' = [table EXCEPT ![i] = d[2]]
          /\ draft' = table'
          /\ faults' = faults \cup {d[1]}
    BY <2>2
  <2>4. Fits(table', h, nextId, faults', Openers) /\ SameTimes(table', table) /\ faults \subseteq faults'
    BY <1>1, <2>3, FitsDamaged DEF RowsFit
  <2>5. Fits(table, h, nextId, faults', Openers)
    BY <1>1, <2>4, FitsStays DEF RowsFit
  <2>6. "url" \notin faults' /\ Openers # {} => SameSeries(table', table)
    BY <2>4, <2>5, PlacedSeries
  <2>7. CASE Conn = {}
    BY <2>7 DEF DoomedInv
  <2>8. ASSUME NEW c \in Conn PROVE DoomedInv'
    BY <2>1, <2>4, <2>6, <2>8, StillDoomed
  <2> QED
    BY <2>7, <2>8
<1>7. ASSUME NEW c \in Conn, Leave(c) \/ VerifyUntampered(c) \/ CheckDrift(c) \/ WriteFails(c) PROVE DoomedInv'
  <2>1. UNCHANGED <<table, faults>> /\ (Settle(c) \/ UNCHANGED snapshot)
    BY <1>7 DEF Leave, VerifyUntampered, CheckDrift, WriteFails
  <2>2. \A d \in Conn : doomed'[d] \subseteq doomed[d]
    BY <1>7 DEF Leave, VerifyUntampered, CheckDrift, WriteFails, RowsInv, StoreTypeOK
  <2> QED
    BY <1>3, <1>7, <2>1, <2>2, StillDoomed
<1>10. ASSUME NEW c \in Conn, RepairRead(c) \/ Read(c) PROVE DoomedInv'
  <2>1. conn[c] = "open" /\ Fix(c) /\ UNCHANGED <<table, faults, doomed>>
    BY <1>10 DEF RepairRead, Read, Go
  <2>2. \A d \in Conn : \A i \in doomed'[d] : i \in doomed[d]
    BY <2>1
  <2> QED
    BY <1>10, <2>1, <2>2, DoomedByReading
<1>8. ASSUME NEW c \in Conn, Record(c) \/ Delete(c) \/ PurgeRead(c) \/ PurgeDelete(c) PROVE DoomedInv'
  BY <1>8, DoomedByRecordOrDelete, DoomedByPurgeRead, DoomedByPurgeDelete
<1>9. CASE UNCHANGED storeVars
  BY <1>9 DEF storeVars, DoomedInv, Chosen
<1> QED
  BY <1>4, <1>5, <1>6, <1>7, <1>8, <1>9, <1>10 DEF StoreNext

\* What verifies was not altered, or a confirmed repair took it over; nothing the
\* stores do by themselves leaves a row that does not verify; a comparison is of the
\* two newest snapshots of its page; and no purge takes one of the newest of a
\* series, whatever others do between its reading and its deletion
\* (evidence_store.py:205-309, evidence_integrity.py:77-117, evidence_migrations.py:51-133).
THEOREM StoreStaysTruthful == StoreSpec => []StoreIsTruthful
<1>1. StoreInit => DoomedInv
  BY DEF StoreInit, DoomedInv, Chosen, Old, Filled, Nothing
<1>2. DoomedInv => NewestSurvivePurge
  BY DEF DoomedInv, NewestSurvivePurge, Chosen
<1>3. RowsInv /\ DoomedInv => StoreIsTruthful
  BY <1>2, DigestsHold DEF StoreIsTruthful
<1> QED
  BY RowsInit, RowsStep, DoomedStep, <1>1, <1>3, PTL DEF StoreSpec

\* Every table keeps its type, for any number of stores and rows.
THEOREM StoreTypeCorrect == StoreSpec => []StoreTypeOK
<1>1. RowsInv => StoreTypeOK
  BY DEF RowsInv
<1> QED
  BY RowsInit, RowsStep, <1>1, PTL DEF StoreSpec


-----------------------------------------------------------------------------
(* Elements of a set in their order.                                       *)

Below(S, u) == {v \in S : v < u}

LEMMA RanksAreDistinct ==
  ASSUME NEW S, IsFiniteSet(S), S \subseteq Int
  PROVE  \A u, w \in S : /\ Cardinality(Below(S, u)) \in 0..(Cardinality(S) - 1)
                         /\ Cardinality(Below(S, u)) = Cardinality(Below(S, w)) => u = w
<1>1. Cardinality(S) \in Nat
  BY FS_CardinalityType
<1>2. ASSUME NEW u \in S
      PROVE  /\ IsFiniteSet(Below(S, u)) /\ Cardinality(Below(S, u)) \in Nat
             /\ Cardinality(Below(S, u) \cup {u}) = Cardinality(Below(S, u)) + 1
             /\ IsFiniteSet(Below(S, u) \cup {u})
             /\ Cardinality(Below(S, u)) + 1 <= Cardinality(S)
  <2>1. Below(S, u) \in SUBSET S /\ Below(S, u) \cup {u} \in SUBSET S
    BY DEF Below
  <2>2. IsFiniteSet(Below(S, u)) /\ Cardinality(Below(S, u)) \in Nat
    BY <2>1, FS_Subset, FS_CardinalityType
  <2>3. u \in Int /\ u \notin Below(S, u)
    BY DEF Below
  <2>4. Cardinality(Below(S, u) \cup {u}) = Cardinality(Below(S, u)) + 1
    BY <2>2, <2>3, FS_AddElement
  <2> QED
    BY <2>1, <2>2, <2>4, FS_Subset
<1>3. ASSUME NEW u \in S, NEW w \in S, u < w
      PROVE  Cardinality(Below(S, u)) < Cardinality(Below(S, w))
  <2>1. Below(S, u) \cup {u} \in SUBSET Below(S, w)
    <3>1. u \in Int /\ w \in Int
      OBVIOUS
    <3>2. ASSUME NEW v \in S, v < u PROVE v < w
      <4>1. v \in Int
        OBVIOUS
      <4> QED
        BY <1>3, <3>1, <3>2, <4>1
    <3> QED
      BY <1>3, <3>2 DEF Below
  <2>2. IsFiniteSet(Below(S, w)) /\ Cardinality(Below(S, w)) \in Nat
    BY <1>2
  <2>3. Cardinality(Below(S, u) \cup {u}) <= Cardinality(Below(S, w))
    BY <2>1, <2>2, FS_Subset
  <2>4. Cardinality(Below(S, u)) \in Nat /\ Cardinality(Below(S, u) \cup {u}) = Cardinality(Below(S, u)) + 1
    BY <1>2
  <2> QED
    BY <2>2, <2>3, <2>4
<1>4. ASSUME NEW u \in S, NEW w \in S, Cardinality(Below(S, u)) = Cardinality(Below(S, w))
      PROVE  u = w
  <2>1. u \in Int /\ w \in Int
    OBVIOUS
  <2>2. Cardinality(Below(S, u)) \in Nat
    BY <1>2
  <2>3. ~(Cardinality(Below(S, u)) < Cardinality(Below(S, w))) /\ ~(Cardinality(Below(S, w)) < Cardinality(Below(S, u)))
    BY <1>4, <2>2
  <2>4. ~(u < w) /\ ~(w < u)
    BY <1>3, <2>3
  <2> QED
    BY <2>1, <2>4
<1>5. \A u \in S : Cardinality(Below(S, u)) \in 0..(Cardinality(S) - 1)
  <2> TAKE u \in S
  <2>1. Cardinality(Below(S, u)) \in Nat /\ Cardinality(Below(S, u)) + 1 <= Cardinality(S)
    BY <1>2
  <2> QED
    BY <1>1, <2>1
<1> QED
  BY <1>4, <1>5

LEMMA RanksAreAttained ==
  ASSUME NEW S, IsFiniteSet(S), S \subseteq Int
  PROVE  \A i \in 1..Cardinality(S) : \E u \in S : Cardinality(Below(S, u)) = i - 1
<1> DEFINE N == Cardinality(S)
           T == 0..(N - 1)
           rank == [u \in S |-> Cardinality(Below(S, u))]
<1>1. N \in Nat
  BY FS_CardinalityType
<1>2. rank \in [S -> T]
  BY RanksAreDistinct
<1>3. rank \in Injection(S, T)
  BY <1>2, RanksAreDistinct DEF Injection, IsInjective
<1>4. IsFiniteSet(T) /\ Cardinality(T) = N
  <2>1. 0 \in Int /\ N - 1 \in Int
    BY <1>1
  <2> QED
    BY <1>1, <2>1, FS_Interval
<1>5. rank \in Surjection(S, T)
  <2> HIDE DEF rank, T
  <2> QED
    BY <1>3, <1>4, FS_Injection
<1>6. \A m \in T : \E u \in S : rank[u] = m
  BY <1>5 DEF Surjection
<1> QED
  BY <1>1, <1>6

\* The list of a set by rank is increasing and has each element once.
ByRank(S) == [i \in 1..Cardinality(S) |-> CHOOSE u \in S : Cardinality({v \in S : v < u}) = i - 1]

Lists(O, S) ==
  /\ Cardinality(S) \in Nat
  /\ O \in [1..Cardinality(S) -> S]
  /\ O \in Seq(S) /\ Len(O) = Cardinality(S)
  /\ \A i, j \in 1..Cardinality(S) : O[i] = O[j] => i = j
  /\ \A i, j \in 1..Cardinality(S) : i < j => O[i] < O[j]
  /\ \A u \in S : \E i \in 1..Cardinality(S) : O[i] = u

LEMMA ByRankLists ==
  ASSUME NEW S, IsFiniteSet(S), S \subseteq Int
  PROVE  Lists(ByRank(S), S)
<1> DEFINE N == Cardinality(S)
           O == ByRank(S)
<1>1. N \in Nat
  BY FS_CardinalityType
<1>2. \A i \in 1..N : O[i] \in S /\ Cardinality(Below(S, O[i])) = i - 1
  <2> TAKE i \in 1..N
  <2>1. O[i] = CHOOSE u \in S : Cardinality(Below(S, u)) = i - 1
    BY DEF ByRank, Below
  <2> QED
    <3>1. \E u \in S : Cardinality(Below(S, u)) = i - 1
      BY RanksAreAttained
    <3> QED
      BY <2>1, <3>1
<1>3. O \in [1..N -> S]
  BY <1>2 DEF ByRank
<1> HIDE DEF O
<1>4. O \in Seq(S) /\ Len(O) = N
  BY <1>1, <1>3
<1>5. ASSUME NEW u \in S PROVE \E i \in 1..N : O[i] = u
  <2> DEFINE i == Cardinality(Below(S, u)) + 1
  <2>0. Cardinality(Below(S, u)) \in 0..(N - 1)
    BY RanksAreDistinct
  <2>1. i \in 1..N /\ i - 1 = Cardinality(Below(S, u))
    BY <1>1, <2>0
  <2>2. O[i] \in S /\ Cardinality(Below(S, O[i])) = Cardinality(Below(S, u))
    BY <1>2, <2>1
  <2>3. O[i] = u
    BY <2>2, RanksAreDistinct
  <2> QED
    BY <2>1, <2>3
<1>6. \A i, j \in 1..N : O[i] = O[j] => i = j
  BY <1>1, <1>2
<1>7. ASSUME NEW i \in 1..N, NEW j \in 1..N, i < j PROVE O[i] < O[j]
  <2>1. O[i] \in S /\ O[j] \in S /\ O[i] \in Int /\ O[j] \in Int
    BY <1>2
  <2>2. Cardinality(Below(S, O[i])) = i - 1 /\ Cardinality(Below(S, O[j])) = j - 1
    BY <1>2
  <2>3. ASSUME ~(O[i] < O[j]) PROVE FALSE
    <3>1. \A v \in S : v < O[j] => v < O[i]
      <4> TAKE v \in S
      <4>1. v \in Int
        OBVIOUS
      <4> QED
        BY <2>1, <2>3, <4>1
    <3>2. Below(S, O[j]) \in SUBSET Below(S, O[i])
      BY <3>1 DEF Below
    <3>3. Below(S, O[i]) \in SUBSET S
      BY DEF Below
    <3>4. IsFiniteSet(Below(S, O[i]))
      BY <3>3, FS_Subset
    <3>5. Cardinality(Below(S, O[j])) <= Cardinality(Below(S, O[i]))
      BY <3>2, <3>4, FS_Subset
    <3> QED
      BY <1>1, <1>7, <2>2, <3>5
  <2> QED
    BY <2>3
<1> QED
  BY <1>1, <1>3, <1>4, <1>5, <1>6, <1>7 DEF Lists, O

LEMMA InOrderIsOrdered ==
  ASSUME NEW S, IsFiniteSet(S), S \subseteq Int
  PROVE  Lists(InOrder(S), S)
<1>1. InOrder(S) = ByRank(S)
  BY DEF InOrder, ByRank
<1> QED
  BY <1>1, ByRankLists

-----------------------------------------------------------------------------
(* The crawl.                                                              *)

\* What T takes of the links, given what is known.
LinksTaken(known, links, T) ==
  /\ T \in Seq(links \ known)
  /\ IsFiniteSet(known \cup Range(T)) /\ Range(T) \subseteq links \ known
  /\ \A i, j \in 1..Len(T) : T[i] = T[j] => i = j
  /\ links \subseteq known \cup Range(T) \/ Cardinality(known \cup Range(T)) >= 5 * MaxUrls

LEMMA LinksAreEnqueued ==
  ASSUME NEW known, IsFiniteSet(known), NEW links, IsFiniteSet(links), links \subseteq Int,
         NEW T, T = EnqueueLinks(known, links)
  PROVE  LinksTaken(known, links, T)
<1> DEFINE D == links \ known
           new == InOrder(D)
           room == 5 * MaxUrls - Cardinality(known)
           m == IF room < Len(new) THEN room ELSE Len(new)
<1>1. IsFiniteSet(D) /\ D \subseteq Int
  BY FS_Difference
<1>2. /\ Cardinality(D) \in Nat /\ new \in [1..Cardinality(D) -> D]
      /\ new \in Seq(D) /\ Len(new) = Cardinality(D)
      /\ \A i, j \in 1..Cardinality(D) : new[i] = new[j] => i = j
      /\ \A u \in D : \E i \in 1..Cardinality(D) : new[i] = u
  BY <1>1, InOrderIsOrdered DEF Lists
<1>3. Cardinality(known) \in Nat /\ MaxUrls \in Nat /\ room \in Int
  BY FS_CardinalityType, CrawlAssumption
<1>4. m \in Int /\ m <= Cardinality(D) /\ 1 \in Int
  BY <1>2, <1>3
<1>5. T = SubSeq(new, 1, m)
  BY DEF EnqueueLinks
<1> HIDE DEF new, D, m
<1>6. \A i \in 1..m : new[i] \in D
  BY <1>2, <1>4
<1>7. /\ T \in Seq(D) /\ Len(T) = (IF 1 <= m THEN m ELSE 0)
      /\ \A i \in 1..m : T[i] = new[i]
  <2>1. /\ SubSeq(new, 1, m) \in Seq(D)
        /\ Len(SubSeq(new, 1, m)) = IF 1 <= m THEN m - 1 + 1 ELSE 0
        /\ \A i \in 1..(m - 1 + 1) : SubSeq(new, 1, m)[i] = new[1 + i - 1]
    BY <1>4, <1>6, SubSeqProperties
  <2> QED
    BY <1>4, <1>5, <2>1
<1>8. DOMAIN T = 1..Len(T) /\ Len(T) \in Nat /\ T \in [1..Len(T) -> D]
  BY <1>7, LenProperties
<1>9. \A i, j \in 1..Len(T) : T[i] = T[j] => i = j
  BY <1>2, <1>4, <1>7
<1>10. Range(T) \subseteq D /\ Range(T) = {T[i] : i \in 1..Len(T)}
  BY <1>8 DEF Range
<1>11. IsFiniteSet(Range(T)) /\ Cardinality(Range(T)) = Len(T)
  <2>1. T \in [1..Len(T) -> Range(T)]
    BY <1>8 DEF Range
  <2>2. T \in Bijection(1..Len(T), Range(T))
    BY <1>8, <1>9, <2>1 DEF Bijection, Injection, Surjection, IsInjective, Range
  <2>3. ExistsBijection(1..Len(T), Range(T))
    BY <2>2 DEF ExistsBijection
  <2> QED
    BY <1>8, <2>3, FS_CountingElements, FS_NatBijection
<1>12. known \cap Range(T) = {}
  BY <1>10 DEF D
<1>13. /\ IsFiniteSet(known \cup Range(T))
       /\ Cardinality(known \cup Range(T)) = Cardinality(known) + Len(T)
  <2>1. Cardinality(known \cap Range(T)) = 0
    BY <1>12, FS_EmptySet
  <2>2. Cardinality(known \cup Range(T)) = Cardinality(known) + Cardinality(Range(T)) - Cardinality(known \cap Range(T))
    BY <1>11, FS_Union
  <2>3. IsFiniteSet(known \cup Range(T))
    BY <1>11, FS_Union
  <2> QED
    BY <1>3, <1>8, <1>11, <2>1, <2>2, <2>3
<1>14. CASE m = Cardinality(D)
  <2>1. \A u \in D : u \in Range(T)
    BY <1>2, <1>7, <1>10, <1>14
  <2> QED
    BY <1>7, <1>9, <1>10, <1>13, <2>1 DEF D, LinksTaken
<1>15. CASE m = room
  <2>1. Len(T) >= room
    BY <1>3, <1>7, <1>15
  <2>2. Cardinality(known \cup Range(T)) >= 5 * MaxUrls
    BY <1>3, <1>8, <1>13, <2>1
  <2> QED
    BY <1>7, <1>9, <1>10, <1>13, <2>2 DEF D, LinksTaken
<1> QED
  BY <1>2, <1>14, <1>15 DEF m

\* A page within n links stays within more of them, and a page it links to is within one more.
LEMMA WithinStep ==
  ASSUME site \in Sites, NEW n \in Nat, NEW u \in Within(n)
  PROVE  /\ \A m \in Nat : n <= m => u \in Within(m)
         /\ \A v \in site[u] : v \in Within(n + 1)
<1>1. PICK k \in 0..n : \E path \in [0..k -> DOMAIN site] : LinkPath(path, k) /\ path[k] = u
  BY DEF Within
<1>0. PICK path \in [0..k -> DOMAIN site] : LinkPath(path, k) /\ path[k] = u
  BY <1>1
<1>2. u \in DOMAIN site
  BY DEF Within
<1>3. ASSUME NEW m \in Nat, n <= m PROVE u \in Within(m)
  <2>1. k \in 0..m
    BY <1>3
  <2> QED
    BY <1>0, <1>2, <2>1 DEF Within
<1>4. ASSUME NEW v \in site[u] PROVE v \in Within(n + 1)
  <2> DEFINE longer == [i \in 0..(k + 1) |-> IF i = k + 1 THEN v ELSE path[i]]
  <2>1. v \in DOMAIN site
    BY <1>2, CrawlAssumption
  <2>2. \A i \in 0..(k + 1) : i # k + 1 => i \in 0..k
    OBVIOUS
  <2>3. longer \in [0..(k + 1) -> DOMAIN site]
    BY <2>1, <2>2
  <2>4. longer[0] = Start
    <3>1. 0 \in 0..(k + 1) /\ 0 # k + 1
      OBVIOUS
    <3> QED
      BY <1>0, <3>1 DEF LinkPath
  <2>5. ASSUME NEW i \in 1..(k + 1) PROVE longer[i] \in site[longer[i - 1]]
    <3>1. i \in 0..(k + 1) /\ i - 1 \in 0..(k + 1) /\ i - 1 # k + 1
      OBVIOUS
    <3>2. longer[i - 1] = path[i - 1]
      BY <3>1
    <3>3. CASE i = k + 1
      <4>1. i - 1 = k
        BY <3>3
      <4> QED
        BY <1>0, <3>1, <3>2, <3>3, <4>1
    <3>4. CASE i # k + 1
      <4>1. i \in 1..k
        BY <3>4
      <4> QED
        BY <1>0, <3>1, <3>2, <3>4, <4>1 DEF LinkPath
    <3> QED
      BY <3>3, <3>4
  <2>6. longer[k + 1] = v
    <3>1. k + 1 \in 0..(k + 1)
      OBVIOUS
    <3> QED
      BY <3>1
  <2>7. k + 1 \in 0..(n + 1)
    OBVIOUS
  <2>8. LinkPath(longer, k + 1)
    BY <2>4, <2>5 DEF LinkPath
  <2> HIDE DEF longer
  <2> QED
    BY <2>1, <2>3, <2>6, <2>7, <2>8 DEF Within
<1> QED
  BY <1>3, <1>4

\* h is the depth at which an address was enqueued.
CrawlTyped(h) ==
  /\ site \in Sites
  /\ enqueued \subseteq DOMAIN site /\ IsFiniteSet(enqueued) /\ Start \in enqueued
  /\ h \in [enqueued -> 0..CrawlDepth] /\ h[Start] = 0
  /\ pages \in Seq(enqueued) /\ failed \in Seq(enqueued) /\ queue \in Seq(enqueued \X Nat)
  /\ Len(pages) <= MaxUrls
  /\ crawlPhase \in {"crawling", "done"}
  /\ crawlPhase = "done" => queue = <<>> \/ Len(pages) >= MaxUrls

\* The queue is in the order of the depths, and what was fetched came before it.
InDepthOrder(h) ==
  /\ \A i \in 1..Len(queue) : queue[i][2] = h[queue[i][1]]
  /\ \A i, j \in 1..Len(queue) : i < j => h[queue[i][1]] <= h[queue[j][1]]
  /\ \A i, j \in 1..Len(queue) : h[queue[j][1]] <= h[queue[i][1]] + 1
  /\ \A k \in 1..Len(pages), j \in 1..Len(queue) : h[pages[k]] <= h[queue[j][1]]
  /\ \A k \in 1..Len(failed), j \in 1..Len(queue) : h[failed[k]] <= h[queue[j][1]]

EachOnce ==
  /\ \A i, j \in 1..Len(pages) : pages[i] = pages[j] => i = j
  /\ \A i, j \in 1..Len(queue) : queue[i][1] = queue[j][1] => i = j
  /\ \A k \in 1..Len(pages), j \in 1..Len(queue) : pages[k] # queue[j][1]
  /\ \A u \in enqueued : \/ \E k \in 1..Len(pages) : pages[k] = u
                         \/ \E k \in 1..Len(failed) : failed[k] = u
                         \/ \E j \in 1..Len(queue) : queue[j][1] = u

\* A page that is not at the bound had all it links to enqueued, unless there was no room.
Followed(h) ==
  \/ Cardinality(enqueued) >= 5 * MaxUrls
  \/ \A k \in 1..Len(pages) : h[pages[k]] < CrawlDepth =>
       \A v \in site[pages[k]] : v \in enqueued /\ h[v] <= h[pages[k]] + 1

Crawled(h) ==
  /\ CrawlTyped(h) /\ InDepthOrder(h) /\ EachOnce /\ Followed(h)
  /\ \A u \in enqueued : u \in Within(h[u])

CrawlInv == \E h : Crawled(h)

LEMMA CrawlStarts == CrawlInit => CrawlInv
<1> SUFFICES ASSUME CrawlInit PROVE CrawlInv
  OBVIOUS
<1> DEFINE h == [u \in {Start} |-> 0]
<1>0. site \in Sites /\ queue = <<<<Start, 0>>>> /\ enqueued = {Start} /\ pages = <<>> /\ failed = <<>> /\ crawlPhase = "crawling"
  BY DEF CrawlInit
<1>1. Start \in DOMAIN site /\ CrawlDepth \in Nat /\ MaxUrls \in Nat
  BY <1>0, CrawlAssumption
<1>2. h \in [enqueued -> 0..CrawlDepth] /\ h[Start] = 0
  BY <1>0, <1>1
<1>3. /\ Len(queue) = 1 /\ queue[1] = <<Start, 0>> /\ queue[1][1] = Start /\ queue[1][2] = 0
      /\ Len(pages) = 0 /\ Len(failed) = 0 /\ queue \in Seq(enqueued \X Nat)
  BY <1>0
<1>4. \A i \in 1..Len(queue) : i = 1
  BY <1>3
<1>5. CrawlTyped(h)
  <2>1. pages \in Seq(enqueued) /\ failed \in Seq(enqueued)
    BY <1>0, EmptySeq
  <2>2. IsFiniteSet(enqueued)
    BY <1>0, FS_Singleton
  <2> HIDE DEF h
  <2> QED
    BY <1>0, <1>1, <1>2, <1>3, <2>1, <2>2 DEF CrawlTyped
<1>6. InDepthOrder(h)
  <2>1. \A i \in 1..Len(queue) : queue[i] = <<Start, 0>> /\ h[queue[i][1]] = 0 /\ queue[i][2] = 0
    BY <1>2, <1>3, <1>4
  <2> HIDE DEF h
  <2> QED
    BY <1>3, <1>4, <2>1 DEF InDepthOrder
<1>7. EachOnce
  <2>1. \A u \in enqueued : \E j \in 1..Len(queue) : queue[j][1] = u
    BY <1>0, <1>3
  <2> QED
    BY <1>3, <1>4, <2>1 DEF EachOnce
<1>8. Followed(h)
  BY <1>3 DEF Followed
<1>9. ASSUME NEW u \in enqueued PROVE u \in Within(h[u])
  <2> DEFINE path == [i \in 0..0 |-> Start]
  <2>1. u = Start /\ h[u] = 0
    BY <1>0, <1>2
  <2>2. path \in [0..0 -> DOMAIN site] /\ path[0] = Start
    BY <1>1
  <2>3. LinkPath(path, 0)
    BY <2>2 DEF LinkPath
  <2> HIDE DEF path, h
  <2>4. 0 \in 0..0
    OBVIOUS
  <2> QED
    BY <1>1, <2>1, <2>2, <2>3, <2>4 DEF Within
<1> HIDE DEF h
<1> QED
  BY <1>5, <1>6, <1>7, <1>8, <1>9 DEF CrawlInv, Crawled

\* What a round takes from the queue, and the sequences it extends.
LEMMA QueueHead ==
  ASSUME NEW h, Crawled(h), queue # <<>>
  PROVE  /\ Len(queue) \in Nat \ {0} /\ Len(pages) \in Nat /\ Len(failed) \in Nat
         /\ Head(queue) = queue[1] /\ queue[1] = <<Head(queue)[1], Head(queue)[2]>>
         /\ Head(queue)[1] \in enqueued /\ Head(queue)[2] \in Nat
         /\ Tail(queue) \in Seq(enqueued \X Nat) /\ Len(Tail(queue)) = Len(queue) - 1
         /\ \A i \in 1..(Len(queue) - 1) : Tail(queue)[i] = queue[i + 1] /\ i + 1 \in 1..Len(queue)
         /\ \A i \in 1..Len(queue) : queue[i][1] \in enqueued /\ queue[i][2] \in Nat
         /\ \A i \in 1..Len(pages) : pages[i] \in enqueued
         /\ \A i \in 1..Len(failed) : failed[i] \in enqueued
         /\ \A u \in enqueued : h[u] \in Nat /\ h[u] <= CrawlDepth
<1>1. /\ queue \in Seq(enqueued \X Nat) /\ pages \in Seq(enqueued) /\ failed \in Seq(enqueued)
      /\ h \in [enqueued -> 0..CrawlDepth] /\ CrawlDepth \in Nat
  BY CrawlAssumption DEF Crawled, CrawlTyped
<1>2. Len(queue) \in Nat \ {0} /\ Len(pages) \in Nat /\ Len(failed) \in Nat
  BY <1>1, EmptySeq, LenProperties
<1>3. Tail(queue) \in Seq(enqueued \X Nat) /\ Len(Tail(queue)) = Len(queue) - 1
  BY <1>1, HeadTailProperties
<1>4. \A i \in 1..(Len(queue) - 1) : Tail(queue)[i] = queue[i + 1] /\ i + 1 \in 1..Len(queue)
  BY <1>1, <1>2, <1>3, HeadTailProperties
<1>5. \A i \in 1..Len(queue) : queue[i] \in enqueued \X Nat
  BY <1>1, ElementOfSeq
<1>6. Head(queue) = queue[1] /\ 1 \in 1..Len(queue)
  BY <1>1, <1>2
<1>7. \A u \in enqueued : h[u] \in Nat /\ h[u] <= CrawlDepth
  BY <1>1
<1> QED
  BY <1>1, <1>2, <1>3, <1>4, <1>5, <1>6, <1>7, ElementOfSeq

LEMMA FetchFails ==
  ASSUME NEW h, Crawled(h), crawlPhase = "crawling", queue # <<>>,
         failed' = Append(failed, Head(queue)[1]), queue' = Tail(queue),
         UNCHANGED <<enqueued, pages, site, crawlPhase>>
  PROVE  Crawled(h)'
<1> DEFINE u == Head(queue)[1]
           n == Len(queue)
<1>0. /\ n \in Nat \ {0} /\ Len(pages) \in Nat /\ Len(failed) \in Nat
      /\ u = queue[1][1] /\ u \in enqueued
      /\ \A i \in 1..(n - 1) : queue'[i] = queue[i + 1] /\ i + 1 \in 1..n
      /\ \A i \in 1..n : queue[i][1] \in enqueued
      /\ \A i \in 1..Len(pages) : pages[i] \in enqueued
      /\ \A i \in 1..Len(failed) : failed[i] \in enqueued
      /\ \A v \in enqueued : h[v] \in Nat
      /\ queue' \in Seq(enqueued \X Nat) /\ Len(queue') = n - 1
  BY QueueHead
<1>1. CrawlTyped(h) /\ InDepthOrder(h) /\ EachOnce /\ Followed(h) /\ \A v \in enqueued : v \in Within(h[v])
  BY DEF Crawled
<1>2. /\ failed' \in Seq(enqueued) /\ Len(failed') = Len(failed) + 1
      /\ \A i \in 1..Len(failed) : failed'[i] = failed[i]
      /\ failed'[Len(failed) + 1] = u
  BY <1>0, <1>1, AppendProperties DEF CrawlTyped
<1>3. 1 \in 1..n /\ n - 1 \in Nat
  BY <1>0
<1> HIDE DEF u
<1>4. CrawlTyped(h)'
  BY <1>0, <1>1, <1>2 DEF CrawlTyped
<1>5. InDepthOrder(h)'
  <2>1. \A i \in 1..(n - 1) : queue'[i] = queue[i + 1] /\ i + 1 \in 1..n
    BY <1>0
  <2>2. \A i \in 1..(n - 1) : queue'[i][2] = h[queue'[i][1]]
    BY <1>1, <2>1 DEF InDepthOrder
  <2>3. \A i, j \in 1..(n - 1) : /\ i < j => h[queue'[i][1]] <= h[queue'[j][1]]
                                 /\ h[queue'[j][1]] <= h[queue'[i][1]] + 1
    <3> SUFFICES ASSUME NEW i \in 1..(n - 1), NEW j \in 1..(n - 1)
                 PROVE  /\ i < j => h[queue[i + 1][1]] <= h[queue[j + 1][1]]
                        /\ h[queue[j + 1][1]] <= h[queue[i + 1][1]] + 1
      BY <2>1
    <3>1. i + 1 \in 1..n /\ j + 1 \in 1..n /\ (i < j => i + 1 < j + 1)
      BY <1>0
    <3> QED
      BY <1>1, <3>1 DEF InDepthOrder
  <2>4. \A k \in 1..Len(pages), j \in 1..(n - 1) : h[pages[k]] <= h[queue'[j][1]]
    BY <1>1, <2>1 DEF InDepthOrder
  <2>5. \A k \in 1..Len(failed'), j \in 1..(n - 1) : h[failed'[k]] <= h[queue'[j][1]]
    <3> SUFFICES ASSUME NEW k \in 1..Len(failed'), NEW j \in 1..(n - 1)
                 PROVE  h[failed'[k]] <= h[queue[j + 1][1]]
      BY <2>1
    <3>1. j + 1 \in 1..n /\ 1 < j + 1
      BY <1>0
    <3>2. CASE k = Len(failed) + 1
      BY <1>0, <1>1, <1>2, <1>3, <3>1, <3>2 DEF InDepthOrder
    <3>3. CASE k # Len(failed) + 1
      <4>1. k \in 1..Len(failed)
        BY <1>0, <1>2, <3>3
      <4> QED
        BY <1>1, <1>2, <3>1, <4>1 DEF InDepthOrder
    <3> QED
      BY <3>2, <3>3
  <2> QED
    BY <1>0, <2>2, <2>3, <2>4, <2>5 DEF InDepthOrder
<1>6. EachOnce'
  <2>1. \A i, j \in 1..(n - 1) : queue'[i][1] = queue'[j][1] => i = j
    <3> SUFFICES ASSUME NEW i \in 1..(n - 1), NEW j \in 1..(n - 1), queue[i + 1][1] = queue[j + 1][1] PROVE i = j
      BY <1>0
    <3>1. i + 1 = j + 1
      BY <1>0, <1>1 DEF EachOnce
    <3> QED
      BY <1>0, <3>1
  <2>2. \A k \in 1..Len(pages), j \in 1..(n - 1) : pages[k] # queue'[j][1]
    BY <1>0, <1>1 DEF EachOnce
  <2>3. ASSUME NEW v \in enqueued
        PROVE  \/ \E k \in 1..Len(pages) : pages[k] = v
               \/ \E k \in 1..Len(failed') : failed'[k] = v
               \/ \E j \in 1..(n - 1) : queue'[j][1] = v
    <3>1. CASE \E k \in 1..Len(pages) : pages[k] = v
      BY <3>1
    <3>2. CASE \E k \in 1..Len(failed) : failed[k] = v
      <4>1. PICK k \in 1..Len(failed) : failed[k] = v
        BY <3>2
      <4>2. k \in 1..Len(failed') /\ failed'[k] = v
        BY <1>0, <1>2, <4>1
      <4> QED
        BY <4>2
    <3>3. CASE \E j \in 1..n : queue[j][1] = v
      <4>1. PICK j \in 1..n : queue[j][1] = v
        BY <3>3
      <4>2. CASE j = 1
        <5>1. Len(failed) + 1 \in 1..Len(failed') /\ failed'[Len(failed) + 1] = v
          BY <1>0, <1>2, <4>1, <4>2
        <5> QED
          BY <5>1
      <4>3. CASE j # 1
        <5>1. j - 1 \in 1..(n - 1) /\ (j - 1) + 1 = j
          BY <1>0, <4>3
        <5>2. queue'[j - 1] = queue[j]
          BY <1>0, <5>1
        <5> QED
          BY <4>1, <5>1, <5>2
      <4> QED
        BY <4>2, <4>3
    <3> QED
      BY <1>1, <3>1, <3>2, <3>3 DEF EachOnce
  <2>4. \A i, j \in 1..Len(pages) : pages[i] = pages[j] => i = j
    BY <1>1 DEF EachOnce
  <2>5. Len(queue') = n - 1 /\ pages' = pages /\ enqueued' = enqueued
    BY <1>0
  <2> QED
    BY <2>1, <2>2, <2>3, <2>4, <2>5 DEF EachOnce
<1>7. Followed(h)'
  BY <1>1 DEF Followed
<1>8. \A v \in enqueued' : v \in Within(h[v])'
  BY <1>1 DEF Within, LinkPath
<1> QED
  BY <1>4, <1>5, <1>6, <1>7, <1>8 DEF Crawled

\* What a fetched page adds to the queue.
IsTargets(T, u, d) == T = IF d >= CrawlDepth THEN <<>> ELSE EnqueueLinks(enqueued, site[u])

PageKept(T) ==
  /\ queue # <<>> /\ Len(pages) < MaxUrls /\ crawlPhase = "crawling"
  /\ IsTargets(T, Head(queue)[1], Head(queue)[2])
  /\ pages' = Append(pages, Head(queue)[1])
  /\ queue' = Tail(queue) \o [i \in DOMAIN T |-> <<T[i], Head(queue)[2] + 1>>]
  /\ enqueued' = enqueued \cup Range(T)
  /\ UNCHANGED <<failed, site, crawlPhase>>

NewTargets(T, u, d) ==
  /\ Len(T) \in Nat /\ DOMAIN T = 1..Len(T)
  /\ \A i \in 1..Len(T) : T[i] \in site[u] /\ T[i] \in DOMAIN site /\ T[i] \notin enqueued
  /\ \A i, j \in 1..Len(T) : T[i] = T[j] => i = j
  /\ \A v \in Range(T) : \E i \in 1..Len(T) : T[i] = v
  /\ \A i \in 1..Len(T) : T[i] \in Range(T)
  /\ IsFiniteSet(enqueued \cup Range(T))
  /\ Len(T) > 0 => d < CrawlDepth
  /\ d < CrawlDepth => \/ site[u] \subseteq enqueued \cup Range(T)
                       \/ Cardinality(enqueued \cup Range(T)) >= 5 * MaxUrls
  /\ Cardinality(enqueued) <= Cardinality(enqueued \cup Range(T))

LEMMA TargetsAreNew ==
  ASSUME site \in Sites, enqueued \subseteq DOMAIN site, IsFiniteSet(enqueued),
         NEW u \in enqueued, NEW d \in Nat,
         NEW T, IsTargets(T, u, d)
  PROVE  NewTargets(T, u, d)
<1>1. CrawlDepth \in Nat /\ site[u] \subseteq DOMAIN site /\ IsFiniteSet(site[u]) /\ site[u] \subseteq Int
  BY CrawlAssumption
<1>2. CASE d >= CrawlDepth
  <2>1. T = <<>> /\ Len(T) = 0 /\ DOMAIN T = 1..Len(T) /\ Range(T) = {}
    BY <1>2 DEF IsTargets, Range
  <2>2. enqueued \cup Range(T) = enqueued /\ Cardinality(enqueued) \in Nat
    BY <2>1, FS_CardinalityType
  <2>3. /\ Len(T) = 0 /\ DOMAIN T = 1..Len(T) /\ Range(T) = {}
        /\ \A i \in 1..Len(T) : FALSE
    BY <2>1
  <2>4. IsFiniteSet(enqueued \cup Range(T)) /\ Cardinality(enqueued) <= Cardinality(enqueued \cup Range(T))
    BY <2>2
  <2> QED
    BY <1>1, <1>2, <2>3, <2>4 DEF NewTargets
<1>3. CASE ~(d >= CrawlDepth)
  <2>1. /\ T \in Seq(site[u] \ enqueued)
        /\ IsFiniteSet(enqueued \cup Range(T)) /\ Range(T) \subseteq site[u] \ enqueued
        /\ \A i, j \in 1..Len(T) : T[i] = T[j] => i = j
        /\ site[u] \subseteq enqueued \cup Range(T) \/ Cardinality(enqueued \cup Range(T)) >= 5 * MaxUrls
    <3> DEFINE links == site[u]
    <3>1. T = EnqueueLinks(enqueued, links)
      BY <1>3 DEF IsTargets
    <3>2. IsFiniteSet(links) /\ links \subseteq Int /\ IsFiniteSet(enqueued)
      BY <1>1
    <3> HIDE DEF links
    <3>3. LinksTaken(enqueued, links, T)
      BY <3>1, <3>2, LinksAreEnqueued
    <3> QED
      BY <3>3 DEF links, LinksTaken
  <2>2. Len(T) \in Nat /\ DOMAIN T = 1..Len(T)
    BY <2>1, LenProperties
  <2>3. Range(T) = {T[i] : i \in 1..Len(T)}
    BY <2>2 DEF Range
  <2>4. Cardinality(enqueued) <= Cardinality(enqueued \cup Range(T))
    BY <2>1, FS_Subset
  <2> QED
    BY <1>1, <1>3, <2>1, <2>2, <2>3, <2>4 DEF NewTargets
<1> QED
  BY <1>2, <1>3

LEMMA FetchKeeps ==
  ASSUME NEW h, Crawled(h), NEW T, PageKept(T)
  PROVE  CrawlInv'
<1> DEFINE u == Head(queue)[1]
           d == Head(queue)[2]
           n == Len(queue)
           m == Len(T)
           f == [v \in enqueued \cup Range(T) |-> IF v \in enqueued THEN h[v] ELSE d + 1]
           E == [i \in DOMAIN T |-> <<T[i], d + 1>>]
<1>0. /\ n \in Nat \ {0} /\ Len(pages) \in Nat /\ Len(failed) \in Nat
      /\ u = queue[1][1] /\ d = queue[1][2] /\ u \in enqueued /\ d \in Nat
      /\ Tail(queue) \in Seq(enqueued \X Nat) /\ Len(Tail(queue)) = n - 1
      /\ \A i \in 1..(n - 1) : Tail(queue)[i] = queue[i + 1] /\ i + 1 \in 1..n
      /\ \A i \in 1..n : queue[i][1] \in enqueued /\ queue[i][2] \in Nat
      /\ \A i \in 1..Len(pages) : pages[i] \in enqueued
      /\ \A i \in 1..Len(failed) : failed[i] \in enqueued
      /\ \A v \in enqueued : h[v] \in Nat /\ h[v] <= CrawlDepth
  BY QueueHead DEF PageKept
<1>a. /\ failed' = failed /\ site' = site /\ crawlPhase' = crawlPhase /\ crawlPhase = "crawling"
      /\ enqueued' = enqueued \cup Range(T) /\ Len(pages) < MaxUrls
  BY DEF PageKept
<1>1. CrawlTyped(h) /\ InDepthOrder(h) /\ EachOnce /\ Followed(h) /\ \A v \in enqueued : v \in Within(h[v])
  BY DEF Crawled
<1>2. /\ m \in Nat /\ DOMAIN T = 1..m
      /\ \A i \in 1..m : T[i] \in site[u] /\ T[i] \in DOMAIN site /\ T[i] \notin enqueued
      /\ \A i, j \in 1..m : T[i] = T[j] => i = j
      /\ \A v \in Range(T) : \E i \in 1..m : T[i] = v
      /\ \A i \in 1..m : T[i] \in Range(T)
      /\ IsFiniteSet(enqueued')
      /\ m > 0 => d < CrawlDepth
      /\ d < CrawlDepth => site[u] \subseteq enqueued' \/ Cardinality(enqueued') >= 5 * MaxUrls
      /\ Cardinality(enqueued) <= Cardinality(enqueued')
  <2>1. site \in Sites /\ enqueued \subseteq DOMAIN site /\ IsFiniteSet(enqueued)
    BY <1>1 DEF CrawlTyped
  <2>2. u \in enqueued /\ d \in Nat
    BY <1>0
  <2>3. IsTargets(T, u, d)
    BY DEF PageKept
  <2> HIDE DEF u, d
  <2>4. NewTargets(T, u, d)
    BY <2>1, <2>2, <2>3, TargetsAreNew
  <2> QED
    BY <1>a, <2>4 DEF NewTargets
<1>3. /\ pages' \in Seq(enqueued) /\ Len(pages') = Len(pages) + 1
      /\ \A i \in 1..Len(pages) : pages'[i] = pages[i]
      /\ pages'[Len(pages) + 1] = u
  BY <1>0, <1>1, AppendProperties DEF CrawlTyped, PageKept
<1>4. CrawlDepth \in Nat /\ MaxUrls \in Nat /\ 1 \in 1..n /\ n - 1 \in Nat
  BY <1>0, CrawlAssumption
<1>5. /\ queue' \in Seq(enqueued' \X Nat) /\ Len(queue') = n - 1 + m
      /\ \A i \in 1..(n - 1) : queue'[i] = queue[i + 1] /\ i + 1 \in 1..n
      /\ \A i \in n..(n - 1 + m) : queue'[i] = <<T[i - (n - 1)], d + 1>> /\ i - (n - 1) \in 1..m
  <2>1. E \in Seq(enqueued' \X Nat) /\ Len(E) = m
    <3>1. \A i \in 1..m : <<T[i], d + 1>> \in enqueued' \X Nat
      BY <1>0, <1>2, <1>a
    <3>2. E \in [1..m -> enqueued' \X Nat]
      BY <1>2, <3>1
    <3> QED
      BY <1>2, <3>2
  <2>2. Tail(queue) \in Seq(enqueued' \X Nat) /\ Len(Tail(queue)) = n - 1
    <3>1. enqueued \X Nat \subseteq enqueued' \X Nat
      BY <1>a
    <3> QED
      BY <1>0, <3>1, SeqMonotonic
  <2>3. queue' = Tail(queue) \o E
    BY DEF PageKept
  <2> HIDE DEF E
  <2>4. /\ queue' \in Seq(enqueued' \X Nat) /\ Len(queue') = n - 1 + m
        /\ \A i \in 1..(n - 1 + m) : queue'[i] = IF i <= n - 1 THEN Tail(queue)[i] ELSE E[i - (n - 1)]
    <3> DEFINE R == Tail(queue)
               S == enqueued' \X Nat
    <3>1. R \in Seq(S) /\ Len(R) = n - 1 /\ E \in Seq(S) /\ Len(E) = m /\ queue' = R \o E
      BY <2>1, <2>2, <2>3
    <3> HIDE DEF R, S
    <3>2. /\ R \o E \in Seq(S) /\ Len(R \o E) = Len(R) + Len(E)
          /\ \A i \in 1 .. Len(R) + Len(E) : (R \o E)[i] = IF i <= Len(R) THEN R[i] ELSE E[i - Len(R)]
      <4>1. R \in Seq(S) /\ E \in Seq(S)
        BY <3>1
      <4> QED
        BY <4>1, ConcatProperties, Zenon
    <3>3. /\ queue' \in Seq(S) /\ Len(queue') = n - 1 + m
          /\ \A i \in 1..(n - 1 + m) : queue'[i] = IF i <= n - 1 THEN R[i] ELSE E[i - (n - 1)]
      BY <3>1, <3>2
    <3> QED
      BY <3>3 DEF R, S
  <2>5. ASSUME NEW i \in 1..(n - 1) PROVE queue'[i] = queue[i + 1] /\ i + 1 \in 1..n
    <3>1. i \in 1..(n - 1 + m) /\ i <= n - 1
      BY <1>0, <1>2
    <3>2. queue'[i] = Tail(queue)[i]
      BY <2>4, <3>1
    <3> QED
      BY <1>0, <3>2
  <2>6. ASSUME NEW i \in n..(n - 1 + m) PROVE queue'[i] = <<T[i - (n - 1)], d + 1>> /\ i - (n - 1) \in 1..m
    <3>1. i \in 1..(n - 1 + m) /\ ~(i <= n - 1) /\ i - (n - 1) \in 1..m
      BY <1>0, <1>2
    <3>2. queue'[i] = E[i - (n - 1)]
      BY <2>4, <3>1
    <3> QED
      BY <1>2, <3>1, <3>2 DEF E
  <2> QED
    BY <2>4, <2>5, <2>6
<1> HIDE DEF E
\* h of the addresses known before, and of the new ones.
<1>b. PICK g : g = f
  OBVIOUS
<1>6. /\ g \in [enqueued' -> 0..CrawlDepth]
      /\ \A v \in enqueued : g[v] = h[v] /\ v \in enqueued'
      /\ \A i \in 1..m : g[T[i]] = d + 1 /\ T[i] \in enqueued'
  <2>1. ASSUME NEW v \in enqueued' PROVE g[v] \in 0..CrawlDepth
    <3>1. CASE v \in enqueued
      BY <1>0, <1>4, <1>a, <1>b, <3>1
    <3>2. CASE v \notin enqueued
      <4>1. v \in Range(T)
        BY <1>a, <3>2
      <4>2. m > 0
        BY <1>2, <4>1
      <4> QED
        BY <1>0, <1>2, <1>4, <1>a, <1>b, <3>2, <4>2
    <3> QED
      BY <3>1, <3>2
  <2>2. \A i \in 1..m : T[i] \in enqueued' /\ T[i] \notin enqueued
    BY <1>2, <1>a
  <2> QED
    BY <1>a, <1>b, <2>1, <2>2
<1> HIDE DEF f, u, d
<1>7. h[u] = d /\ queue[1][1] = u
  BY <1>0, <1>1, <1>4 DEF InDepthOrder
\* Where an entry of the new queue comes from.
<1>8. ASSUME NEW i \in 1..(n - 1 + m)
      PROVE  \/ /\ i < n /\ i + 1 \in 1..n /\ queue'[i] = queue[i + 1] /\ queue'[i][1] \in enqueued
                /\ g[queue'[i][1]] = h[queue[i + 1][1]] /\ h[queue[i + 1][1]] \in {d, d + 1}
                /\ queue'[i][2] = h[queue[i + 1][1]]
             \/ /\ i >= n /\ i - (n - 1) \in 1..m /\ queue'[i][1] = T[i - (n - 1)] /\ queue'[i][1] \notin enqueued
                /\ g[queue'[i][1]] = d + 1 /\ queue'[i][2] = d + 1
  <2>1. CASE i < n
    <3>1. i \in 1..(n - 1) /\ i + 1 \in 1..n /\ 1 < i + 1
      BY <1>0, <1>2, <2>1
    <3>2. queue'[i] = queue[i + 1] /\ queue'[i][1] \in enqueued
      BY <1>0, <1>5, <3>1
    <3>3. h[queue[i + 1][1]] \in Nat /\ d <= h[queue[i + 1][1]] /\ h[queue[i + 1][1]] <= d + 1 /\ queue[i + 1][2] = h[queue[i + 1][1]]
      <4>1. h[queue[1][1]] <= h[queue[i + 1][1]] /\ h[queue[i + 1][1]] <= h[queue[1][1]] + 1 /\ queue[i + 1][2] = h[queue[i + 1][1]]
        BY <1>1, <1>4, <3>1 DEF InDepthOrder
      <4>2. h[queue[i + 1][1]] \in Nat /\ h[queue[1][1]] = d
        BY <1>0, <1>7, <3>1
      <4>3. d \in Nat
        BY <1>0
      <4> QED
        BY <4>1, <4>2, <4>3
    <3>4. h[queue[i + 1][1]] \in {d, d + 1}
      <4>1. d \in Nat
        BY <1>0
      <4> QED
        BY <3>3, <4>1
    <3> QED
      BY <1>6, <2>1, <3>1, <3>2, <3>3, <3>4
  <2>2. CASE i >= n
    <3>1. i \in n..(n - 1 + m)
      BY <1>0, <1>2, <2>2
    <3>2. queue'[i] = <<T[i - (n - 1)], d + 1>> /\ i - (n - 1) \in 1..m
      BY <1>5, <3>1
    <3> QED
      BY <1>2, <1>6, <2>2, <3>2
  <2> QED
    BY <1>0, <1>2, <2>1, <2>2
<1>9. CrawlTyped(g)'
  <2>1. enqueued' \subseteq DOMAIN site /\ Start \in enqueued' /\ g[Start] = 0
    <3>1. enqueued \subseteq DOMAIN site /\ Start \in enqueued /\ h[Start] = 0
      BY <1>1 DEF CrawlTyped
    <3>2. \A v \in Range(T) : v \in DOMAIN site
      BY <1>2
    <3>3. enqueued' = enqueued \cup Range(T)
      BY <1>a
    <3> QED
      BY <1>6, <3>1, <3>2, <3>3
  <2>2. pages' \in Seq(enqueued') /\ failed' \in Seq(enqueued')
    BY <1>1, <1>3, <1>a, SeqMonotonic DEF CrawlTyped
  <2>3. Len(pages') <= MaxUrls
    BY <1>0, <1>3, <1>4, <1>a
  <2>4. site' = site /\ site \in Sites /\ crawlPhase' = "crawling"
    BY <1>1, <1>a DEF CrawlTyped
  <2>5. IsFiniteSet(enqueued') /\ queue' \in Seq(enqueued' \X Nat) /\ g \in [enqueued' -> 0..CrawlDepth]
    BY <1>2, <1>5, <1>6
  <2> QED
    BY <2>1, <2>2, <2>3, <2>4, <2>5 DEF CrawlTyped
<1>10. InDepthOrder(g)'
  <2>1. ASSUME NEW i \in 1..(n - 1 + m) PROVE queue'[i][2] = g[queue'[i][1]] /\ g[queue'[i][1]] \in {d, d + 1}
    BY <1>8
  <2>2. ASSUME NEW i \in 1..(n - 1 + m), NEW j \in 1..(n - 1 + m)
        PROVE  /\ i < j => g[queue'[i][1]] <= g[queue'[j][1]]
               /\ g[queue'[j][1]] <= g[queue'[i][1]] + 1
    <3>1. g[queue'[i][1]] \in {d, d + 1} /\ g[queue'[j][1]] \in {d, d + 1} /\ d \in Nat
      BY <1>0, <2>1
    <3>2. g[queue'[j][1]] <= g[queue'[i][1]] + 1
      BY <3>1
    <3>3. ASSUME i < j PROVE g[queue'[i][1]] <= g[queue'[j][1]]
      <4>1. CASE j >= n
        <5>1. g[queue'[j][1]] = d + 1
          BY <1>0, <1>2, <1>8, <4>1
        <5> QED
          BY <3>1, <5>1
      <4>2. CASE j < n
        <5>1. i < n /\ i + 1 \in 1..n /\ j + 1 \in 1..n /\ i + 1 < j + 1
          BY <1>0, <1>2, <3>3, <4>2
        <5>2. g[queue'[i][1]] = h[queue[i + 1][1]] /\ g[queue'[j][1]] = h[queue[j + 1][1]]
          <6>1. ~(i >= n) /\ ~(j >= n)
            BY <1>0, <1>2, <4>2, <5>1
          <6>2. g[queue'[i][1]] = h[queue[i + 1][1]]
            BY <1>8, <6>1
          <6>3. g[queue'[j][1]] = h[queue[j + 1][1]]
            BY <1>8, <6>1
          <6> QED
            BY <6>2, <6>3
        <5> QED
          BY <1>1, <5>1, <5>2 DEF InDepthOrder
      <4> QED
        BY <1>0, <1>2, <4>1, <4>2
    <3> QED
      BY <3>2, <3>3
  <2>3. ASSUME NEW v \in enqueued, h[v] <= d, NEW j \in 1..(n - 1 + m) PROVE g[v] <= g[queue'[j][1]]
    <3>1. g[queue'[j][1]] \in {d, d + 1} /\ g[v] = h[v] /\ h[v] \in Nat /\ d \in Nat
      BY <1>0, <1>6, <2>1
    <3> QED
      BY <2>3, <3>1
  <2>4. ASSUME NEW k \in 1..Len(pages'), NEW j \in 1..(n - 1 + m) PROVE g[pages'[k]] <= g[queue'[j][1]]
    <3>1. CASE k = Len(pages) + 1
      <4>1. pages'[k] = u /\ h[u] <= d
        BY <1>0, <1>3, <1>7, <3>1
      <4> QED
        BY <1>0, <2>3, <4>1
    <3>2. CASE k # Len(pages) + 1
      <4>1. k \in 1..Len(pages)
        BY <1>0, <1>3, <3>2
      <4>2. pages'[k] = pages[k] /\ pages[k] \in enqueued /\ h[pages[k]] <= d
        BY <1>0, <1>1, <1>3, <1>4, <1>7, <4>1 DEF InDepthOrder
      <4> QED
        BY <2>3, <4>2
    <3> QED
      BY <3>1, <3>2
  <2>5. ASSUME NEW k \in 1..Len(failed'), NEW j \in 1..(n - 1 + m) PROVE g[failed'[k]] <= g[queue'[j][1]]
    <3>1. failed'[k] \in enqueued /\ h[failed'[k]] <= d
      BY <1>0, <1>a, <1>1, <1>4, <1>7 DEF InDepthOrder
    <3> QED
      BY <2>3, <3>1
  <2> QED
    <3>1. Len(queue') = n - 1 + m
      BY <1>5
    <3>2. \A i \in 1..Len(queue') : queue'[i][2] = g[queue'[i][1]]
      BY <2>1, <3>1
    <3>3. \A i, j \in 1..Len(queue') : i < j => g[queue'[i][1]] <= g[queue'[j][1]]
      BY <2>2, <3>1
    <3>4. \A i, j \in 1..Len(queue') : g[queue'[j][1]] <= g[queue'[i][1]] + 1
      BY <2>2, <3>1
    <3>5. \A k \in 1..Len(pages'), j \in 1..Len(queue') : g[pages'[k]] <= g[queue'[j][1]]
      BY <2>4, <3>1
    <3>6. \A k \in 1..Len(failed'), j \in 1..Len(queue') : g[failed'[k]] <= g[queue'[j][1]]
      BY <2>5, <3>1
    <3> QED
      BY <3>2, <3>3, <3>4, <3>5, <3>6 DEF InDepthOrder
<1>11. EachOnce'
  <2>1. ASSUME NEW i \in 1..Len(pages'), NEW j \in 1..Len(pages'), pages'[i] = pages'[j] PROVE i = j
    <3>1. \A k \in 1..Len(pages) : pages[k] # u
      BY <1>1, <1>4, <1>7 DEF EachOnce
    <3>2. \A k \in 1..Len(pages') : k = Len(pages) + 1 \/ k \in 1..Len(pages)
      BY <1>0, <1>3
    <3>3. \A k, l \in 1..Len(pages) : pages[k] = pages[l] => k = l
      BY <1>1 DEF EachOnce
    <3> QED
      BY <1>3, <2>1, <3>1, <3>2, <3>3
  <2>2. ASSUME NEW i \in 1..(n - 1 + m), NEW j \in 1..(n - 1 + m), queue'[i][1] = queue'[j][1] PROVE i = j
    <3>1. CASE queue'[i][1] \in enqueued
      <4>1. i + 1 \in 1..n /\ j + 1 \in 1..n /\ queue'[i] = queue[i + 1] /\ queue'[j] = queue[j + 1]
        BY <1>8, <2>2, <3>1
      <4>2. i + 1 = j + 1
        BY <1>1, <2>2, <4>1 DEF EachOnce
      <4> QED
        BY <4>2
    <3>2. CASE queue'[i][1] \notin enqueued
      <4>1. /\ i - (n - 1) \in 1..m /\ j - (n - 1) \in 1..m
            /\ T[i - (n - 1)] = T[j - (n - 1)]
        BY <1>8, <2>2, <3>2
      <4>2. i - (n - 1) = j - (n - 1)
        BY <1>2, <4>1
      <4> QED
        BY <1>0, <4>2
    <3> QED
      BY <3>1, <3>2
  <2>3. ASSUME NEW k \in 1..Len(pages'), NEW j \in 1..(n - 1 + m) PROVE pages'[k] # queue'[j][1]
    <3>1. CASE queue'[j][1] \in enqueued
      <4>1. j + 1 \in 1..n /\ queue'[j] = queue[j + 1]
        BY <1>8, <3>1
      <4>2. CASE k = Len(pages) + 1
        <5>1. pages'[k] = queue[1][1] /\ j + 1 # 1
          BY <1>3, <1>7, <4>2
        <5> QED
          BY <1>1, <1>4, <4>1, <5>1 DEF EachOnce
      <4>3. CASE k # Len(pages) + 1
        <5>1. k \in 1..Len(pages) /\ pages'[k] = pages[k]
          BY <1>0, <1>3, <4>3
        <5> QED
          BY <1>1, <4>1, <5>1 DEF EachOnce
      <4> QED
        BY <4>2, <4>3
    <3>2. CASE queue'[j][1] \notin enqueued
      <4>1. pages'[k] \in enqueued
        BY <1>3, ElementOfSeq
      <4> QED
        BY <3>2, <4>1
    <3> QED
      BY <3>1, <3>2
  <2>4. ASSUME NEW v \in enqueued'
        PROVE  \/ \E k \in 1..Len(pages') : pages'[k] = v
               \/ \E k \in 1..Len(failed) : failed[k] = v
               \/ \E j \in 1..(n - 1 + m) : queue'[j][1] = v
    <3>1. CASE v \notin enqueued
      <4>1. PICK i \in 1..m : T[i] = v
        BY <1>2, <1>a, <3>1
      <4>2. i + (n - 1) \in n..(n - 1 + m) /\ i + (n - 1) \in 1..(n - 1 + m) /\ (i + (n - 1)) - (n - 1) = i
        BY <1>0, <1>2
      <4>3. queue'[i + (n - 1)] = <<T[i], d + 1>>
        BY <1>5, <4>2
      <4>4. queue'[i + (n - 1)][1] = v
        BY <4>1, <4>3
      <4> QED
        BY <4>2, <4>4
    <3>2. CASE \E k \in 1..Len(pages) : pages[k] = v
      <4>1. PICK k \in 1..Len(pages) : pages[k] = v
        BY <3>2
      <4>2. k \in 1..Len(pages') /\ pages'[k] = v
        BY <1>0, <1>3, <4>1
      <4> QED
        BY <4>2
    <3>3. CASE \E j \in 1..n : queue[j][1] = v
      <4>1. PICK j \in 1..n : queue[j][1] = v
        BY <3>3
      <4>2. CASE j = 1
        <5>1. Len(pages) + 1 \in 1..Len(pages') /\ pages'[Len(pages) + 1] = v
          BY <1>0, <1>3, <1>7, <4>1, <4>2
        <5> QED
          BY <5>1
      <4>3. CASE j # 1
        <5>1. j - 1 \in 1..(n - 1) /\ j - 1 \in 1..(n - 1 + m) /\ (j - 1) + 1 = j
          BY <1>0, <1>2, <4>3
        <5>2. queue'[j - 1] = queue[j]
          BY <1>5, <5>1
        <5> QED
          BY <4>1, <5>1, <5>2
      <4> QED
        BY <4>2, <4>3
    <3>4. CASE \E k \in 1..Len(failed) : failed[k] = v
      BY <3>4
    <3> QED
      BY <1>1, <3>1, <3>2, <3>3, <3>4 DEF EachOnce
  <2>5. Len(queue') = n - 1 + m /\ failed' = failed
    BY <1>5, <1>a
  <2> QED
    BY <2>1, <2>2, <2>3, <2>4, <2>5 DEF EachOnce
<1>12. Followed(g)'
  <2>0. site' = site
    BY <1>a
  <2>1. SUFFICES ASSUME ~(Cardinality(enqueued') >= 5 * MaxUrls),
                        NEW k \in 1..Len(pages'), g[pages'[k]] < CrawlDepth, NEW v \in site[pages'[k]]
                 PROVE  v \in enqueued' /\ g[v] <= g[pages'[k]] + 1
    BY <2>0 DEF Followed
  <2>2. Cardinality(enqueued) \in Nat /\ Cardinality(enqueued') \in Nat
    BY <1>1, <1>2, FS_CardinalityType DEF CrawlTyped
  <2>3. ~(Cardinality(enqueued) >= 5 * MaxUrls)
    BY <1>2, <1>4, <2>1, <2>2
  <2>4. CASE k = Len(pages) + 1
    <3>1. pages'[k] = u /\ g[u] = d /\ d < CrawlDepth
      BY <1>0, <1>3, <1>6, <1>7, <2>1, <2>4
    <3>2. v \in enqueued'
      BY <1>2, <2>1, <3>1
    <3>3. CASE v \notin enqueued
      <4>1. PICK i \in 1..m : T[i] = v
        BY <1>2, <1>a, <3>2, <3>3
      <4>2. g[v] = d + 1
        BY <1>6, <4>1
      <4> QED
        BY <1>0, <3>1, <3>2, <4>2
    <3>4. ASSUME v \in enqueued, h[v] <= d + 1 PROVE g[v] <= d + 1
      BY <1>6, <3>4
    <3>5. CASE \E i \in 1..Len(pages) : pages[i] = v
      <4>1. v \in enqueued /\ h[v] <= d /\ h[v] \in Nat
        BY <1>0, <1>1, <1>4, <1>7, <3>5 DEF InDepthOrder
      <4> QED
        BY <1>0, <3>1, <3>2, <3>4, <4>1
    <3>6. CASE \E i \in 1..Len(failed) : failed[i] = v
      <4>1. v \in enqueued /\ h[v] <= d /\ h[v] \in Nat
        BY <1>0, <1>1, <1>4, <1>7, <3>6 DEF InDepthOrder
      <4> QED
        BY <1>0, <3>1, <3>2, <3>4, <4>1
    <3>7. CASE \E j \in 1..n : queue[j][1] = v
      <4>1. v \in enqueued /\ h[v] <= d + 1
        BY <1>0, <1>1, <1>4, <1>7, <3>7 DEF InDepthOrder
      <4> QED
        BY <3>1, <3>2, <3>4, <4>1
    <3> QED
      BY <1>1, <3>3, <3>5, <3>6, <3>7 DEF EachOnce
  <2>5. CASE k # Len(pages) + 1
    <3>1. k \in 1..Len(pages) /\ pages'[k] = pages[k] /\ pages[k] \in enqueued
      BY <1>0, <1>3, <2>5
    <3>2. g[pages[k]] = h[pages[k]]
      BY <1>6, <3>1
    <3>3. v \in enqueued /\ h[v] <= h[pages[k]] + 1
      BY <1>1, <2>1, <2>3, <3>1, <3>2 DEF Followed
    <3> QED
      BY <1>6, <3>1, <3>2, <3>3
  <2> QED
    BY <2>4, <2>5
<1>13. ASSUME NEW v \in enqueued' PROVE v \in Within(g[v])'
  <2>1. Within(g[v])' = Within(g[v])
    BY <1>a DEF Within, LinkPath
  <2>2. CASE v \in enqueued
    BY <1>1, <1>6, <2>1, <2>2
  <2>3. CASE v \notin enqueued
    <3>1. PICK i \in 1..m : T[i] = v
      BY <1>2, <1>a, <2>3
    <3>2. v \in site[u] /\ g[v] = d + 1 /\ u \in Within(d)
      BY <1>0, <1>1, <1>2, <1>6, <1>7, <3>1
    <3>3. v \in Within(d + 1)
      BY <1>0, <1>1, <3>2, WithinStep DEF CrawlTyped
    <3> QED
      BY <2>1, <3>2, <3>3
  <2> QED
    BY <2>2, <2>3
<1> QED
  BY <1>9, <1>10, <1>11, <1>12, <1>13 DEF CrawlInv, Crawled

LEMMA CrawlSteps == CrawlInv /\ [CrawlNext]_crawlVars => CrawlInv'
<1> SUFFICES ASSUME CrawlInv, [CrawlNext]_crawlVars PROVE CrawlInv'
  OBVIOUS
<1>1. PICK h : Crawled(h)
  BY DEF CrawlInv
<1>2. CASE UNCHANGED crawlVars
  <2>0. UNCHANGED <<site, queue, enqueued, pages, failed, crawlPhase>>
    BY <1>2 DEF crawlVars
  <2>2. CrawlTyped(h)' /\ InDepthOrder(h)' /\ EachOnce' /\ Followed(h)'
    BY <1>1, <2>0 DEF Crawled, CrawlTyped, InDepthOrder, EachOnce, Followed
  <2>3. \A u \in enqueued' : u \in Within(h[u])'
    BY <1>1, <2>0 DEF Crawled, Within, LinkPath
  <2>1. Crawled(h)'
    BY <2>2, <2>3 DEF Crawled
  <2> QED
    BY <2>1 DEF CrawlInv
<1>3. CASE Return
  <2>1. /\ UNCHANGED <<site, queue, enqueued, pages, failed>> /\ crawlPhase' = "done"
        /\ queue = <<>> \/ Len(pages) >= MaxUrls
    BY <1>3 DEF Return
  <2>2. CrawlTyped(h)'
    BY <1>1, <2>1 DEF Crawled, CrawlTyped
  <2>3. InDepthOrder(h)' /\ EachOnce' /\ Followed(h)'
    BY <1>1, <2>1 DEF Crawled, InDepthOrder, EachOnce, Followed
  <2>4. \A u \in enqueued' : u \in Within(h[u])'
    BY <1>1, <2>1 DEF Crawled, Within, LinkPath
  <2>5. Crawled(h)'
    BY <2>2, <2>3, <2>4 DEF Crawled
  <2> QED
    BY <2>5 DEF CrawlInv
<1>4. CASE Fetch
  <2> DEFINE url == Head(queue)[1]
             depth == Head(queue)[2]
             T == IF depth >= CrawlDepth THEN <<>> ELSE EnqueueLinks(enqueued, site[url])
  <2>1. /\ crawlPhase = "crawling" /\ queue # <<>> /\ Len(pages) < MaxUrls /\ UNCHANGED <<site, crawlPhase>>
        /\ \/ failed' = Append(failed, url) /\ queue' = Tail(queue) /\ UNCHANGED <<enqueued, pages>>
           \/ /\ pages' = Append(pages, url)
              /\ queue' = Tail(queue) \o [i \in DOMAIN T |-> <<T[i], depth + 1>>]
              /\ enqueued' = enqueued \cup Range(T)
              /\ UNCHANGED failed
    BY <1>4 DEF Fetch
  <2>2. CASE failed' = Append(failed, url) /\ queue' = Tail(queue) /\ UNCHANGED <<enqueued, pages>>
    <3>1. Crawled(h)'
      BY <1>1, <2>1, <2>2, FetchFails
    <3> QED
      BY <3>1 DEF CrawlInv
  <2>3. CASE /\ pages' = Append(pages, url)
             /\ queue' = Tail(queue) \o [i \in DOMAIN T |-> <<T[i], depth + 1>>]
             /\ enqueued' = enqueued \cup Range(T)
             /\ UNCHANGED failed
    <3>1. PICK taken : taken = T
      OBVIOUS
    <3>2. IsTargets(taken, url, depth)
      BY <3>1 DEF IsTargets
    <3> HIDE DEF T
    <3>3. PageKept(taken)
      BY <2>1, <2>3, <3>1, <3>2 DEF PageKept
    <3> QED
      BY <1>1, <3>3, FetchKeeps
  <2> QED
    BY <2>1, <2>2, <2>3
<1> QED
  BY <1>2, <1>3, <1>4 DEF CrawlNext

\* With nothing left and nothing failed, the pages are all that the links reach.
LEMMA WholeSite ==
  ASSUME NEW h, Crawled(h), queue = <<>>, failed = <<>>
  PROVE  Range(pages) = Within(CrawlDepth) /\ pages # <<>>
<1>1. CrawlTyped(h) /\ EachOnce /\ Followed(h) /\ \A u \in enqueued : u \in Within(h[u])
  BY DEF Crawled
<1>2. /\ pages \in Seq(enqueued) /\ Len(pages) \in Nat /\ DOMAIN pages = 1..Len(pages)
      /\ site \in Sites /\ Start \in enqueued /\ h[Start] = 0 /\ h \in [enqueued -> 0..CrawlDepth]
      /\ CrawlDepth \in Nat /\ MaxUrls \in Nat \ {0} /\ Len(pages) <= MaxUrls
  BY <1>1, LenProperties, CrawlAssumption DEF CrawlTyped
<1>3. enqueued = Range(pages)
  <2>1. \A i \in 1..Len(pages) : pages[i] \in enqueued
    BY <1>2, ElementOfSeq
  <2>2. Len(queue) = 0 /\ Len(failed) = 0
    OBVIOUS
  <2>3. \A u \in enqueued : \E i \in 1..Len(pages) : pages[i] = u
    BY <1>1, <2>2 DEF EachOnce
  <2> QED
    BY <1>2, <2>1, <2>3 DEF Range
<1>4. Cardinality(enqueued) = Len(pages)
  <2>1. pages \in [1..Len(pages) -> enqueued]
    BY <1>2, LenProperties
  <2>2. \A i, j \in 1..Len(pages) : pages[i] = pages[j] => i = j
    BY <1>1 DEF EachOnce
  <2>3. \A u \in enqueued : \E i \in 1..Len(pages) : pages[i] = u
    BY <1>2, <1>3 DEF Range
  <2>4. pages \in Bijection(1..Len(pages), enqueued)
    BY <2>1, <2>2, <2>3 DEF Bijection, Injection, Surjection, IsInjective
  <2>5. ExistsBijection(1..Len(pages), enqueued)
    BY <2>4 DEF ExistsBijection
  <2> QED
    BY <1>2, <2>5, FS_CountingElements, FS_NatBijection
<1>5. \A k \in 1..Len(pages) : h[pages[k]] < CrawlDepth =>
        \A v \in site[pages[k]] : v \in enqueued /\ h[v] <= h[pages[k]] + 1
  BY <1>1, <1>2, <1>4 DEF Followed
<1>6. \A u \in enqueued : h[u] < CrawlDepth => \A v \in site[u] : v \in enqueued /\ h[v] <= h[u] + 1
  BY <1>2, <1>3, <1>5 DEF Range
<1>7. ASSUME NEW v \in Within(CrawlDepth) PROVE v \in enqueued
  <2>1. PICK k \in 0..CrawlDepth : \E path \in [0..k -> DOMAIN site] : LinkPath(path, k) /\ path[k] = v
    BY DEF Within
  <2>2. PICK path \in [0..k -> DOMAIN site] : LinkPath(path, k) /\ path[k] = v
    BY <2>1
  <2> DEFINE bad == {i \in 0..k : ~(path[i] \in enqueued /\ h[path[i]] <= i)}
  <2>3. k \in Nat /\ k <= CrawlDepth /\ bad \in SUBSET Nat
    BY <1>2
  <2>4. bad = {}
    <3> SUFFICES ASSUME bad # {} PROVE FALSE
      OBVIOUS
    <3>1. PICK i \in bad : \A j \in bad : i <= j
      BY <2>3, LeastOfNaturals
    <3>2. i \in 0..k /\ ~(path[i] \in enqueued /\ h[path[i]] <= i)
      OBVIOUS
    <3>3. path[0] = Start /\ 0 <= 0
      BY <2>2 DEF LinkPath
    <3>4. i # 0
      BY <1>2, <3>2, <3>3
    <3>5. i \in 1..k /\ i - 1 \in 0..k /\ ~(i <= i - 1) /\ i - 1 < CrawlDepth
      BY <1>2, <2>3, <3>2, <3>4
    <3>6. path[i - 1] \in enqueued /\ h[path[i - 1]] <= i - 1
      BY <3>1, <3>5
    <3>7. path[i] \in site[path[i - 1]]
      BY <2>2, <3>5 DEF LinkPath
    <3>8. h[path[i - 1]] \in Nat
      BY <1>2, <3>6
    <3>9. path[i] \in enqueued /\ h[path[i]] <= h[path[i - 1]] + 1
      BY <1>2, <1>6, <3>5, <3>6, <3>7, <3>8
    <3>10. h[path[i]] \in Nat
      BY <1>2, <3>9
    <3> QED
      BY <3>2, <3>5, <3>6, <3>8, <3>9, <3>10
  <2>5. k \in 0..k
    BY <2>3
  <2> QED
    BY <2>2, <2>4, <2>5
<1>8. ASSUME NEW u \in enqueued PROVE u \in Within(CrawlDepth)
  <2>1. h[u] \in Nat /\ h[u] <= CrawlDepth /\ u \in Within(h[u])
    BY <1>1, <1>2
  <2> QED
    BY <1>2, <2>1, WithinStep
<1> QED
  BY <1>2, <1>3, <1>7, <1>8 DEF Range

LEMMA CrawlSaysWhatItHas == CrawlInv => AvailableIsComplete
<1> SUFFICES ASSUME CrawlInv, crawlPhase = "done"
             PROVE  AvailableIsComplete
  BY DEF AvailableIsComplete
<1>1. PICK h : Crawled(h)
  BY DEF CrawlInv
<1>2. CrawlTyped(h) /\ EachOnce /\ \A u \in enqueued : u \in Within(h[u])
  BY <1>1 DEF Crawled
<1>3. pages \in Seq(enqueued) /\ DOMAIN pages = 1..Len(pages) /\ site \in Sites /\ h \in [enqueued -> 0..CrawlDepth]
  BY <1>2, LenProperties DEF CrawlTyped
<1>4. IsInjective(pages)
  BY <1>2, <1>3 DEF IsInjective, EachOnce
<1>5. Range(pages) \subseteq Within(CrawlDepth)
  <2>1. ASSUME NEW u \in enqueued PROVE u \in Within(CrawlDepth)
    <3>1. CrawlDepth \in Nat /\ h[u] \in Nat /\ h[u] <= CrawlDepth /\ u \in Within(h[u])
      BY <1>2, <1>3, CrawlAssumption
    <3> QED
      BY <1>3, <3>1, WithinStep
  <2>2. \A i \in 1..Len(pages) : pages[i] \in enqueued
    BY <1>3, ElementOfSeq
  <2> QED
    BY <1>3, <2>1, <2>2 DEF Range
<1>6. queue = <<>> /\ failed = <<>> => Range(pages) = Within(CrawlDepth) /\ pages # <<>>
  BY <1>1, WholeSite
<1> DEFINE whole == Range(pages) = Within(CrawlDepth)
<1>7. DataState = "AVAILABLE" => whole
  <2>1. failed # <<>> \/ queue # <<>> => DataState = "PARTIAL"
    BY DEF DataState
  <2>2. DataState = "AVAILABLE" => queue = <<>> /\ failed = <<>>
    BY <2>1
  <2> QED
    BY <1>6, <2>2
<1>8. ~Truncated /\ failed = <<>> => DataState = "AVAILABLE"
  BY <1>6 DEF DataState, Truncated
<1>9. ~Truncated /\ failed = <<>> => whole
  BY <1>6 DEF Truncated
<1>10. ResultStatus = "complete" /\ ~RunWarned => whole
  BY <1>9 DEF RunWarned
<1> QED
  BY <1>4, <1>5, <1>7, <1>8, <1>9, <1>10 DEF AvailableIsComplete

\* A crawl that calls its data available has every page within the depth bound, each
\* once and no other, for any site, any bounds and any failures (_crawl of crawler.py).
THEOREM CrawlsAreComplete == CrawlSpec => []AvailableIsComplete
<1>1. CrawlInit => CrawlInv
  BY CrawlStarts
<1>2. CrawlInv /\ [CrawlNext]_crawlVars => CrawlInv'
  BY CrawlSteps
<1>3. CrawlInv => AvailableIsComplete
  BY CrawlSaysWhatItHas
<1> QED
  BY <1>1, <1>2, <1>3, PTL DEF CrawlSpec

-----------------------------------------------------------------------------
(* The session memory.                                                     *)

\* What is written in a file was completed or cut short, each event once and in order.
WrittenInOrder(file) ==
  /\ \A i \in 1..Len(file) : /\ file[i].event <= appended
                             /\ file[i].event \in kept[file[i].session] \cup cut
  /\ \A i, k \in 1..Len(file) : i < k => file[i].event < file[k].event

Keeps(file, s) == \A e \in kept[s] : \E i \in 1..Len(file) : file[i].session = s /\ file[i].event = e

MemoryTyped ==
  /\ lines \in Seq(Line) /\ rewrite \in Seq(Line)
  /\ deleting \in Sessions \cup {"none"}
  /\ appended \in Nat /\ appended <= MaxEvents
  /\ kept \in [Sessions -> SUBSET (1..appended)] /\ cut \in SUBSET (1..appended)

MemoryInv ==
  /\ MemoryTyped
  /\ WrittenInOrder(lines) /\ \A s \in Sessions : Keeps(lines, s)
  /\ deleting # "none" =>
       /\ WrittenInOrder(rewrite) /\ \A s \in Sessions \ {deleting} : Keeps(rewrite, s)
       /\ \A i \in 1..Len(rewrite) : rewrite[i].session # deleting

LEMMA LineFields ==
  ASSUME NEW l \in Line
  PROVE  /\ l.session \in Sessions /\ l.event \in 1..MaxEvents /\ l.event \in Int
         /\ [l EXCEPT !.written = "whole"] \in Line
         /\ [l EXCEPT !.written = "whole"].session = l.session
         /\ [l EXCEPT !.written = "whole"].event = l.event
BY MemoryAssumption DEF Line

\* One more line: what append writes, whole or not.
LEMMA LineAppended ==
  ASSUME MemoryInv, deleting = "none", appended < MaxEvents,
         NEW s \in Sessions, NEW l \in Line, l.session = s, l.event = appended + 1,
         appended' = appended + 1, lines' = Append(lines, l),
         \/ kept' = [kept EXCEPT ![s] = @ \cup {appended + 1}] /\ cut' = cut
         \/ kept' = kept /\ cut' = cut \cup {appended + 1},
         UNCHANGED <<rewrite, deleting>>
  PROVE  MemoryInv'
<1>1. /\ lines \in Seq(Line) /\ Len(lines) \in Nat /\ appended \in Nat /\ appended' \in Nat
      /\ kept \in [Sessions -> SUBSET (1..appended)] /\ cut \in SUBSET (1..appended)
      /\ \A i \in 1..Len(lines) : lines[i].session \in Sessions /\ lines[i].event \in Int
  <2>1. lines \in Seq(Line) /\ Len(lines) \in Nat
    BY LenProperties DEF MemoryInv, MemoryTyped
  <2>2. /\ appended \in Nat /\ kept \in [Sessions -> SUBSET (1..appended)] /\ cut \in SUBSET (1..appended)
    BY DEF MemoryInv, MemoryTyped
  <2>3. appended' = appended + 1
    OBVIOUS
  <2>4. \A i \in 1..Len(lines) : lines[i] \in Line
    BY <2>1, ElementOfSeq
  <2>5. \A i \in 1..Len(lines) : lines[i].session \in Sessions /\ lines[i].event \in Int
    BY <2>4, LineFields
  <2>6. appended' \in Nat
    BY <2>2, <2>3
  <2> QED
    BY <2>1, <2>2, <2>5, <2>6
<1>2. /\ lines' \in Seq(Line) /\ Len(lines') = Len(lines) + 1
      /\ \A i \in 1..Len(lines) : lines'[i] = lines[i]
      /\ lines'[Len(lines) + 1] = l
  BY <1>1, AppendProperties
<1>3. /\ kept' \in [Sessions -> SUBSET (1..appended')] /\ cut' \in SUBSET (1..appended')
      /\ \A t \in Sessions : kept[t] \subseteq kept'[t] /\ (t # s => kept'[t] = kept[t])
      /\ kept'[s] \subseteq kept[s] \cup {appended + 1} /\ cut \subseteq cut'
      /\ appended + 1 \in kept'[s] \cup cut'
  <2>1. 1..appended \subseteq 1..appended' /\ appended + 1 \in 1..appended'
    BY <1>1
  <2>2. CASE kept' = [kept EXCEPT ![s] = @ \cup {appended + 1}] /\ cut' = cut
    BY <1>1, <2>1, <2>2
  <2>3. CASE kept' = kept /\ cut' = cut \cup {appended + 1}
    BY <1>1, <2>1, <2>3
  <2> QED
    BY <2>2, <2>3
<1>4. \A i \in 1..Len(lines') : i = Len(lines) + 1 \/ i \in 1..Len(lines)
  BY <1>1, <1>2
<1>5. MemoryTyped'
  <2>1. /\ rewrite' = rewrite /\ deleting' = deleting /\ rewrite \in Seq(Line)
        /\ deleting \in Sessions \cup {"none"} /\ appended <= MaxEvents
    BY DEF MemoryInv, MemoryTyped
  <2>2. MaxEvents \in Nat /\ appended' <= MaxEvents
    BY <1>1, <2>1, MemoryAssumption
  <2> QED
    BY <1>1, <1>2, <1>3, <2>1, <2>2 DEF MemoryTyped
<1>6. WrittenInOrder(lines)'
  <2>1. ASSUME NEW i \in 1..Len(lines')
        PROVE  lines'[i].event <= appended' /\ lines'[i].event \in kept'[lines'[i].session] \cup cut'
    <3>1. CASE i = Len(lines) + 1
      BY <1>1, <1>2, <1>3, <3>1
    <3>2. CASE i \in 1..Len(lines)
      <4>1. lines[i].event <= appended /\ lines[i].event \in kept[lines[i].session] \cup cut
        BY <3>2 DEF MemoryInv, WrittenInOrder
      <4> QED
        BY <1>1, <1>2, <1>3, <3>2, <4>1
    <3> QED
      BY <1>4, <3>1, <3>2
  <2>2. ASSUME NEW i \in 1..Len(lines'), NEW k \in 1..Len(lines'), i < k
        PROVE  lines'[i].event < lines'[k].event
    <3>1. i \in 1..Len(lines)
      BY <1>1, <1>2, <2>2
    <3>2. CASE k = Len(lines) + 1
      <4>1. lines[i].event <= appended /\ lines[i].event \in Int
        BY <1>1, <3>1 DEF MemoryInv, WrittenInOrder
      <4> QED
        BY <1>1, <1>2, <3>1, <3>2, <4>1
    <3>3. CASE k \in 1..Len(lines)
      <4>1. lines[i].event < lines[k].event
        BY <2>2, <3>1, <3>3 DEF MemoryInv, WrittenInOrder
      <4> QED
        BY <1>2, <3>1, <3>3, <4>1
    <3> QED
      BY <1>4, <3>2, <3>3
  <2> QED
    BY <2>1, <2>2 DEF WrittenInOrder
<1>7. ASSUME NEW t \in Sessions PROVE Keeps(lines, t)'
  <2>1. ASSUME NEW e \in kept'[t] PROVE \E i \in 1..Len(lines') : lines'[i].session = t /\ lines'[i].event = e
    <3>1. CASE e \in kept[t]
      <4>1. PICK i \in 1..Len(lines) : lines[i].session = t /\ lines[i].event = e
        BY <3>1 DEF MemoryInv, Keeps
      <4>2. i \in 1..Len(lines') /\ lines'[i] = lines[i]
        BY <1>1, <1>2
      <4> QED
        BY <4>1, <4>2
    <3>2. CASE e \notin kept[t]
      <4>1. t = s /\ e = appended + 1
        BY <1>3, <2>1, <3>2
      <4>2. Len(lines) + 1 \in 1..Len(lines')
        BY <1>1, <1>2
      <4> QED
        BY <1>2, <4>1, <4>2
    <3> QED
      BY <3>1, <3>2
  <2> QED
    BY <2>1 DEF Keeps
<1> QED
  BY <1>5, <1>6, <1>7 DEF MemoryInv

\* What a deletion is about to write: the lines of the others, in their order.
LEMMA OthersRewritten ==
  ASSUME MemoryInv, NEW s \in Sessions, DeleteReads(s)
  PROVE  MemoryInv'
<1> DEFINE places == DOMAIN lines \ LinesOf(s)
           O == Forward(places)
<1>1. /\ lines \in Seq(Line) /\ Len(lines) \in Nat /\ DOMAIN lines = 1..Len(lines)
      /\ \A i \in 1..Len(lines) : lines[i] \in Line
  BY ElementOfSeq, LenProperties DEF MemoryInv, MemoryTyped
<1>2. /\ rewrite' = [i \in DOMAIN O |-> [lines[O[i]] EXCEPT !.written = "whole"]]
      /\ deleting' = s /\ lines' = lines /\ appended' = appended /\ kept' = kept /\ cut' = cut
  BY DEF DeleteReads
<1>3. IsFiniteSet(places) /\ places \subseteq Int /\ places \subseteq 1..Len(lines)
  <2>1. IsFiniteSet(1..Len(lines))
    BY <1>1, FS_Interval
  <2> QED
    BY <1>1, <2>1, FS_Subset
<1>4. \A i \in places : lines[i].session # s
  BY DEF LinesOf
<1>5. \A i \in 1..Len(lines) : lines[i].session # s => i \in places
  BY <1>1 DEF LinesOf
<1> HIDE DEF places, O
<1>6. Lists(O, places)
  <2>1. O = ByRank(places)
    BY DEF O, Forward, ByRank
  <2> QED
    BY <1>3, <2>1, ByRankLists
<1>7. PICK n : n = Cardinality(places)
  OBVIOUS
<1>8. /\ n \in Nat /\ DOMAIN O = 1..n /\ \A i \in 1..n : O[i] \in places /\ O[i] \in 1..Len(lines)
      /\ \A i, j \in 1..n : i < j => O[i] < O[j]
      /\ \A u \in places : \E i \in 1..n : O[i] = u
  BY <1>3, <1>6, <1>7 DEF Lists
<1>9. \A i \in 1..n : /\ rewrite'[i] \in Line /\ rewrite'[i].session = lines[O[i]].session
                      /\ rewrite'[i].event = lines[O[i]].event
  <2> TAKE i \in 1..n
  <2>1. lines[O[i]] \in Line
    BY <1>1, <1>8
  <2>2. rewrite'[i] = [lines[O[i]] EXCEPT !.written = "whole"]
    BY <1>2, <1>8
  <2> QED
    BY <2>1, <2>2, LineFields
<1>10. rewrite' \in Seq(Line) /\ Len(rewrite') = n
  <2>1. rewrite' \in [1..n -> Line]
    BY <1>2, <1>8, <1>9
  <2> QED
    BY <1>8, <2>1
<1>11. MemoryTyped'
  BY <1>2, <1>10 DEF MemoryInv, MemoryTyped
<1>12. WrittenInOrder(lines)' /\ \A t \in Sessions : Keeps(lines, t)'
  BY <1>2 DEF MemoryInv, WrittenInOrder, Keeps
<1>13. WrittenInOrder(rewrite)'
  <2>1. ASSUME NEW i \in 1..n
        PROVE  rewrite'[i].event <= appended /\ rewrite'[i].event \in kept[rewrite'[i].session] \cup cut
    BY <1>8, <1>9 DEF MemoryInv, WrittenInOrder
  <2>2. ASSUME NEW i \in 1..n, NEW k \in 1..n, i < k PROVE rewrite'[i].event < rewrite'[k].event
    <3>1. O[i] < O[k]
      BY <1>8, <2>2
    <3> QED
      BY <1>8, <1>9, <3>1 DEF MemoryInv, WrittenInOrder
  <2> QED
    BY <1>2, <1>10, <2>1, <2>2 DEF WrittenInOrder
<1>14. ASSUME NEW t \in Sessions \ {s} PROVE Keeps(rewrite, t)'
  <2>1. ASSUME NEW e \in kept[t] PROVE \E i \in 1..n : rewrite'[i].session = t /\ rewrite'[i].event = e
    <3>1. PICK j \in 1..Len(lines) : lines[j].session = t /\ lines[j].event = e
      BY DEF MemoryInv, Keeps
    <3>2. PICK i \in 1..n : O[i] = j
      BY <1>5, <1>8, <3>1
    <3> QED
      BY <1>9, <3>1, <3>2
  <2> QED
    BY <1>2, <1>10, <2>1 DEF Keeps
<1>15. \A i \in 1..n : rewrite'[i].session # s
  <2> TAKE i \in 1..n
  <2>1. O[i] \in places
    BY <1>8
  <2>2. lines[O[i]].session # s
    BY <1>4, <2>1
  <2> QED
    BY <1>9, <2>2
<1>16. \A i \in 1..Len(rewrite') : rewrite'[i].session # deleting'
  <2>1. Len(rewrite') = n /\ deleting' = s
    BY <1>2, <1>10
  <2> QED
    BY <1>15, <2>1
<1>17. \A t \in Sessions \ {deleting'} : Keeps(rewrite, t)'
  BY <1>2, <1>14
<1> QED
  BY <1>11, <1>12, <1>13, <1>16, <1>17 DEF MemoryInv

LEMMA MemoryStarts == MemoryInit => MemoryInv
<1> SUFFICES ASSUME MemoryInit PROVE MemoryInv
  OBVIOUS
<1>1. /\ lines = <<>> /\ rewrite = <<>> /\ deleting = "none" /\ appended = 0
      /\ kept = [s \in Sessions |-> {}] /\ cut = {}
  BY DEF MemoryInit
<1>2. MemoryTyped
  <2>1. lines \in Seq(Line) /\ rewrite \in Seq(Line)
    BY <1>1, EmptySeq
  <2> QED
    BY <1>1, <2>1, MemoryAssumption DEF MemoryTyped
<1>3. Len(lines) = 0 /\ \A s \in Sessions : kept[s] = {}
  BY <1>1
<1>4. WrittenInOrder(lines) /\ \A s \in Sessions : Keeps(lines, s)
  BY <1>3 DEF WrittenInOrder, Keeps
<1> QED
  BY <1>1, <1>2, <1>4 DEF MemoryInv

LEMMA MemorySteps == MemoryInv /\ [MemoryNext]_memoryVars => MemoryInv'
<1> SUFFICES ASSUME MemoryInv, [MemoryNext]_memoryVars PROVE MemoryInv'
  OBVIOUS
<1>0. /\ MemoryTyped /\ WrittenInOrder(lines) /\ \A s \in Sessions : Keeps(lines, s)
      /\ deleting # "none" =>
           /\ WrittenInOrder(rewrite) /\ \A s \in Sessions \ {deleting} : Keeps(rewrite, s)
           /\ \A i \in 1..Len(rewrite) : rewrite[i].session # deleting
  BY DEF MemoryInv
<1>1. CASE UNCHANGED memoryVars
  BY <1>0, <1>1 DEF memoryVars, MemoryInv, MemoryTyped, WrittenInOrder, Keeps
<1>2. ASSUME NEW s \in Sessions, NEW splits \in BOOLEAN, AppendEvent(s, splits) PROVE MemoryInv'
  <2>1. /\ deleting = "none" /\ appended < MaxEvents /\ appended' = appended + 1
        /\ lines' = Append(lines, [session |-> s, event |-> appended + 1, written |-> "whole", splits |-> splits])
        /\ kept' = [kept EXCEPT ![s] = @ \cup {appended + 1}]
        /\ UNCHANGED <<rewrite, deleting, cut>>
    BY <1>2 DEF AppendEvent
  <2>2. [session |-> s, event |-> appended + 1, written |-> "whole", splits |-> splits] \in Line
    BY <1>0, <2>1, MemoryAssumption DEF Line, MemoryTyped
  <2> QED
    BY <2>1, <2>2, LineAppended
<1>3. ASSUME NEW s \in Sessions, NEW written \in {"unended", "torn"}, AppendCutShort(s, written) PROVE MemoryInv'
  <2>1. /\ deleting = "none" /\ appended < MaxEvents /\ appended' = appended + 1
        /\ lines' = Append(lines, [session |-> s, event |-> appended + 1, written |-> written, splits |-> FALSE])
        /\ cut' = cut \cup {appended + 1}
        /\ UNCHANGED <<rewrite, deleting, kept>>
    BY <1>3 DEF AppendCutShort
  <2>2. [session |-> s, event |-> appended + 1, written |-> written, splits |-> FALSE] \in Line
    BY <1>0, <2>1, MemoryAssumption DEF Line, MemoryTyped
  <2> QED
    BY <2>1, <2>2, LineAppended
<1>4. ASSUME NEW s \in Sessions, DeleteReads(s) PROVE MemoryInv'
  BY <1>4, OthersRewritten
<1>5. CASE DeleteReplaces
  <2>1. /\ deleting # "none" /\ lines' = rewrite /\ kept' = [kept EXCEPT ![deleting] = {}]
        /\ rewrite' = <<>> /\ deleting' = "none" /\ appended' = appended /\ cut' = cut
    BY <1>5 DEF DeleteReplaces
  <2>2. MemoryTyped'
    <3>1. <<>> \in Seq(Line)
      BY EmptySeq
    <3>2. kept' \in [Sessions -> SUBSET (1..appended)]
      BY <1>0, <2>1 DEF MemoryTyped
    <3> QED
      BY <1>0, <2>1, <3>1, <3>2 DEF MemoryTyped
  <2>3. \A i \in 1..Len(rewrite) : rewrite[i].session \in Sessions
    BY <1>0, LineFields, ElementOfSeq DEF MemoryTyped
  <2>4. \A t \in Sessions : kept'[t] = IF t = deleting THEN {} ELSE kept[t]
    BY <1>0, <2>1 DEF MemoryTyped
  <2>5. WrittenInOrder(lines)'
    BY <1>0, <2>1, <2>3, <2>4 DEF WrittenInOrder
  <2>6. \A t \in Sessions : Keeps(lines, t)'
    BY <1>0, <2>1, <2>4 DEF Keeps
  <2> QED
    BY <2>1, <2>2, <2>5, <2>6 DEF MemoryInv
<1>6. CASE DeleteCutShort
  <2>1. rewrite' = <<>> /\ deleting' = "none" /\ UNCHANGED <<lines, appended, kept, cut>>
    BY <1>6 DEF DeleteCutShort
  <2>2. MemoryTyped'
    <3>1. <<>> \in Seq(Line)
      BY EmptySeq
    <3> QED
      BY <1>0, <2>1, <3>1 DEF MemoryTyped
  <2>3. WrittenInOrder(lines)' /\ \A t \in Sessions : Keeps(lines, t)'
    BY <1>0, <2>1 DEF WrittenInOrder, Keeps
  <2> QED
    BY <2>1, <2>2, <2>3 DEF MemoryInv
<1> QED
  BY <1>1, <1>2, <1>3, <1>4, <1>5, <1>6 DEF MemoryNext

LEMMA MemoryKeeps == MemoryInv => NoSilentLoss
<1> SUFFICES ASSUME MemoryInv, NEW s \in Sessions
             PROVE  /\ \A i, k \in DOMAIN Load(s) : i < k => Load(s)[i] < Load(s)[k]
                    /\ kept[s] \subseteq {Load(s)[i] : i \in DOMAIN Load(s)}
                    /\ {Load(s)[i] : i \in DOMAIN Load(s)} \subseteq kept[s] \cup cut
  BY DEF NoSilentLoss
<1> DEFINE places == LinesOf(s)
           O == Forward(places)
<1>1. /\ Len(lines) \in Nat /\ DOMAIN lines = 1..Len(lines) /\ WrittenInOrder(lines) /\ Keeps(lines, s)
  BY LenProperties DEF MemoryInv, MemoryTyped
<1>2. IsFiniteSet(places) /\ places \subseteq Int /\ places \subseteq 1..Len(lines)
  <2>1. IsFiniteSet(1..Len(lines))
    BY <1>1, FS_Interval
  <2>2. places \subseteq 1..Len(lines)
    BY <1>1 DEF LinesOf
  <2> QED
    BY <1>1, <2>1, <2>2, FS_Subset
<1>3. \A i \in places : lines[i].session = s
  BY DEF LinesOf
<1>4. \A i \in 1..Len(lines) : lines[i].session = s => i \in places
  BY <1>1 DEF LinesOf
<1>5. Load(s) = [i \in DOMAIN O |-> lines[O[i]].event]
  BY DEF Load
<1> HIDE DEF places, O
<1>6. Lists(O, places)
  <2>1. O = ByRank(places)
    BY DEF O, Forward, ByRank
  <2> QED
    BY <1>2, <2>1, ByRankLists
<1>7. PICK n : n = Cardinality(places)
  OBVIOUS
<1>8. /\ n \in Nat /\ DOMAIN O = 1..n /\ \A i \in 1..n : O[i] \in places /\ O[i] \in 1..Len(lines)
      /\ \A i, j \in 1..n : i < j => O[i] < O[j]
      /\ \A u \in places : \E i \in 1..n : O[i] = u
  BY <1>2, <1>6, <1>7 DEF Lists
<1>9. DOMAIN Load(s) = 1..n /\ \A i \in 1..n : Load(s)[i] = lines[O[i]].event
  BY <1>5, <1>8
<1>10. ASSUME NEW i \in 1..n, NEW k \in 1..n, i < k PROVE Load(s)[i] < Load(s)[k]
  <2>1. O[i] < O[k]
    BY <1>8, <1>10
  <2> QED
    BY <1>1, <1>8, <1>9, <2>1 DEF WrittenInOrder
<1>11. ASSUME NEW e \in kept[s] PROVE \E i \in 1..n : Load(s)[i] = e
  <2>1. PICK j \in 1..Len(lines) : lines[j].session = s /\ lines[j].event = e
    BY <1>1 DEF Keeps
  <2>2. PICK i \in 1..n : O[i] = j
    BY <1>4, <1>8, <2>1
  <2> QED
    BY <1>9, <2>1, <2>2
<1>12. ASSUME NEW i \in 1..n PROVE Load(s)[i] \in kept[s] \cup cut
  BY <1>1, <1>3, <1>8, <1>9 DEF WrittenInOrder
<1> QED
  BY <1>9, <1>10, <1>11, <1>12

\* No completed event of a session is lost in silence or comes back after it was deleted,
\* for any sessions, any number of events and any appends or deletions cut short
\* (append, load and delete_session of memory.py).
THEOREM MemoryLosesNothing == MemorySpec => []NoSilentLoss
<1>1. MemoryInit => MemoryInv
  BY MemoryStarts
<1>2. MemoryInv /\ [MemoryNext]_memoryVars => MemoryInv'
  BY MemorySteps
<1>3. MemoryInv => NoSilentLoss
  BY MemoryKeeps
<1> QED
  BY <1>1, <1>2, <1>3, PTL DEF MemorySpec

-----------------------------------------------------------------------------
(* The finding registry.                                                   *)

EvidenceStates == {"VALID", "DUPLICATE", "STALE", "MISSING", "CONTRADICTORY"}

LEMMA OrderOfStates ==
  /\ \A state \in EvidenceStates : EvidenceOrder[state] \in 0..4
  /\ \A first, second \in EvidenceStates : EvidenceOrder[first] = EvidenceOrder[second] => first = second
  /\ EvidenceOrder["VALID"] = 0
BY DEF EvidenceOrder, EvidenceStates

LEMMA WorseStates ==
  ASSUME NEW first \in EvidenceStates, NEW second \in EvidenceStates
  PROVE  /\ Worse(first, second) \in EvidenceStates
         /\ Worse(first, second) = "VALID" <=> first = "VALID" /\ second = "VALID"
<1>1. EvidenceOrder[first] \in 0..4 /\ EvidenceOrder[second] \in 0..4
  BY OrderOfStates
<1>2. "VALID" \in EvidenceStates
  BY DEF EvidenceStates
<1>3. first = "VALID" <=> EvidenceOrder[first] = 0
  BY <1>2, OrderOfStates
<1>4. second = "VALID" <=> EvidenceOrder[second] = 0
  BY <1>2, OrderOfStates
<1>5. CASE EvidenceOrder[first] >= EvidenceOrder[second]
  BY <1>1, <1>3, <1>4, <1>5 DEF Worse
<1>6. CASE ~(EvidenceOrder[first] >= EvidenceOrder[second])
  BY <1>1, <1>3, <1>4, <1>6 DEF Worse
<1> QED
  BY <1>5, <1>6

LEMMA WorstState ==
  ASSUME NEW states \in SUBSET EvidenceStates
  PROVE  Worst(states) \in EvidenceStates /\ (Worst(states) = "VALID" <=> states \subseteq {"VALID"})
<1> DEFINE S == {"VALID"} \cup states
<1>1. S \subseteq EvidenceStates /\ "VALID" \in S /\ "VALID" \in EvidenceStates
  BY DEF EvidenceStates
<1> HIDE DEF S
<1>2. \E worst \in S : \A state \in S : EvidenceOrder[state] <= EvidenceOrder[worst]
  <2>1. \A state \in S : \E n \in {0, 1, 2, 3, 4} : EvidenceOrder[state] = n
    BY <1>1, OrderOfStates
  <2>2. CASE \E state \in S : EvidenceOrder[state] = 4
    BY <2>1, <2>2
  <2>3. CASE ~(\E state \in S : EvidenceOrder[state] = 4) /\ \E state \in S : EvidenceOrder[state] = 3
    BY <2>1, <2>3
  <2>4. CASE ~(\E state \in S : EvidenceOrder[state] \in {3, 4}) /\ \E state \in S : EvidenceOrder[state] = 2
    BY <2>1, <2>4
  <2>5. CASE ~(\E state \in S : EvidenceOrder[state] \in {2, 3, 4}) /\ \E state \in S : EvidenceOrder[state] = 1
    BY <2>1, <2>5
  <2>6. CASE ~(\E state \in S : EvidenceOrder[state] \in {1, 2, 3, 4})
    BY <1>1, <2>1, <2>6
  <2> QED
    BY <2>2, <2>3, <2>4, <2>5, <2>6
<1>3. Worst(states) \in S /\ \A state \in S : EvidenceOrder[state] <= EvidenceOrder[Worst(states)]
  <2>1. Worst(states) = CHOOSE worst \in S : \A state \in S : EvidenceOrder[state] <= EvidenceOrder[worst]
    BY DEF Worst, S
  <2> QED
    BY <1>2, <2>1
<1>4. ASSUME Worst(states) = "VALID", NEW state \in states PROVE state = "VALID"
  <2>1. state \in S /\ state \in EvidenceStates
    BY DEF S
  <2>2. EvidenceOrder[state] <= 0 /\ EvidenceOrder[state] \in 0..4
    BY <1>3, <1>4, <2>1, OrderOfStates
  <2>3. EvidenceOrder[state] = EvidenceOrder["VALID"]
    BY <2>2, OrderOfStates
  <2> QED
    BY <1>1, <2>1, <2>3, OrderOfStates
<1>5. ASSUME states \subseteq {"VALID"} PROVE Worst(states) = "VALID"
  BY <1>3, <1>5 DEF S
<1> QED
  BY <1>1, <1>3, <1>4, <1>5

LEMMA StateOfFinding ==
  ASSUME NEW output, NEW finding
  PROVE  EvidenceState(output, finding) \in EvidenceStates
<1>1. \A observed : ReferenceState(observed) \in EvidenceStates
  BY DEF ReferenceState, EvidenceStates
<1>2. "MISSING" \in EvidenceStates /\ "DUPLICATE" \in EvidenceStates
  BY DEF EvidenceStates
<1> DEFINE states == {ReferenceState(output.evidence[r]) : r \in finding.refs}
                     \cup (IF finding.repeats THEN {"DUPLICATE"} ELSE {})
<1>3. states \subseteq EvidenceStates
  BY <1>1, <1>2
<1>4. EvidenceState(output, finding) = IF finding.refs = {} THEN "MISSING" ELSE Worst(states)
  BY DEF EvidenceState
<1> HIDE DEF states
<1> QED
  BY <1>2, <1>3, <1>4, WorstState

IsRecord(r) ==
  r = [finding |-> r.finding, refs |-> r.refs, severity |-> r.severity, agents |-> r.agents,
       evidence |-> r.evidence, issues |-> r.issues, state |-> r.state]

LEMMA RecordMade ==
  ASSUME NEW agent, NEW finding, NEW evidence, NEW r, r = NewRecord(agent, finding, evidence)
  PROVE  IsRecord(r) /\ r.refs = finding.refs /\ r.evidence = evidence /\ r.issues = OwnIssues(finding)
BY DEF NewRecord, IsRecord

LEMMA RecordMerged ==
  ASSUME NEW record, IsRecord(record), NEW agent, NEW finding, NEW evidence,
         NEW r, r = Merge(record, agent, finding, evidence)
  PROVE  /\ IsRecord(r) /\ r.refs = record.refs \cup finding.refs
         /\ r.issues = record.issues \cup OwnIssues(finding)
         /\ r.evidence = Worse(record.evidence, IF record.refs \cap finding.refs # {}
                                                THEN Worse(evidence, "DUPLICATE") ELSE evidence)
<1> DEFINE e == Worse(record.evidence, IF record.refs \cap finding.refs # {} THEN Worse(evidence, "DUPLICATE") ELSE evidence)
           s == IF SeverityOrder[finding.severity] > SeverityOrder[record.severity] THEN finding.severity ELSE record.severity
           a == IF agent \in Range(record.agents) THEN record.agents ELSE Append(record.agents, agent)
<1>1. r = [record EXCEPT !.agents = a, !.refs = record.refs \cup finding.refs, !.evidence = e,
                         !.issues = record.issues \cup OwnIssues(finding), !.severity = s]
  BY DEF Merge
<1> HIDE DEF e, s, a
<1>2. record = [finding |-> record.finding, refs |-> record.refs, severity |-> record.severity, agents |-> record.agents,
       evidence |-> record.evidence, issues |-> record.issues, state |-> record.state]
  BY DEF IsRecord
<1>3. r = [finding |-> record.finding, refs |-> record.refs \cup finding.refs, severity |-> s, agents |-> a,
           evidence |-> e, issues |-> record.issues \cup OwnIssues(finding), state |-> record.state]
  BY <1>1, <1>2
<1>4. r.refs = record.refs \cup finding.refs /\ r.issues = record.issues \cup OwnIssues(finding) /\ r.evidence = e
  BY <1>3
<1>5. IsRecord(r)
  BY <1>3 DEF IsRecord
<1> QED
  BY <1>4, <1>5 DEF e

-----------------------------------------------------------------------------
\* What the records of a registry say of the findings at some places.

RefsAt(outputs, p) == RowAt(outputs, p).finding.refs
EvidenceAt(outputs, p) == EvidenceState(outputs[p[1]], RowAt(outputs, p).finding)
IssuesAt(outputs, p) == OwnIssues(RowAt(outputs, p).finding)

Mine(outputs, places, key) == {p \in places : KeyAt(outputs, p) = key}
RefsOf(outputs, places, key) == UNION {RefsAt(outputs, p) : p \in Mine(outputs, places, key)}
IssuesOf(outputs, places, key) == UNION {IssuesAt(outputs, p) : p \in Mine(outputs, places, key)}

\* The findings of a record stand on evidence that holds, each on its own.
Stands(outputs, places, key) ==
  /\ \A p \in Mine(outputs, places, key) : EvidenceAt(outputs, p) = "VALID"
  /\ \A p, q \in Mine(outputs, places, key) : p # q => RefsAt(outputs, p) \cap RefsAt(outputs, q) = {}

Merged(outputs, places, key, r) ==
  /\ IsRecord(r)
  /\ r.refs = RefsOf(outputs, places, key)
  /\ r.issues = IssuesOf(outputs, places, key)
  /\ r.evidence \in EvidenceStates
  /\ r.evidence = "VALID" <=> Stands(outputs, places, key)

Tells(outputs, places, registry) ==
  /\ DOMAIN registry = {KeyAt(outputs, p) : p \in places}
  /\ \A key \in DOMAIN registry : Merged(outputs, places, key, registry[key])

\* Two lists of outputs agree on the outputs of some places.
SameOutputs(outputs, others, places) == \A p \in places : outputs[p[1]] = others[p[1]]

LEMMA TellsTheSame ==
  ASSUME NEW outputs, NEW others, NEW places, NEW registry,
         Tells(outputs, places, registry), SameOutputs(outputs, others, places)
  PROVE  Tells(others, places, registry)
<1>1. \A p \in places : /\ RowAt(others, p) = RowAt(outputs, p)
                        /\ others[p[1]] = outputs[p[1]]
  BY DEF SameOutputs, RowAt
<1>2. \A p \in places : /\ KeyAt(others, p) = KeyAt(outputs, p)
                        /\ RefsAt(others, p) = RefsAt(outputs, p)
                        /\ EvidenceAt(others, p) = EvidenceAt(outputs, p)
                        /\ IssuesAt(others, p) = IssuesAt(outputs, p)
  BY <1>1 DEF KeyAt, RefsAt, EvidenceAt, IssuesAt
<1>3. {KeyAt(others, p) : p \in places} = {KeyAt(outputs, p) : p \in places}
  BY <1>2
<1>4. ASSUME NEW key \in DOMAIN registry PROVE Merged(others, places, key, registry[key])
  <2>1. Mine(others, places, key) = Mine(outputs, places, key)
    BY <1>2 DEF Mine
  <2>2. Mine(outputs, places, key) \subseteq places
    BY DEF Mine
  <2>3. RefsOf(others, places, key) = RefsOf(outputs, places, key)
    BY <1>2, <2>1, <2>2 DEF RefsOf
  <2>4. IssuesOf(others, places, key) = IssuesOf(outputs, places, key)
    BY <1>2, <2>1, <2>2 DEF IssuesOf
  <2>5. Stands(others, places, key) <=> Stands(outputs, places, key)
    BY <1>2, <2>1, <2>2 DEF Stands
  <2>6. Merged(outputs, places, key, registry[key])
    BY DEF Tells
  <2> QED
    BY <2>3, <2>4, <2>5, <2>6 DEF Merged
<1> QED
  BY <1>3, <1>4 DEF Tells

\* One more finding is looked at.
LEMMA TellsOneMore ==
  ASSUME NEW outputs, NEW places, NEW registry, Tells(outputs, places, registry),
         NEW place, place \notin places,
         NEW more, more = AddFinding(registry, outputs[place[1]], RowAt(outputs, place).finding)
  PROVE  Tells(outputs, places \cup {place}, more)
<1> DEFINE finding == RowAt(outputs, place).finding
           output == outputs[place[1]]
           k == KeyAt(outputs, place)
           evidence == EvidenceAt(outputs, place)
           all == places \cup {place}
           made == IF k \in DOMAIN registry THEN Merge(registry[k], output.agent, finding, evidence)
                                         ELSE NewRecord(output.agent, finding, evidence)
<1>1. more = [key \in DOMAIN registry \cup {k} |-> IF key = k THEN made ELSE registry[key]]
  <2>1. k = Key(finding) /\ evidence = EvidenceState(output, finding)
    BY DEF KeyAt, EvidenceAt
  <2>2. more = Put(registry, k, made)
    BY <2>1 DEF AddFinding
  <2> QED
    BY <2>2 DEF Put
<1>2. evidence \in EvidenceStates
  BY StateOfFinding DEF EvidenceAt
<1>3. RefsAt(outputs, place) = finding.refs /\ IssuesAt(outputs, place) = OwnIssues(finding)
      /\ EvidenceAt(outputs, place) = evidence
  BY DEF RefsAt, IssuesAt
<1> HIDE DEF finding, output, evidence, made
<1>4. DOMAIN more = {KeyAt(outputs, p) : p \in all}
  BY <1>1 DEF Tells
<1>5. ASSUME NEW key \in DOMAIN registry, key # k
      PROVE  Merged(outputs, all, key, more[key])
  <2>1. more[key] = registry[key]
    BY <1>1, <1>5
  <2>2. Mine(outputs, all, key) = Mine(outputs, places, key)
    BY <1>5 DEF Mine
  <2>3. Merged(outputs, places, key, registry[key])
    BY DEF Tells
  <2> QED
    BY <2>1, <2>2, <2>3 DEF Merged, RefsOf, IssuesOf, Stands
<1>6. Mine(outputs, all, k) = Mine(outputs, places, k) \cup {place}
  BY DEF Mine
<1>7. place \notin Mine(outputs, places, k)
  BY DEF Mine
<1>8. more[k] = made
  BY <1>1
<1>9. CASE k \notin DOMAIN registry
  <2>1. Mine(outputs, places, k) = {}
    BY <1>9 DEF Tells, Mine
  <2>2. Mine(outputs, all, k) = {place}
    BY <1>6, <2>1
  <2>3. RefsOf(outputs, all, k) = finding.refs /\ IssuesOf(outputs, all, k) = OwnIssues(finding)
    BY <1>3, <2>2 DEF RefsOf, IssuesOf
  <2>4. Stands(outputs, all, k) <=> evidence = "VALID"
    BY <1>3, <2>2 DEF Stands
  <2>5. made = NewRecord(output.agent, finding, evidence)
    BY <1>9 DEF made
  <2>6. IsRecord(made) /\ made.refs = finding.refs /\ made.evidence = evidence /\ made.issues = OwnIssues(finding)
    BY <2>5, RecordMade
  <2>7. Merged(outputs, all, k, more[k])
    BY <1>2, <1>8, <2>3, <2>4, <2>6 DEF Merged
  <2> QED
    BY <1>1, <1>4, <1>5, <2>7 DEF Tells
<1>10. CASE k \in DOMAIN registry
  <2> DEFINE cited == registry[k].refs \cap finding.refs # {}
             heard == IF cited THEN Worse(evidence, "DUPLICATE") ELSE evidence
  <2>1. Merged(outputs, places, k, registry[k])
    BY <1>10 DEF Tells
  <2>2. made = Merge(registry[k], output.agent, finding, evidence)
    BY <1>10 DEF made
  <2>3. /\ IsRecord(made) /\ made.refs = registry[k].refs \cup finding.refs
        /\ made.issues = registry[k].issues \cup OwnIssues(finding)
        /\ made.evidence = Worse(registry[k].evidence, heard)
    BY <2>1, <2>2, RecordMerged DEF Merged
  <2>4. "DUPLICATE" \in EvidenceStates
    BY DEF EvidenceStates
  <2>5. heard \in EvidenceStates /\ (heard = "VALID" <=> evidence = "VALID" /\ ~cited)
    BY <1>2, <2>4, WorseStates
  <2> HIDE DEF heard
  <2>6. made.evidence \in EvidenceStates
        /\ (made.evidence = "VALID" <=> registry[k].evidence = "VALID" /\ evidence = "VALID" /\ ~cited)
    BY <2>1, <2>3, <2>5, WorseStates DEF Merged
  <2>7. made.refs = RefsOf(outputs, all, k)
    BY <1>3, <1>6, <2>1, <2>3 DEF Merged, RefsOf
  <2>8. made.issues = IssuesOf(outputs, all, k)
    BY <1>3, <1>6, <2>1, <2>3 DEF Merged, IssuesOf
  <2>9. ~cited <=> \A p \in Mine(outputs, places, k) : RefsAt(outputs, p) \cap RefsAt(outputs, place) = {}
    <3>1. registry[k].refs = RefsOf(outputs, places, k)
      BY <2>1 DEF Merged
    <3> QED
      BY <1>3, <3>1 DEF RefsOf
  <2> HIDE DEF cited
  <2>10. Stands(outputs, all, k) <=> Stands(outputs, places, k) /\ evidence = "VALID" /\ ~cited
    <3>1. ASSUME Stands(outputs, all, k) PROVE Stands(outputs, places, k) /\ evidence = "VALID" /\ ~cited
      BY <1>3, <1>6, <1>7, <2>9, <3>1 DEF Stands
    <3>2. ASSUME Stands(outputs, places, k), evidence = "VALID", ~cited PROVE Stands(outputs, all, k)
      BY <1>3, <1>6, <2>9, <3>2 DEF Stands
    <3> QED
      BY <3>1, <3>2
  <2>11. Merged(outputs, all, k, more[k])
    BY <1>8, <2>1, <2>3, <2>6, <2>7, <2>8, <2>10 DEF Merged
  <2> QED
    BY <1>1, <1>4, <1>5, <2>11 DEF Tells
<1> QED
  BY <1>9, <1>10

-----------------------------------------------------------------------------
\* Order of the places, and what the pairs say of a key.

LEMMA PlacesAreOrdered ==
  ASSUME RegistryAssumption, NEW outputs \in Seq(AgentOutputs)
  PROVE  /\ \A p \in PlacesIn(outputs) : /\ p = <<p[1], p[2]>> /\ p[1] \in Nat /\ p[2] \in Nat
                                         /\ p[1] \in DOMAIN outputs /\ p[2] \in DOMAIN outputs[p[1]].findings
         /\ \A i \in DOMAIN outputs : \A j \in DOMAIN outputs[i].findings : <<i, j>> \in PlacesIn(outputs)
         /\ \A p, q \in PlacesIn(outputs) : p # q <=> Earlier(p, q) \/ Earlier(q, p)
<1>1. ASSUME NEW i \in DOMAIN outputs PROVE i \in Nat /\ outputs[i].findings \in Seq(Range(outputs[i].findings))
  BY <1>1 DEF RegistryAssumption
<1>2. ASSUME NEW i \in DOMAIN outputs, NEW j \in DOMAIN outputs[i].findings PROVE j \in Nat
  <2> DEFINE f == outputs[i].findings
  <2>1. f \in Seq(Range(f))
    BY <1>1
  <2> HIDE DEF f
  <2>2. \A x \in DOMAIN f : x \in Nat
    BY <2>1
  <2> QED
    BY <2>2 DEF f
<1>3. ASSUME NEW p \in PlacesIn(outputs)
      PROVE  /\ p = <<p[1], p[2]>> /\ p[1] \in Nat /\ p[2] \in Nat
             /\ p[1] \in DOMAIN outputs /\ p[2] \in DOMAIN outputs[p[1]].findings
  <2>1. PICK i \in DOMAIN outputs : p \in {i} \X DOMAIN outputs[i].findings
    BY DEF PlacesIn
  <2>2. p = <<p[1], p[2]>> /\ p[1] = i /\ p[2] \in DOMAIN outputs[i].findings
    BY <2>1
  <2> QED
    BY <1>1, <1>2, <2>2
<1>4. \A i \in DOMAIN outputs : \A j \in DOMAIN outputs[i].findings : <<i, j>> \in PlacesIn(outputs)
  BY DEF PlacesIn
<1>5. ASSUME NEW p \in PlacesIn(outputs), NEW q \in PlacesIn(outputs)
      PROVE  p # q <=> Earlier(p, q) \/ Earlier(q, p)
  <2>1. p = <<p[1], p[2]>> /\ q = <<q[1], q[2]>> /\ p[1] \in Nat /\ p[2] \in Nat /\ q[1] \in Nat /\ q[2] \in Nat
    BY <1>3
  <2>2. p = q <=> p[1] = q[1] /\ p[2] = q[2]
    BY <2>1
  <2> QED
    BY <2>1, <2>2 DEF Earlier
<1> QED
  BY <1>3, <1>4, <1>5

\* What the reconciliation leaves undisturbed.
Clean(outputs, key) ==
  /\ Stands(outputs, PlacesIn(outputs), key) /\ IssuesOf(outputs, PlacesIn(outputs), key) = {}
  /\ key \notin KeysOf(outputs, OpposedPairs(outputs))
  /\ key \notin KeysOf(outputs, MalformedPairs(outputs))
  /\ key \notin KeysOf(outputs, UnprovenPairs(outputs))

Clashes(outputs, p, q) ==
  \/ Opposed(RowAt(outputs, p), RowAt(outputs, q)) \/ Unproven(RowAt(outputs, p), RowAt(outputs, q))
  \/ MalformedRow(RowAt(outputs, q))

SameScope(outputs, p, q) == RowAt(outputs, q).finding.scope = RowAt(outputs, p).finding.scope

LEMMA PairsBothWays ==
  ASSUME NEW first, NEW second
  PROVE  (Opposed(first, second) <=> Opposed(second, first)) /\ (Unproven(first, second) <=> Unproven(second, first))
BY DEF Opposed, Unproven

LEMMA CleanIsSupported ==
  ASSUME RegistryAssumption, NEW outputs \in Seq(AgentOutputs), NEW key
  PROVE  Clean(outputs, key) <=> Supported(outputs, key)
<1> DEFINE P == PlacesIn(outputs)
           O == OpposedPairs(outputs)
           M == MalformedPairs(outputs)
           U == UnprovenPairs(outputs)
           mine == Mine(outputs, P, key)
<1>1. Supported(outputs, key) <=>
        \A p \in mine :
          /\ EvidenceAt(outputs, p) = "VALID" /\ ~MalformedRow(RowAt(outputs, p))
          /\ \A q \in mine \ {p} : RefsAt(outputs, p) \cap RefsAt(outputs, q) = {}
          /\ \A q \in P \ {p} : SameScope(outputs, p, q) => ~Clashes(outputs, p, q)
  BY DEF Supported, Mine, EvidenceAt, RefsAt, SameScope, Clashes
<1>2. \A p \in mine : p \in P /\ KeyAt(outputs, p) = key
  BY DEF Mine
<1>3. Stands(outputs, P, key) <=>
        \A p \in mine : /\ EvidenceAt(outputs, p) = "VALID"
                        /\ \A q \in mine \ {p} : RefsAt(outputs, p) \cap RefsAt(outputs, q) = {}
  BY DEF Stands
<1>4. IssuesOf(outputs, P, key) = {} <=> \A p \in mine : ~MalformedRow(RowAt(outputs, p))
  <2>1. \A p \in mine : IssuesAt(outputs, p) = {} <=> ~MalformedRow(RowAt(outputs, p))
    BY DEF IssuesAt, OwnIssues, MalformedRow
  <2> QED
    BY <2>1 DEF IssuesOf
<1>5. \A p, q \in P : p # q <=> Earlier(p, q) \/ Earlier(q, p)
  BY PlacesAreOrdered
<1>6. \A p, q \in P : <<p, q>>[1] = p /\ <<p, q>>[2] = q
  OBVIOUS
<1>7. ASSUME NEW p \in mine, NEW q \in P, Earlier(p, q) \/ Earlier(q, p), SameScope(outputs, p, q),
             Clashes(outputs, p, q)
      PROVE  key \in KeysOf(outputs, O) \/ key \in KeysOf(outputs, M) \/ key \in KeysOf(outputs, U)
  <2>1. PICK pair \in P \X P : /\ {pair[1], pair[2]} = {p, q} /\ Earlier(pair[1], pair[2])
                               /\ pair = <<p, q>> \/ pair = <<q, p>>
    <3>1. CASE Earlier(p, q)
      BY <1>2, <3>1
    <3>2. CASE Earlier(q, p)
      BY <1>2, <3>2
    <3> QED
      BY <1>7, <3>1, <3>2
  <2>2. (pair[1] = p /\ pair[2] = q) \/ (pair[1] = q /\ pair[2] = p)
    BY <2>1
  <2>3. pair \in PairsOfScope(outputs)
    BY <1>7, <2>1, <2>2 DEF PairsOfScope, SameScope
  <2>4. pair \in O \cup M \cup U
    BY <1>7, <2>2, <2>3, PairsBothWays DEF Clashes, OpposedPairs, MalformedPairs, UnprovenPairs
  <2>5. key \in {KeyAt(outputs, pair[1]), KeyAt(outputs, pair[2])}
    BY <1>2, <2>2
  <2> HIDE DEF O, M, U
  <2> QED
    BY <2>4, <2>5 DEF KeysOf
<1>8. ASSUME NEW pair \in O \cup M \cup U, key \in {KeyAt(outputs, pair[1]), KeyAt(outputs, pair[2])}
      PROVE  \E p \in mine : \/ MalformedRow(RowAt(outputs, p))
                             \/ \E q \in P \ {p} : SameScope(outputs, p, q) /\ Clashes(outputs, p, q)
  <2>1. /\ pair[1] \in P /\ pair[2] \in P /\ Earlier(pair[1], pair[2])
        /\ SameScope(outputs, pair[1], pair[2]) /\ SameScope(outputs, pair[2], pair[1])
    BY DEF OpposedPairs, MalformedPairs, UnprovenPairs, PairsOfScope, SameScope
  <2>2. pair[1] # pair[2]
    BY <1>5, <2>1
  <2>3. \/ Clashes(outputs, pair[1], pair[2]) /\ Clashes(outputs, pair[2], pair[1])
        \/ MalformedRow(RowAt(outputs, pair[1])) \/ MalformedRow(RowAt(outputs, pair[2]))
    BY PairsBothWays DEF Clashes, OpposedPairs, MalformedPairs, UnprovenPairs
  <2>4. CASE key = KeyAt(outputs, pair[1])
    <3>1. pair[1] \in mine
      BY <2>1, <2>4 DEF Mine
    <3>2. MalformedRow(RowAt(outputs, pair[1])) \/ Clashes(outputs, pair[1], pair[2])
      BY <2>3 DEF Clashes
    <3> QED
      BY <2>1, <2>2, <3>1, <3>2
  <2>5. CASE key = KeyAt(outputs, pair[2])
    <3>1. pair[2] \in mine
      BY <2>1, <2>5 DEF Mine
    <3>2. MalformedRow(RowAt(outputs, pair[2])) \/ Clashes(outputs, pair[2], pair[1])
      BY <2>3 DEF Clashes
    <3> QED
      BY <2>1, <2>2, <3>1, <3>2
  <2> QED
    BY <1>8, <2>4, <2>5
<1>9. Clean(outputs, key) <=>
        /\ Stands(outputs, P, key) /\ IssuesOf(outputs, P, key) = {}
        /\ key \notin KeysOf(outputs, O) /\ key \notin KeysOf(outputs, M) /\ key \notin KeysOf(outputs, U)
  BY DEF Clean
<1>10. \A pairs : key \in KeysOf(outputs, pairs) <=>
         \E pair \in pairs : key \in {KeyAt(outputs, pair[1]), KeyAt(outputs, pair[2])}
  BY DEF KeysOf
<1> HIDE DEF P, O, M, U, mine
<1>11. ASSUME Clean(outputs, key) PROVE Supported(outputs, key)
  <2>1. ASSUME NEW p \in mine, NEW q \in P \ {p}, SameScope(outputs, p, q) PROVE ~Clashes(outputs, p, q)
    BY <1>2, <1>5, <1>7, <1>9, <1>11, <2>1
  <2> QED
    BY <1>1, <1>3, <1>4, <1>9, <1>11, <2>1
<1>12. ASSUME Supported(outputs, key) PROVE Clean(outputs, key)
  <2>1. \A pair \in O \cup M \cup U : key \notin {KeyAt(outputs, pair[1]), KeyAt(outputs, pair[2])}
    BY <1>1, <1>8, <1>12
  <2>2. key \notin KeysOf(outputs, O) /\ key \notin KeysOf(outputs, M) /\ key \notin KeysOf(outputs, U)
    BY <1>10, <2>1
  <2> QED
    BY <1>1, <1>3, <1>4, <1>9, <1>12, <2>2
<1> QED
  BY <1>11, <1>12

-----------------------------------------------------------------------------
\* The findings looked at so far.
Seen == {p \in PlacesIn(added) : p[1] < Len(added) \/ p[2] <= looked}

Judged(registry) ==
  /\ DOMAIN registry = {KeyAt(added, p) : p \in PlacesIn(added)}
  /\ \A key \in DOMAIN registry :
       IsRecord(registry[key]) /\ (registry[key].evidence = "VALID" /\ registry[key].issues = {} <=> Clean(added, key))

Decided(registry) ==
  \A key \in DOMAIN registry : registry[key].state = "ACCEPTED" <=> Clean(added, key)

RegistryInv ==
  /\ added \in Seq(AgentOutputs)
  /\ looked \in Nat /\ looked <= (IF added = <<>> THEN 0 ELSE Len(LastOutput.findings))
  /\ registryPhase \in {"adding", "reconciled", "accepted"}
  /\ registryPhase = "adding" => Tells(added, Seen, records)
  /\ registryPhase = "reconciled" => Judged(records) /\ conflictPairs = OpposedPairs(added)
  /\ registryPhase = "accepted" => Decided(records)

LEMMA RegistryStarts == ASSUME RegistryAssumption, RegistryInit PROVE RegistryInv
<1>1. added = <<>> /\ looked = 0 /\ records = <<>> /\ registryPhase = "adding"
  BY DEF RegistryInit
<1>2. PlacesIn(added) = {}
  BY <1>1 DEF PlacesIn
<1>3. Seen = {}
  BY <1>2 DEF Seen
<1>4. DOMAIN records = {}
  BY <1>1
<1>5. Tells(added, Seen, records)
  BY <1>3, <1>4 DEF Tells
<1> QED
  BY <1>1, <1>5 DEF RegistryInv

LEMMA LastOfAdded ==
  ASSUME RegistryAssumption, added \in Seq(AgentOutputs), added # <<>>
  PROVE  /\ Len(added) \in DOMAIN added /\ Len(added) \in Nat
         /\ LastOutput \in AgentOutputs /\ Len(LastOutput.findings) \in Nat
         /\ DOMAIN LastOutput.findings = 1..Len(LastOutput.findings)
         /\ LastOutput = added[Len(added)]
<1>1. Len(added) \in DOMAIN added /\ Len(added) \in Nat /\ added[Len(added)] \in AgentOutputs
  OBVIOUS
<1>2. LastOutput = added[Len(added)]
  BY DEF LastOutput
<1> DEFINE f == LastOutput.findings
<1>3. f \in Seq(Range(f))
  BY <1>1, <1>2 DEF RegistryAssumption
<1> HIDE DEF f
<1>4. Len(f) \in Nat /\ DOMAIN f = 1..Len(f)
  BY <1>3
<1> QED
  BY <1>1, <1>2, <1>4 DEF f

\* When the loop has ended, every finding has been looked at.
LEMMA AllSeen ==
  ASSUME RegistryAssumption, added \in Seq(AgentOutputs), AllLookedAt
  PROVE  Seen = PlacesIn(added)
<1>1. ASSUME NEW p \in PlacesIn(added) PROVE p[1] < Len(added) \/ p[2] <= looked
  <2>1. /\ p[1] \in Nat /\ p[2] \in Nat /\ p[1] \in DOMAIN added /\ p[2] \in DOMAIN added[p[1]].findings
    BY PlacesAreOrdered
  <2>2. added # <<>>
    BY <2>1
  <2>3. looked = Len(LastOutput.findings)
    BY <2>2 DEF AllLookedAt
  <2>4. p[1] \in 1..Len(added)
    BY <2>1
  <2>5. CASE p[1] = Len(added)
    BY <2>1, <2>2, <2>3, <2>5, LastOfAdded
  <2> QED
    BY <2>4, <2>5
<1> QED
  BY <1>1 DEF Seen

LEMMA OutputAdded ==
  ASSUME RegistryAssumption, RegistryInv, NEW output \in AgentOutputs, AddOutput(output)
  PROVE  RegistryInv'
<1>1. /\ registryPhase = "adding" /\ AllLookedAt /\ added' = Append(added, output) /\ looked' = 0
      /\ records' = records /\ conflictPairs' = conflictPairs /\ registryPhase' = registryPhase
      /\ added \in Seq(AgentOutputs) /\ Tells(added, Seen, records)
  BY DEF AddOutput, RegistryInv
<1>2. /\ added' \in Seq(AgentOutputs) /\ Len(added') = Len(added) + 1 /\ added' # <<>>
      /\ \A i \in DOMAIN added : added'[i] = added[i] /\ i \in DOMAIN added' /\ i < Len(added')
      /\ DOMAIN added' = 1..(Len(added) + 1) /\ DOMAIN added = 1..Len(added) /\ Len(added) \in Nat
  <2>1. DOMAIN added = 1..Len(added) /\ Len(added) \in Nat
    BY <1>1
  <2>2. /\ added' \in Seq(AgentOutputs) /\ Len(added') = Len(added) + 1
        /\ \A i \in 1..Len(added) : added'[i] = added[i]
    BY <1>1, AppendProperties
  <2>3. DOMAIN added' = 1..(Len(added) + 1)
    BY <2>2
  <2>4. added' # <<>>
    BY <2>1, <2>2
  <2> QED
    BY <2>1, <2>2, <2>3, <2>4
<1>3. Seen = PlacesIn(added)
  BY <1>1, AllSeen
<1>4. Seen' = PlacesIn(added)
  <2>1. Seen' = {p \in PlacesIn(added') : p[1] < Len(added') \/ p[2] <= looked'}
    BY DEF Seen
  <2>2. ASSUME NEW p \in Seen' PROVE p \in PlacesIn(added)
    <3>1. /\ p = <<p[1], p[2]>> /\ p[1] \in Nat /\ p[2] \in Nat
          /\ p[1] \in DOMAIN added' /\ p[2] \in DOMAIN added'[p[1]].findings
      BY <1>2, <2>1, PlacesAreOrdered
    <3>2. added'[p[1]] \in AgentOutputs
      BY <1>2, <3>1
    <3> DEFINE f == added'[p[1]].findings
    <3>3. f \in Seq(Range(f))
      BY <3>2 DEF RegistryAssumption
    <3> HIDE DEF f
    <3>4. \A j \in DOMAIN f : j > 0
      BY <3>3
    <3>5. p[2] > 0
      BY <3>1, <3>4 DEF f
    <3>6. p[1] < Len(added')
      BY <1>1, <2>1, <3>1, <3>5
    <3>7. p[1] \in DOMAIN added /\ p[2] \in DOMAIN added[p[1]].findings
      BY <1>2, <3>1, <3>6
    <3> QED
      BY <1>1, <3>1, <3>7, PlacesAreOrdered
  <2>3. ASSUME NEW p \in PlacesIn(added) PROVE p \in Seen'
    <3>1. /\ p = <<p[1], p[2]>> /\ p[1] \in DOMAIN added /\ p[2] \in DOMAIN added[p[1]].findings
      BY <1>1, PlacesAreOrdered
    <3>2. p[1] \in DOMAIN added' /\ p[2] \in DOMAIN added'[p[1]].findings /\ p[1] < Len(added')
      BY <1>2, <3>1
    <3>3. p \in PlacesIn(added')
      <4>1. \A i \in DOMAIN added' : \A j \in DOMAIN added'[i].findings : <<i, j>> \in PlacesIn(added')
        BY DEF PlacesIn
      <4> QED
        BY <3>1, <3>2, <4>1
    <3> QED
      BY <2>1, <3>2, <3>3
  <2> QED
    BY <2>2, <2>3
<1>5. SameOutputs(added, added', PlacesIn(added))
  BY <1>1, <1>2, PlacesAreOrdered DEF SameOutputs
<1>6. Tells(added', Seen', records')
  BY <1>1, <1>3, <1>4, <1>5, TellsTheSame
<1>7. looked' <= Len(LastOutput.findings)'
  <2>1. LastOutput' = output
    BY <1>1, <1>2 DEF LastOutput
  <2> DEFINE f == output.findings
  <2>2. f \in Seq(Range(f))
    BY DEF RegistryAssumption
  <2> HIDE DEF f
  <2>3. Len(f) \in Nat
    BY <2>2
  <2> QED
    BY <1>1, <2>1, <2>3 DEF f
<1> QED
  BY <1>1, <1>2, <1>6, <1>7 DEF RegistryInv

LEMMA FindingLookedAt ==
  ASSUME RegistryAssumption, RegistryInv, LookAtFinding
  PROVE  RegistryInv'
<1>1. /\ registryPhase = "adding" /\ ~AllLookedAt /\ added' = added /\ looked' = looked + 1
      /\ records' = AddFinding(records, LastOutput, LastOutput.findings[looked + 1])
      /\ conflictPairs' = conflictPairs /\ registryPhase' = registryPhase
      /\ added \in Seq(AgentOutputs) /\ looked \in Nat /\ Tells(added, Seen, records)
      /\ looked <= (IF added = <<>> THEN 0 ELSE Len(LastOutput.findings))
  BY DEF LookAtFinding, RegistryInv
<1>2. added # <<>> /\ looked < Len(LastOutput.findings)
  <2>1. added # <<>>
    BY <1>1 DEF AllLookedAt
  <2>2. Len(LastOutput.findings) \in Nat
    BY <1>1, <2>1, LastOfAdded
  <2> QED
    BY <1>1, <2>1, <2>2 DEF AllLookedAt
<1>3. /\ Len(added) \in DOMAIN added /\ Len(added) \in Nat /\ Len(LastOutput.findings) \in Nat
      /\ DOMAIN LastOutput.findings = 1..Len(LastOutput.findings) /\ LastOutput = added[Len(added)]
  BY <1>1, <1>2, LastOfAdded
<1> DEFINE place == <<Len(added), looked + 1>>
<1>4. place \in PlacesIn(added) /\ place[1] = Len(added) /\ place[2] = looked + 1
  <2>1. looked + 1 \in DOMAIN added[Len(added)].findings
    BY <1>1, <1>2, <1>3
  <2> QED
    BY <1>1, <1>3, <2>1, PlacesAreOrdered
<1>5. place \notin Seen
  BY <1>1, <1>3, <1>4 DEF Seen
<1>6. Seen' = Seen \cup {place}
  <2>1. Seen' = {p \in PlacesIn(added) : p[1] < Len(added) \/ p[2] <= looked + 1}
    BY <1>1 DEF Seen
  <2>2. ASSUME NEW p \in PlacesIn(added), p \notin Seen, p[1] < Len(added) \/ p[2] <= looked + 1 PROVE p = place
    <3>1. p = <<p[1], p[2]>> /\ p[1] \in Nat /\ p[2] \in Nat /\ p[1] \in DOMAIN added
      BY <1>1, PlacesAreOrdered
    <3>2. p[1] <= Len(added)
      BY <1>1, <3>1
    <3>3. p[1] = Len(added) /\ p[2] = looked + 1
      BY <1>1, <1>3, <2>2, <3>1, <3>2 DEF Seen
    <3> QED
      BY <3>1, <3>3
  <2>3. ASSUME NEW p \in Seen PROVE p \in Seen'
    <3>1. p \in PlacesIn(added) /\ (p[1] < Len(added) \/ p[2] <= looked)
      BY DEF Seen
    <3>2. p[2] \in Nat
      BY <1>1, <3>1, PlacesAreOrdered
    <3> QED
      BY <1>1, <2>1, <3>1, <3>2
  <2>4. place \in Seen'
    BY <1>1, <1>4, <2>1
  <2> QED
    BY <2>1, <2>2, <2>3, <2>4
<1>7. records' = AddFinding(records, added[place[1]], RowAt(added, place).finding)
  BY <1>1, <1>3, <1>4 DEF RowAt
<1> HIDE DEF place
<1>8. Tells(added, Seen \cup {place}, records')
  BY <1>1, <1>5, <1>7, TellsOneMore
<1>9. Tells(added', Seen', records')
  BY <1>1, <1>6, <1>8
<1>10. looked' \in Nat /\ looked' <= Len(LastOutput.findings) /\ LastOutput' = LastOutput
  BY <1>1, <1>2, <1>3 DEF LastOutput
<1> QED
  BY <1>1, <1>2, <1>9, <1>10 DEF RegistryInv

LEMMA FindingsReconciled ==
  ASSUME RegistryAssumption, RegistryInv, ReconcileFindings
  PROVE  RegistryInv'
<1> DEFINE O == KeysOf(added, OpposedPairs(added))
           M == KeysOf(added, MalformedPairs(added))
           U == KeysOf(added, UnprovenPairs(added))
<1>1. /\ registryPhase = "adding" /\ AllLookedAt /\ registryPhase' = "reconciled"
      /\ added' = added /\ looked' = looked /\ conflictPairs' = OpposedPairs(added)
      /\ records' = [key \in DOMAIN records |->
           [records[key] EXCEPT
              !.evidence = IF key \in O THEN "CONTRADICTORY" ELSE @,
              !.issues = @ \cup (IF key \in M THEN {"malformed"} ELSE {}) \cup (IF key \in U THEN {"unproven"} ELSE {})]]
      /\ added \in Seq(AgentOutputs) /\ Tells(added, Seen, records)
  BY DEF ReconcileFindings, RegistryInv
<1>2. Seen = PlacesIn(added)
  BY <1>1, AllSeen
<1>3. DOMAIN records' = {KeyAt(added, p) : p \in PlacesIn(added)}
  BY <1>1, <1>2 DEF Tells
<1>4. \A key : Clean(added, key) <=>
        /\ Stands(added, PlacesIn(added), key) /\ IssuesOf(added, PlacesIn(added), key) = {}
        /\ key \notin O /\ key \notin M /\ key \notin U
  BY DEF Clean
<1> HIDE DEF O, M, U
<1>5. ASSUME NEW key \in DOMAIN records'
      PROVE  /\ IsRecord(records'[key])
             /\ records'[key].evidence = "VALID" /\ records'[key].issues = {} <=> Clean(added, key)
  <2>1. key \in DOMAIN records
    BY <1>1
  <2>2. PICK r : r = records[key]
    OBVIOUS
  <2>3. Merged(added, PlacesIn(added), key, r)
    BY <1>1, <1>2, <2>1, <2>2 DEF Tells
  <2> DEFINE e == IF key \in O THEN "CONTRADICTORY" ELSE r.evidence
             i == r.issues \cup (IF key \in M THEN {"malformed"} ELSE {}) \cup (IF key \in U THEN {"unproven"} ELSE {})
  <2>4. records'[key] = [r EXCEPT !.evidence = e, !.issues = i]
    BY <1>1, <2>1, <2>2
  <2>5. r = [finding |-> r.finding, refs |-> r.refs, severity |-> r.severity, agents |-> r.agents,
             evidence |-> r.evidence, issues |-> r.issues, state |-> r.state]
    BY <2>3 DEF Merged, IsRecord
  <2>6. e = "VALID" <=> r.evidence = "VALID" /\ key \notin O
    OBVIOUS
  <2>7. i = {} <=> r.issues = {} /\ key \notin M /\ key \notin U
    OBVIOUS
  <2> HIDE DEF e, i
  <2>8. records'[key] = [finding |-> r.finding, refs |-> r.refs, severity |-> r.severity, agents |-> r.agents,
             evidence |-> e, issues |-> i, state |-> r.state]
    BY <2>4, <2>5
  <2>9. PICK s : s = records'[key]
    OBVIOUS
  <2>10. IsRecord(s) /\ s.evidence = e /\ s.issues = i
    BY <2>8, <2>9 DEF IsRecord
  <2>11. s.evidence = "VALID" /\ s.issues = {} <=> Clean(added, key)
    BY <1>4, <2>3, <2>6, <2>7, <2>10 DEF Merged
  <2> QED
    BY <2>9, <2>10, <2>11
<1>6. Judged(records)'
  <2>1. \A key \in DOMAIN records' :
           IsRecord(records'[key]) /\ (records'[key].evidence = "VALID" /\ records'[key].issues = {} <=> Clean(added, key))
    BY <1>5
  <2> QED
    BY <1>1, <1>3, <2>1 DEF Judged
<1>7. (conflictPairs = OpposedPairs(added))'
  BY <1>1
<1>8. LastOutput' = LastOutput
  BY <1>1 DEF LastOutput
<1> QED
  BY <1>1, <1>6, <1>7, <1>8 DEF RegistryInv

LEMMA FindingsAccepted ==
  ASSUME RegistryAssumption, RegistryInv, AcceptAllWithoutConflict
  PROVE  RegistryInv'
<1> DEFINE O == KeysOf(added, conflictPairs)
<1>1. /\ registryPhase = "reconciled" /\ registryPhase' = "accepted"
      /\ added' = added /\ looked' = looked /\ conflictPairs' = conflictPairs
      /\ records' = [key \in DOMAIN records |->
           [records[key] EXCEPT
              !.evidence = IF key \in O THEN "CONTRADICTORY" ELSE @,
              !.state = IF key \in O THEN "CONFLICTED"
                        ELSE IF records[key].evidence = "VALID" /\ records[key].issues = {} THEN "ACCEPTED"
                        ELSE "EVIDENCE_REVIEW"]]
      /\ Judged(records) /\ conflictPairs = OpposedPairs(added)
  BY DEF AcceptAllWithoutConflict, RegistryInv
<1>2. \A key : Clean(added, key) => key \notin O
  BY <1>1 DEF Clean
<1> HIDE DEF O
<1>3. ASSUME NEW key \in DOMAIN records'
      PROVE  records'[key].state = "ACCEPTED" <=> Clean(added, key)
  <2>1. key \in DOMAIN records
    BY <1>1
  <2>2. PICK r : r = records[key]
    OBVIOUS
  <2>3. IsRecord(r) /\ (r.evidence = "VALID" /\ r.issues = {} <=> Clean(added, key))
    BY <1>1, <2>1, <2>2 DEF Judged
  <2> DEFINE e == IF key \in O THEN "CONTRADICTORY" ELSE r.evidence
             t == IF key \in O THEN "CONFLICTED"
                  ELSE IF r.evidence = "VALID" /\ r.issues = {} THEN "ACCEPTED" ELSE "EVIDENCE_REVIEW"
  <2>4. records'[key] = [r EXCEPT !.evidence = e, !.state = t]
    BY <1>1, <2>1, <2>2
  <2>5. r = [finding |-> r.finding, refs |-> r.refs, severity |-> r.severity, agents |-> r.agents,
             evidence |-> r.evidence, issues |-> r.issues, state |-> r.state]
    BY <2>3 DEF IsRecord
  <2>6. t = "ACCEPTED" <=> key \notin O /\ r.evidence = "VALID" /\ r.issues = {}
    OBVIOUS
  <2> HIDE DEF e, t
  <2>7. records'[key].state = t
    BY <2>4, <2>5
  <2> QED
    BY <1>2, <2>3, <2>6, <2>7
<1>4. Decided(records)'
  BY <1>1, <1>3 DEF Decided
<1>5. LastOutput' = LastOutput
  BY <1>1 DEF LastOutput
<1> QED
  BY <1>1, <1>4, <1>5 DEF RegistryInv

LEMMA RegistryStep ==
  ASSUME RegistryAssumption, RegistryInv, [RegistryNext]_registryVars PROVE RegistryInv'
<1>1. CASE RegistryNext
  BY <1>1, OutputAdded, FindingLookedAt, FindingsReconciled, FindingsAccepted DEF RegistryNext
<1>2. CASE UNCHANGED registryVars
  BY <1>2 DEF registryVars, RegistryInv, Seen, Judged, Decided, LastOutput
<1> QED
  BY <1>1, <1>2

LEMMA RegistryInvImplies ==
  ASSUME RegistryAssumption, RegistryInv PROVE AcceptedIsSupported
<1> SUFFICES ASSUME registryPhase = "accepted"
             PROVE  /\ \A key \in DOMAIN records : (records[key].state = "ACCEPTED") <=> Supported(added, key)
                    /\ \A d \in Decisions : d.decision = "Approve" => \A key \in d.evidence : Supported(added, key)
  BY DEF AcceptedIsSupported
<1>1. added \in Seq(AgentOutputs) /\ Decided(records)
  BY DEF RegistryInv
<1>2. \A key \in DOMAIN records : (records[key].state = "ACCEPTED") <=> Supported(added, key)
  BY <1>1, CleanIsSupported DEF Decided
<1>3. \A key \in CriticalKeys : Supported(added, key)
  BY <1>2 DEF CriticalKeys
<1>4. ASSUME NEW d \in Decisions, d.decision = "Approve" PROVE d.evidence = CriticalKeys
  <2>1. CASE \E pair \in conflictPairs : d = [decision |-> "Revise", evidence |-> KeysOf(added, {pair})]
    BY <1>4, <2>1
  <2>2. CASE d = [decision |-> "Approve", evidence |-> CriticalKeys]
    BY <2>2
  <2> QED
    BY <2>1, <2>2 DEF Decisions
<1> QED
  BY <1>2, <1>3, <1>4

\* The order in which the agents report never decides what is accepted: at the end of
\* a session a record is accepted exactly when all the findings that share its root
\* cause are supported (AcceptedIsSupported), for any outputs.
THEOREM AcceptanceIsOrderFree == RegistrySpec => []AcceptedIsSupported
<1> USE RegistryAssumption
<1>1. RegistryInit => RegistryInv
  BY RegistryStarts
<1>2. RegistryInv /\ [RegistryNext]_registryVars => RegistryInv'
  BY RegistryStep
<1>3. RegistryInv => AcceptedIsSupported
  BY RegistryInvImplies
<1> QED
  BY <1>1, <1>2, <1>3, PTL DEF RegistrySpec
=============================================================================
