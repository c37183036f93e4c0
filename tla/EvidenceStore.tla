----------------------------- MODULE EvidenceStore -----------------------------
(***************************************************************************)
(* The evidence database that several processes share: EvidenceStore        *)
(* (src/adapters/evidence_store.py) with its migration and digest repair    *)
(* (evidence_migrations.py), the digests it verifies                        *)
(* (evidence_integrity.py) and the page-drift wrapper (page_drift.py).      *)
(*                                                                          *)
(* A connection is one store object of one process; its lock makes its      *)
(* operations one after the other.  SQLite allows one writer; a SELECT in   *)
(* Python's sqlite3 opens no transaction, so purge and repair_digests       *)
(* decide on rows that may be gone when they write.  A write that finds the *)
(* database locked has already begun one: `with self._conn` rolls it back,  *)
(* a repair leaves it, and the next read fixes what that store sees of the  *)
(* file.  One metric group and one payload schema version are modelled, so  *)
(* a series is a stored URL; a digest is the text it was made from.         *)
(***************************************************************************)
EXTENDS Integers, FiniteSets

CONSTANTS
  Conn,       \* store objects
  MaxId,      \* bound: snapshots ever inserted; ids are never used again
  MaxTime,    \* bound: captured_at and cutoffs
  Url,        \* the spellings of URLs that rows can have
  Canonical,  \* canonicalize_url, Invalid where it raises
  Keep,       \* keep_latest of every purge
  MaxLegacy,  \* bound: rows of earlier versions in the file at first
  MaxFaults,  \* bound: changes from outside, each of another kind
  Invalid,
  NoConn,
  NoRow,
  NoHash

ASSUME StoreAssumption ==
  /\ MaxId \in Nat
  /\ MaxTime \in Nat
  /\ Keep \in Nat
  /\ MaxLegacy \in Nat
  /\ MaxFaults \in Nat
  /\ Invalid \notin Url
  /\ Canonical \in [Url -> Url \cup {Invalid}]
  /\ \A u \in Url : Canonical[u] # Invalid => Canonical[Canonical[u]] = Canonical[u]
  /\ NoConn \notin Conn

RowId == 1..MaxId
Time == 0..MaxTime
CanonicalUrl == {Canonical[v] : v \in Url} \ {Invalid}

\* What a row says, as the store was told it or altered outside.
Text == {"captured", "altered"}

VARIABLES
  table,   \* the committed rows
  nextId,
  writer,  \* the connection that has updated rows and not committed, or NoConn
  draft,   \* the rows as that connection sees them
  left,    \* the transactions that failed repairs have left, and if they have read
  snapshot,\* the rows as those that have read see them
  conn,    \* where each connection is
  seen,    \* the rows a repair has read
  doomed,  \* the ids a purge has chosen
  check,   \* what integrity_check answered when a PageDrift was made
  faults   \* what has been changed outside the store

storeVars == <<table, nextId, writer, draft, left, snapshot, conn, seen, doomed, check, faults>>

Nothing == [i \in RowId |-> NoRow]
Filled(t) == {i \in RowId : t[i] # NoRow}

View(c) ==
  IF writer = c THEN draft ELSE IF left[c] = "reading" THEN snapshot[c] ELSE table

Envelope(r) == [url |-> r.url, at |-> r.at, payload |-> r.payload, meta |-> r.meta]

\* decode_verified_row.
Verifies(r) == r.payloadHash = r.payload /\ r.recordHash = Envelope(r)

\* Both digests are made for the row as it is; home and blessed are history:
\* the page the row is about, and whether a confirmed repair took an altered
\* row over.
Hashed(r) == [r EXCEPT !.payloadHash = r.payload, !.recordHash = Envelope(r)]

Unhashed(url, at) ==
  [url |-> url, at |-> at, payload |-> "captured", meta |-> "captured",
   payloadHash |-> NoHash, recordHash |-> NoHash, home |-> Canonical[url], blessed |-> FALSE]

\* Earlier versions stored a row with no digest, or with the payload's only.
LegacyRows ==
  {Unhashed(u, 0) : u \in Url} \cup {[Unhashed(u, 0) EXCEPT !.payloadHash = "captured"] : u \in Url}

StoreInit ==
  /\ \E rows \in SUBSET RowId :
       /\ \A i \in rows : \A j \in 1..i : j \in rows
       /\ Cardinality(rows) < MaxId
       /\ Cardinality(rows) <= MaxLegacy
       /\ nextId = Cardinality(rows) + 1
       /\ \E legacy \in [rows -> LegacyRows] :
            table = [i \in RowId |-> IF i \in rows THEN legacy[i] ELSE NoRow]
  /\ writer = NoConn
  /\ draft = table
  /\ left = [c \in Conn |-> "none"]
  /\ snapshot = [c \in Conn |-> Nothing]
  /\ conn = [c \in Conn |-> "closed"]
  /\ seen = [c \in Conn |-> Nothing]
  /\ doomed = [c \in Conn |-> {}]
  /\ check = [c \in Conn |-> "none"]
  /\ faults = {}

\* Nobody else is writing, and nothing was committed since the transaction read.
MayWrite(c) ==
  /\ writer \in {NoConn, c}
  /\ left[c] = "reading" => snapshot[c] = table

\* The end of a transaction: everything the connection has written is stored.
Commit(t) == table' = t /\ writer' = NoConn /\ draft' = t

\* The first read of a transaction left open fixes what the store sees.
Fix(c) ==
  IF left[c] = "begun"
    THEN left' = [left EXCEPT ![c] = "reading"] /\ snapshot' = [snapshot EXCEPT ![c] = table]
    ELSE UNCHANGED <<left, snapshot>>

Settle(c) ==
  left' = [left EXCEPT ![c] = "none"] /\ snapshot' = [snapshot EXCEPT ![c] = Nothing]

Go(c, from, to) == conn[c] = from /\ conn' = [conn EXCEPT ![c] = to]

-----------------------------------------------------------------------------
(* migrate_schema, in one exclusive transaction when a store is opened.     *)

FullyHashed(r) == r.payloadHash # NoHash /\ r.recordHash # NoHash

Canonicalized(r) == [r EXCEPT !.url = Canonical[@]]

\* A row that has one digest must agree with it.
RefusedRow(r) ==
  /\ ~FullyHashed(r)
  /\ \/ Canonical[r.url] = Invalid
     \/ r.payloadHash \notin {NoHash, r.payload}
     \/ r.recordHash \notin {NoHash, Envelope(Canonicalized(r))}

\* Mutation: every row gets new digests.
BackfilledAnyway(r) ==
  IF Canonical[r.url] = Invalid THEN r ELSE Hashed(Canonicalized(r))

\* Mutation: the digests are of the row as it was stored.
BackfilledAsStored(r) == IF FullyHashed(r) THEN r ELSE Canonicalized(Hashed(r))

Backfilled(r) == IF FullyHashed(r) THEN r ELSE Hashed(Canonicalized(r))

Migrate ==
  /\ writer = NoConn
  /\ \A i \in Filled(table) : ~RefusedRow(table[i])
  /\ Commit([i \in RowId |-> IF table[i] = NoRow THEN NoRow ELSE Backfilled(table[i])])

\* A database that is locked or that has a refused row raises: nothing changes.
Open(c) ==
  /\ Go(c, "closed", "open")
  /\ Migrate
  /\ UNCHANGED <<nextId, left, snapshot, seen, doomed, check, faults>>

-----------------------------------------------------------------------------
(* The operations of an open store.                                         *)

Snapshot(url, at) == Hashed(Unhashed(url, at))

\* record, also PageDrift.capture.  Its transaction may be one that a repair
\* has left open; it ends with the write.
Record(c) ==
  /\ conn[c] \in {"open", "drift"}
  /\ MayWrite(c)
  /\ nextId \in RowId
  /\ \E u \in CanonicalUrl, at \in Time :
       Commit([View(c) EXCEPT ![nextId] = Snapshot(u, at)])
  /\ nextId' = nextId + 1
  /\ Settle(c)
  /\ UNCHANGED <<conn, seen, doomed, check, faults>>

Delete(c) ==
  /\ conn[c] = "open"
  /\ MayWrite(c)
  /\ \E u \in CanonicalUrl :
       Commit([i \in RowId |-> IF View(c)[i] # NoRow /\ View(c)[i].url = u THEN NoRow ELSE View(c)[i]])
  /\ Settle(c)
  /\ UNCHANGED <<nextId, conn, seen, doomed, check, faults>>

\* record, delete or purge finds the database locked: another connection writes,
\* longer than the busy timeout, or has written since this store read.  The rows
\* stay, and a transaction that was left open is rolled back.
WriteFails(c) ==
  /\ conn[c] = "open"
  /\ left[c] # "none"
  /\ Settle(c)
  /\ UNCHANGED <<table, nextId, writer, draft, conn, seen, doomed, check, faults>>

\* ORDER BY captured_at DESC, id DESC.
Newer(t, j, i) == t[j].at > t[i].at \/ (t[j].at = t[i].at /\ j > i)

Recency(t, i) ==
  Cardinality({j \in Filled(t) : t[j].url = t[i].url /\ Newer(t, j, i)})

\* Mutation: of two snapshots with one capture time either is the newest.
ExpiredByTime(t, scope, cutoff) ==
  {i \in Filled(t) :
     /\ t[i].url \in scope
     /\ t[i].at < cutoff
     /\ Cardinality({j \in Filled(t) \ {i} : t[j].url = t[i].url /\ t[j].at >= t[i].at}) >= Keep}

Expired(t, scope, cutoff) ==
  {i \in Filled(t) : t[i].url \in scope /\ t[i].at < cutoff /\ Recency(t, i) >= Keep}

\* purge reads ...
PurgeRead(c) ==
  /\ Go(c, "open", "purging")
  /\ \E cutoff \in Time, scope \in {Url} \cup {{u} : u \in CanonicalUrl} :
       doomed' = [doomed EXCEPT ![c] = Expired(View(c), scope, cutoff)]
  /\ Fix(c)
  /\ UNCHANGED <<table, nextId, writer, draft, seen, check, faults>>

\* ... and deletes by id, or has nothing to delete, or finds the database locked.
PurgeDelete(c) ==
  /\ Go(c, "purging", "open")
  /\ doomed' = [doomed EXCEPT ![c] = {}]
  /\ \/ MayWrite(c) /\ Commit([i \in RowId |-> IF i \in doomed[c] THEN NoRow ELSE View(c)[i]])
     \/ writer # c /\ UNCHANGED <<table, writer, draft>>
  /\ Settle(c)
  /\ UNCHANGED <<nextId, seen, check, faults>>

\* repair_digests reads every row ...
RepairRead(c) ==
  /\ Go(c, "open", "repairing")
  /\ seen' = [seen EXCEPT ![c] = View(c)]
  /\ Fix(c)
  /\ UNCHANGED <<table, nextId, writer, draft, doomed, check, faults>>

Intact(r) == r.payload = "captured" /\ r.meta = "captured" /\ Canonical[r.url] = r.home

\* The UPDATE of one row with what was read of it.
RepairedRow(r, read) ==
  [r EXCEPT !.url = Canonical[read.url],
            !.payloadHash = read.payload,
            !.recordHash = Envelope(Canonicalized(read)),
            !.blessed = @ \/ ~Intact(read)]

Outdated(r) == r # NoRow /\ (Canonical[r.url] # r.url \/ ~Verifies(r))

Repaired(c, ids) ==
  [i \in RowId |-> IF i \in ids /\ View(c)[i] # NoRow
                  THEN RepairedRow(View(c)[i], seen[c][i]) ELSE View(c)[i]]

\* ... and updates them in the order of their ids, which is the first write.  A
\* URL that does not canonicalize raises: what was updated before it stays in a
\* transaction that nothing ends.  A database that is locked raises at the first
\* UPDATE, whose BEGIN stays.
RepairWrite(c) ==
  /\ Go(c, "repairing", "open")
  /\ seen' = [seen EXCEPT ![c] = Nothing]
  /\ LET raising == {i \in Filled(seen[c]) : Canonical[seen[c][i].url] = Invalid}
         updated == {i \in RowId : Outdated(seen[c][i]) /\ \A j \in raising : i < j}
     IN  \/ raising = {} /\ MayWrite(c) /\ Commit(Repaired(c, updated)) /\ Settle(c)
         \/ /\ raising # {} /\ updated # {} /\ MayWrite(c) /\ Settle(c)
            /\ writer' = c /\ draft' = Repaired(c, updated) /\ UNCHANGED table
         \/ /\ writer # c /\ updated # {}
            /\ left' = [left EXCEPT ![c] = IF @ = "none" THEN "begun" ELSE @]
            /\ UNCHANGED <<table, writer, draft, snapshot>>
         \/ /\ raising = {} /\ writer # c /\ updated = {} /\ Settle(c)
            /\ UNCHANGED <<table, writer, draft>>
         \/ raising # {} /\ updated = {} /\ UNCHANGED <<table, writer, draft, left, snapshot>>
  /\ UNCHANGED <<nextId, doomed, check, faults>>

\* close, or the end of the process: SQLite rolls an open transaction back.
Leave(c) ==
  /\ conn[c] # "closed"
  /\ conn' = [conn EXCEPT ![c] = "closed"]
  /\ IF writer = c THEN writer' = NoConn /\ draft' = table ELSE UNCHANGED <<writer, draft>>
  /\ Settle(c)
  /\ doomed' = [doomed EXCEPT ![c] = {}]
  /\ seen' = [seen EXCEPT ![c] = Nothing]
  /\ check' = [check EXCEPT ![c] = "none"]
  /\ UNCHANGED <<table, nextId, faults>>

-----------------------------------------------------------------------------
(* PageDrift: verify_untampered on a connection of its own, then the store, *)
(* then an integrity_check whose answer is dropped.                         *)

VerifyUntampered(c) ==
  /\ Go(c, "closed", "verified")
  /\ \A i \in Filled(table) : table[i].payloadHash = table[i].payload
  /\ UNCHANGED <<table, nextId, writer, draft, left, snapshot, seen, doomed, check, faults>>

OpenDrift(c) ==
  /\ Go(c, "verified", "checking")
  /\ Migrate
  /\ UNCHANGED <<nextId, left, snapshot, seen, doomed, check, faults>>

CheckDrift(c) ==
  /\ Go(c, "checking", "drift")
  /\ check' = [check EXCEPT ![c] =
                 IF \A i \in Filled(table) : Verifies(table[i]) THEN "ok" ELSE "failed"]
  /\ UNCHANGED <<table, nextId, writer, draft, left, snapshot, seen, doomed, faults>>

-----------------------------------------------------------------------------
(* The readings of an open store change no row.                             *)

\* latest, compare and integrity_check in a transaction that was left open;
\* outside one they leave nothing.
Read(c) ==
  /\ conn[c] = "open"
  /\ left[c] = "begun"
  /\ Fix(c)
  /\ UNCHANGED <<table, nextId, writer, draft, conn, seen, doomed, check, faults>>

\* latest: the newest of a series, each of which must verify.
LatestOf(t, u, limit) == {i \in Filled(t) : t[i].url = u /\ Recency(t, i) < limit}

\* compare, also PageDrift.compare: two snapshots, or what it says instead.
Comparison(t, u) ==
  LET recent == LatestOf(t, u, 2)
  IN  IF \E i \in recent : ~Verifies(t[i]) THEN "integrity_error"
      ELSE IF Cardinality(recent) < 2 THEN "insufficient_history" ELSE "ok"

-----------------------------------------------------------------------------
(* One row is changed outside the store and its digests are not: a covered  *)
(* text, its URL, or a digest itself, which an interrupted write has lost.  *)

Damaged(r) ==
  { <<"payload", [r EXCEPT !.payload = "altered"]>>, <<"meta", [r EXCEPT !.meta = "altered"]>>,
    <<"digest", [r EXCEPT !.payloadHash = NoHash]>>, <<"digest", [r EXCEPT !.recordHash = NoHash]>> }
  \cup {<<"url", [r EXCEPT !.url = u]>> : u \in Url \ {r.url}}

Damage ==
  /\ Cardinality(faults) < MaxFaults
  /\ writer = NoConn
  /\ \E i \in Filled(table) : \E d \in Damaged(table[i]) :
       /\ FullyHashed(table[i])
       /\ d[1] \notin faults
       /\ table' = [table EXCEPT ![i] = d[2]]
       /\ draft' = table'
       /\ faults' = faults \cup {d[1]}
  /\ UNCHANGED <<nextId, writer, left, snapshot, conn, seen, doomed, check>>

StoreNext ==
  \/ \E c \in Conn :
       \/ Open(c) \/ Record(c) \/ Delete(c) \/ PurgeRead(c) \/ PurgeDelete(c)
       \/ WriteFails(c) \/ Read(c) \/ RepairRead(c) \/ RepairWrite(c) \/ Leave(c)
       \/ VerifyUntampered(c) \/ OpenDrift(c) \/ CheckDrift(c)
  \/ Damage

StoreSpec == StoreInit /\ [][StoreNext]_storeVars

-----------------------------------------------------------------------------
Envelopes == [url : Url, at : Time, payload : Text, meta : Text]

Row ==
  [url : Url, at : Time, payload : Text, meta : Text, payloadHash : Text \cup {NoHash},
   recordHash : Envelopes \cup {NoHash}, home : Url \cup {Invalid}, blessed : BOOLEAN]

Table == [RowId -> Row \cup {NoRow}]

\* The special values are none of the ordinary ones.
ASSUME NoneAssumption == NoRow \notin Row /\ NoHash \notin Text \cup Envelopes

StoreTypeOK ==
  /\ table \in Table
  /\ nextId \in 1..(MaxId + 1)
  /\ writer \in Conn \cup {NoConn}
  /\ draft \in Table
  /\ left \in [Conn -> {"none", "begun", "reading"}]
  /\ snapshot \in [Conn -> Table]
  /\ conn \in [Conn -> {"closed", "open", "purging", "repairing", "verified", "checking", "drift"}]
  /\ seen \in [Conn -> Table]
  /\ doomed \in [Conn -> SUBSET RowId]
  /\ check \in [Conn -> {"none", "ok", "failed"}]
  /\ faults \subseteq {"payload", "meta", "url", "digest"}

\* A row that was altered outside never verifies again, through migrations,
\* records, purges and repairs of any process, unless a confirmed repair that
\* had read the alteration took it over; a row that also loses the digest that
\* shows the alteration gets a new one from the next migration.  And nothing the
\* stores do by themselves, together or one killed in the middle of another's
\* work, leaves a row that an open store cannot verify.  A comparison that is ok
\* is of the two newest snapshots of the page, under whichever spelling they were
\* once stored, unless a row's URL was changed outside: the newest of the file as
\* that store sees it, which is the file as it is, except that a store whose
\* repair found the database locked sees it as of its next read, until it writes
\* or closes
\* (evidence_migrations.py:51-133, 146-175, evidence_integrity.py:77-117,
\* evidence_store.py:205-255).
DigestsTellTheTruth ==
  /\ "digest" \notin faults \/ faults = {"digest"} =>
       \A i \in RowId : \A t \in {table} \cup {View(c) : c \in Conn} :
         t[i] # NoRow /\ Verifies(t[i]) => Intact(t[i]) \/ t[i].blessed
  /\ faults = {} =>
       \A c \in {d \in Conn : conn[d] \notin {"closed", "verified"}} : \A t \in {table, View(c)} :
         \A i \in Filled(t) : Verifies(t[i])
  /\ "url" \notin faults =>
       \A c \in {d \in Conn : conn[d] \in {"open", "drift"}}, u \in CanonicalUrl :
         Comparison(View(c), u) = "ok" =>
           {i \in Filled(View(c)) : View(c)[i].home = u /\
              Cardinality({j \in Filled(View(c)) : View(c)[j].home = u /\ Newer(View(c), j, i)}) < 2}
             = LatestOf(View(c), u, 2)

\* While a purge holds what it has read, nothing the other stores record,
\* delete, purge, migrate or repair makes one of its rows one of the newest
\* Keep of its series (evidence_store.py:286-309).
NewestSurvivePurge ==
  "url" \notin faults =>
    \A c \in Conn : \A i \in doomed[c] : table[i] # NoRow => Recency(table, i) >= Keep

\* What verifies was not altered, and what is newest is not purged
\* (evidence_store.py:270-309, evidence_integrity.py:77-117).
StoreIsTruthful == DigestsTellTheTruth /\ NewestSurvivePurge

\* One transaction per write: recording a snapshot changes no other row.
OneTransactionPerWrite ==
  [][nextId' # nextId => \A i \in Filled(table) : table'[i] = table[i]]_storeVars

=============================================================================
