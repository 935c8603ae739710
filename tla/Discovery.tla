----------------------------- MODULE Discovery -----------------------------
(***************************************************************************)
(* One discovery slice of the batch pipeline: a source's listing, the walk *)
(* of its pages that the source's Discover makes, and Activities.Discover, *)
(* which records what the walk returns and moves the slice's watermark.    *)
(* The next sweep asks only for what is newer, so a document that a sweep  *)
(* misses while the watermark passes it is lost to every later sweep.      *)
(*                                                                         *)
(* The clients differ in few decisions: how they page, what they do with   *)
(* the watermark, what date they report and what a failed request means.   *)
(* Each client is the record of its decisions; one set of actions runs     *)
(* them all.  Dates are days; 0 is the zero time.                          *)
(***************************************************************************)
EXTENDS Integers, Sequences, FiniteSets, SequencesExt

CONSTANTS
    Clients,              \* the sources of this instance, by name
    Units,                \* sub-listings of a source that fans out: 1..n
    PageSize, MaxPages,   \* rows of a page; a walk's safety cap
    Overlap, Lookback,    \* days taken again; days more that vanban walks
    YearLength,           \* days of a year
    FirstDay, LastDay,    \* bounds on the calendar
    MaxDocs, MaxFaults,   \* bounds on publications and failures
    Limits,               \* the caps of a run on recorded documents; 0 is none
    Ahead,                \* days a listing may date a document ahead
    Busy                  \* whether documents appear while a sweep runs

DiscoveryConstants ==
    /\ PageSize > 0 /\ MaxPages > 0 /\ YearLength > 0
    /\ Overlap >= 0 /\ Lookback >= 0 /\ Ahead >= 0
    /\ FirstDay > Overlap + Lookback + YearLength /\ LastDay >= FirstDay
    /\ Busy \in BOOLEAN

VARIABLES
    client,     \* the source of the slice
    today,
    feed,       \* the listing of each unit, newest first
    cursor,     \* ingest.discover_cursor.watermark
    recorded,   \* documents with a fetch_doc row
    run,        \* the sweep in progress
    faults

vars == <<client, today, feed, cursor, recorded, run, faults>>

None == 0

----------------------------------------------------------------------------
(* How a client walks one listing: the pages are counted anew with every   *)
(* page ("fresh"), once ("fixed"), or there is one page; what it does with *)
(* the watermark; the date it reports; and the cap on its walk.            *)

Listing(pages, since, date, capped) == [pages |-> pages, since |-> since, date |-> date, capped |-> capped]

vbplFeed == Listing("fresh", "stop", "day", FALSE)
sbvhanoiFeed == Listing("fresh", "stop", "day", TRUE)
vanbanFeed == Listing("fresh", "lookback", "day", TRUE)
congbaoFeed == Listing("single", "filter", "day", FALSE)
biFeed == Listing("single", "filter", "day", FALSE)
bpkJenis == Listing("fixed", "year", "year", TRUE)
ojkJenis == Listing("fresh", "filter", "past", FALSE)
ojkwebJenis == Listing("fresh", "ignore", "none", TRUE)
secCategory == Listing("single", "filter", "none", FALSE)
botGroup == Listing("fixed", "ignore", "none", TRUE)
bnmSector == Listing("single", "ignore", "day", FALSE)
scSection == Listing("single", "ignore", "none", FALSE)
masType == Listing("single", "ignore", "none", FALSE)
sercBoard == Listing("fresh", "ignore", "none", TRUE)
agclomFeed == Listing("fresh", "ignore", "day", TRUE)
ocsFeed == Listing("fixed", "ignore", "none", TRUE)
pdpcFeed == Listing("fresh", "ignore", "none", FALSE)

(* How a client covers its units, and what a failed request does:          *)
(*   nothing - the sweep fails and returns no document;                    *)
(*   partial - the sweep fails and returns what it has;                    *)
(*   report  - the unit is left, and the sweep fails at its end;           *)
(*   skip    - the unit is left and nobody is told;                        *)
(*   page    - a page is left and nobody is told, unless every unit's      *)
(*             first page fails.                                           *)
Client(listing, fanout, failure, keeps) ==
    [listing |-> listing, fanout |-> fanout, failure |-> failure, keeps |-> keeps, trusted |-> FALSE]

vbpl == [Client(vbplFeed, "one", "nothing", FALSE) EXCEPT !.trusted = TRUE]
sbvhanoi == Client(sbvhanoiFeed, "one", "nothing", FALSE)
vanban == Client(vanbanFeed, "one", "partial", TRUE)
congbao == Client(congbaoFeed, "one", "nothing", FALSE)
bi == Client(biFeed, "one", "nothing", FALSE)
bpk == Client(bpkJenis, "parallel", "report", TRUE)
ojk == Client(ojkJenis, "sequential", "skip", FALSE)
ojkweb == Client(ojkwebJenis, "parallel", "page", TRUE)
sec == Client(secCategory, "sequential", "report", FALSE)
bot == Client(botGroup, "sequential", "report", TRUE)
bnm == Client(bnmSector, "sequential", "report", FALSE)
sc == Client(scSection, "sequential", "report", FALSE)
etda == Client(scSection, "sequential", "report", FALSE)
mas == Client(masType, "sequential", "partial", TRUE)
nbc == Client(scSection, "sequential", "skip", FALSE)
odc == Client(scSection, "sequential", "skip", FALSE)
sso == Client(scSection, "sequential", "skip", FALSE)
serc == Client(sercBoard, "sequential", "skip", FALSE)
agclom == Client(agclomFeed, "one", "partial", TRUE)
ocs == Client(ocsFeed, "one", "partial", TRUE)
pdpc == Client(pdpcFeed, "one", "partial", TRUE)
csa == Client(scSection, "one", "nothing", FALSE)
cdcgov == Client(scSection, "one", "nothing", FALSE)

Me ==
    CASE client = "vbpl" -> vbpl [] client = "sbvhanoi" -> sbvhanoi [] client = "vanban" -> vanban
      [] client = "congbao" -> congbao [] client = "bi" -> bi [] client = "bpk" -> bpk
      [] client = "ojk" -> ojk [] client = "ojkweb" -> ojkweb [] client = "sec" -> sec
      [] client = "bot" -> bot [] client = "bnm" -> bnm [] client = "sc" -> sc [] client = "etda" -> etda
      [] client = "mas" -> mas [] client = "nbc" -> nbc [] client = "odc" -> odc [] client = "sso" -> sso
      [] client = "serc" -> serc [] client = "agclom" -> agclom [] client = "ocs" -> ocs
      [] client = "pdpc" -> pdpc [] client = "csa" -> csa [] client = "cdcgov" -> cdcgov

Rule == Me.listing
MyUnits == IF Me.fanout = "one" THEN {1} ELSE Units

----------------------------------------------------------------------------
NoRun == [pc |-> "idle", since |-> None, cold |-> TRUE, base |-> None, limit |-> 0, page |-> <<>>, last |-> <<>>,
          out |-> <<>>, err |-> FALSE, dead |-> 0, wm |-> None, count |-> 0, day |-> 0]

Init ==
    /\ client \in Clients
    /\ today = FirstDay
    /\ feed = [u \in MyUnits |-> <<>>]
    /\ cursor = None
    /\ recorded = {}
    /\ run = NoRun
    /\ faults = 0

(* PublishedAt, as the client fills it in.  ojk drops a date to come.      *)
Year(day) == day \div YearLength
DatedBy(rule, d) ==
    CASE rule = "day" -> d.day
      [] rule = "year" -> Year(d.day) * YearLength
      [] rule = "past" -> IF d.day > today THEN None ELSE d.day
      [] rule = "none" -> None
PublishedAt(d) == DatedBy(Rule.date, d)

(* The watermark that a sweep asks with, and the rows a client returns.    *)
QuerySince(stored) == IF stored = None THEN None ELSE stored - Overlap

NotAfter(at, since) == since # None /\ at # None /\ at <= since

StopsBy(rule, at, since) ==
    \/ rule = "stop" /\ NotAfter(at, since)
    \/ rule = "lookback" /\ since # None /\ NotAfter(at, since - Lookback)
Stops(d, since) == StopsBy(Rule.since, PublishedAt(d), since)

ReturnedBy(rule, d, since) ==
    CASE rule = "filter" -> ~NotAfter(PublishedAt(d), since)
      [] rule = "year" -> since = None \/ Year(d.day) >= Year(since) - 1
      [] OTHER -> TRUE
Returned(d, since) == ReturnedBy(Rule.since, d, since)

(* bpk filters by year on the server, so only those rows have pages.       *)
Rows(u, since) == IF Rule.since = "year" THEN SelectSeq(feed[u], LAMBDA d : Returned(d, since)) ELSE feed[u]

PagesOf(rows) == (Len(rows) + PageSize - 1) \div PageSize

(* The scope decision of Activities.Discover.                              *)
Wanted(d) == d.kind # "excluded" /\ (Me.trusted \/ d.kind = "match")

----------------------------------------------------------------------------
(* The world: a document appears in a unit, in the order of the listing.   *)
Publish(u, day, kind) ==
    LET total == Cardinality(UNION {{feed[v][i] : i \in DOMAIN feed[v]} : v \in MyUnits})
        d == [id |-> total + 1, day |-> day, kind |-> kind]
        newer == Cardinality({i \in DOMAIN feed[u] : feed[u][i].day > day})
    IN
    /\ total < MaxDocs
    /\ Busy \/ run.pc = "idle"
    /\ feed' = [feed EXCEPT ![u] = InsertAt(@, newer + 1, d)]
    /\ UNCHANGED <<client, today, cursor, recorded, run, faults>>

(* A sweep is over within a day, by the command's and the clients' limits. *)
NextDay ==
    /\ today < LastDay
    /\ run.pc # "idle" => run.day = today
    /\ today' = today + 1
    /\ UNCHANGED <<client, feed, cursor, recorded, run, faults>>

----------------------------------------------------------------------------
(* Activities.Discover reads the cursor; a full scan ignores it.           *)
Begin(limit, full) ==
    /\ run.pc = "idle"
    /\ run' = [NoRun EXCEPT !.pc = "list", !.base = cursor, !.wm = cursor, !.limit = limit, !.day = today,
                            !.since = IF full THEN None ELSE QuerySince(cursor),
                            !.page = [u \in MyUnits |-> 1], !.last = [u \in MyUnits |-> 0]]
    /\ UNCHANGED <<client, today, feed, cursor, recorded, faults>>

Open(u) ==
    /\ run.pc = "list"
    /\ run.page[u] # 0
    /\ Me.fanout = "sequential" => \A v \in MyUnits : v < u => run.page[v] = 0

TotalPages(u, rows) ==
    CASE Rule.pages = "single" -> 1
      [] Rule.pages = "fixed" /\ run.page[u] # 1 -> run.last[u]
      [] OTHER -> PagesOf(rows)

PageOf(rows, p) ==
    IF Rule.pages = "single" THEN rows
    ELSE SubSeq(rows, (p - 1) * PageSize + 1, IF p * PageSize < Len(rows) THEN p * PageSize ELSE Len(rows))

(* A walk reads a page up to the first row that stops it.                  *)
Halting(page) == {i \in DOMAIN page : Stops(page[i], run.since)}
UpTo(page, halts) == SubSeq(page, 1, Cardinality({i \in DOMAIN page : \A j \in halts : i < j}))
Turned(u, page, halts, total) ==
    [run EXCEPT !.out = @ \o SelectSeq(UpTo(page, halts), LAMBDA d : Returned(d, run.since)),
                !.last[u] = total,
                !.page[u] = IF page = <<>> \/ halts # {} \/ @ >= total \/ (Rule.capped /\ @ >= MaxPages)
                            THEN 0 ELSE @ + 1]

(* One request of a walk and what it adds.                                 *)
ReadPage(u) ==
    LET rows == Rows(u, run.since)
        page == PageOf(rows, run.page[u])
    IN
    /\ Open(u)
    /\ run' = Turned(u, page, Halting(page), TotalPages(u, rows))
    /\ UNCHANGED <<client, today, feed, cursor, recorded, faults>>

Unkept(u) == SelectSeq(run.out, LAMBDA d : d \notin ToSet(feed[u]))

(* A request that fails for good, after the client's own retries.          *)
FailRequest(u) ==
    LET left == [run EXCEPT !.page[u] = 0, !.out = IF Me.keeps THEN @ ELSE Unkept(u)] IN
    /\ Open(u)
    /\ faults < MaxFaults
    /\ faults' = faults + 1
    /\ run' = CASE Me.failure = "nothing" -> NoRun
                [] Me.failure = "partial" -> [run EXCEPT !.page = [v \in MyUnits |-> 0], !.err = TRUE]
                [] Me.failure = "report" -> [left EXCEPT !.err = TRUE]
                [] Me.failure = "skip" -> left
                [] Me.failure = "page" ->
                     IF run.page[u] = 1 THEN [left EXCEPT !.dead = @ + 1]
                     ELSE [run EXCEPT !.page[u] = IF @ >= run.last[u] \/ @ >= MaxPages THEN 0 ELSE @ + 1]
    /\ UNCHANGED <<client, today, feed, cursor, recorded>>

(* An error without documents ends the sweep.                              *)
Listed ==
    /\ run.pc = "list"
    /\ \A u \in MyUnits : run.page[u] = 0
    /\ run' = IF (run.err /\ run.out = <<>>) \/ run.dead = Cardinality(MyUnits) THEN NoRun
              ELSE [run EXCEPT !.pc = "record"]
    /\ UNCHANGED <<client, today, feed, cursor, recorded, faults>>

(* The loop over the documents: the watermark first, then the exclusions,  *)
(* the scope and the limit.                                                *)
RecordDoc ==
    LET d == Head(run.out)
        at == PublishedAt(d)
        taken == Wanted(d) /\ (run.limit = 0 \/ run.count < run.limit)
    IN
    /\ run.pc = "record"
    /\ run.out # <<>>
    /\ recorded' = IF taken THEN recorded \cup {d.id} ELSE recorded
    /\ run' = [run EXCEPT !.out = Tail(@), !.wm = IF at > @ THEN at ELSE @, !.count = @ + (IF taken THEN 1 ELSE 0)]
    /\ UNCHANGED <<client, today, feed, cursor, faults>>

(* A statement fails or the process stops: no cursor is written.           *)
Interrupt ==
    /\ run.pc = "record"
    /\ faults < MaxFaults
    /\ faults' = faults + 1
    /\ run' = NoRun
    /\ UNCHANGED <<client, today, feed, cursor, recorded>>

(* UpsertDiscoverCursor; an incomplete sweep leaves the cursor alone.      *)
Advance ==
    /\ run.pc = "record"
    /\ run.out = <<>>
    /\ cursor' = IF run.err THEN cursor ELSE run.wm
    /\ run' = NoRun
    /\ UNCHANGED <<client, today, feed, recorded, faults>>

SweepStep == (\E u \in MyUnits : ReadPage(u)) \/ Listed \/ RecordDoc \/ Advance

Next ==
    \/ \E u \in MyUnits, day \in today .. (today + Ahead), kind \in {"match", "other", "excluded"} : Publish(u, day, kind)
    \/ NextDay
    \/ \E limit \in Limits, full \in BOOLEAN : Begin(limit, full)
    \/ SweepStep
    \/ \E u \in MyUnits : FailRequest(u)
    \/ Interrupt

Spec == Init /\ [][Next]_vars

(* The command is run again and again and a sweep goes on; full scans are  *)
(* an operator's choice, and finitely many requests fail.                  *)
FairSpec == Spec /\ WF_vars(SweepStep) /\ WF_vars(\E limit \in Limits : Begin(limit, FALSE))

----------------------------------------------------------------------------
(* Types and ranges; a sweep's new watermark never falls behind the one it *)
(* started from.                                                           *)
TypeOK ==
    /\ client \in Clients
    /\ today \in FirstDay..LastDay
    /\ cursor = None \/ cursor \in (FirstDay - YearLength)..(LastDay + Ahead)
    /\ recorded \subseteq 1..MaxDocs
    /\ run.pc \in {"idle", "list", "record"}
    /\ run.base # None => run.wm >= run.base

(* What the next sweep would return if no request failed.                  *)
InReach(u, i) ==
    LET since == QuerySince(cursor) IN
    /\ Returned(feed[u][i], since)
    /\ \A j \in 1..i : ~Stops(feed[u][j], since)

(* No document becomes invisible to every later incremental sweep: one     *)
(* that is wanted and not recorded is still within reach of the next.      *)
NothingHiddenBut(ids) ==
    \A u \in MyUnits : \A i \in DOMAIN feed[u] :
      Wanted(feed[u][i]) => feed[u][i].id \in recorded \cup ids \/ InReach(u, i)

NothingHidden == NothingHiddenBut({})

(* Re-running converges and never loses a document, as the comment of      *)
(* Activities.Discover says; here under a limit on the run.                *)
NothingLost == NothingHidden

(* An incomplete sweep must not pass the sub-units it never saw, as the    *)
(* comment of Activities.Discover says; here when the client hides it.     *)
IncompleteNotPassed == NothingHidden

(* The first run is a full scan, as the comment of bpk's Discover says;    *)
(* here while documents appear.                                            *)
FirstRunIsFull == NothingHidden

(* A wanted document is recorded, whatever requests failed before.         *)
EventuallyRecorded ==
    \A n \in 1..MaxDocs :
      (\E u \in MyUnits : \E d \in ToSet(feed[u]) : d.id = n /\ Wanted(d)) ~> n \in recorded
=============================================================================
