---------------------------- MODULE Library_proofs ----------------------------
(***************************************************************************)
(* Proofs about the catalog index and the preparation that waits for it,   *)
(* for any number of providers, articles, pages, workers, orders and       *)
(* passes, and any bounds.                                                 *)
(*                                                                         *)
(* The argument.  Every claim of a job raises its attempts, and every      *)
(* refresh its generation, so at most one worker holds the lease of a      *)
(* provider; what the others still do ends at the check of their lease.    *)
(* The holder stores the page the checkpoint names: articles of earlier    *)
(* pages that the provider has kept in its listing were seen by the        *)
(* generation, and after the last page all were.                           *)
(***************************************************************************)
EXTENDS WorkshopPreparation, TLAPS

\* Every article is of the current generation or an earlier one; those the provider
\* kept in its listing are seen up to the checkpoint.
ArticleInv(p) ==
    /\ \A a \in Articles :
        /\ article[p][a].seen <= scope[p].generation
        /\ SeenBefore(p, a) => article[p][a].active
    /\ \A a \in steady[p] : PageOf[a] < scope[p].cursor => SeenBefore(p, a)

CoverageInv(p) ==
    CoverageComplete(p) =>
        /\ scope[p].resolved => \A a \in steady[p] : article[p][a].active
        /\ \A a \in Articles : article[p][a].active => SeenBefore(p, a)

ScopeInv(p) ==
    /\ scope[p].status = "complete" => scope[p].job = "completed"
    /\ scope[p].job = "completed" => scope[p].completed # Null

ProviderInv(p) == ArticleInv(p) /\ CoverageInv(p) /\ ScopeInv(p)

ListingInv == \A p \in Providers : steady[p] \subseteq Listed(p)

\* The lease a worker knows is the current one or an earlier one.
Leased(w, p) ==
    /\ scope[p].job # "absent"
    /\ indexer[w].generation <= scope[p].generation
    /\ indexer[w].generation = scope[p].generation => indexer[w].attempt <= scope[p].attempts

LeaseInv == \A w \in Indexers : indexer[w].pc # "idle" => Leased(w, indexer[w].provider)

OneHolder ==
    \A p \in Providers : \A v, w \in Indexers : Holds(v, p) /\ Holds(w, p) => v = w

\* The page the checkpoint names, as the provider listed it after the generation began.
PageOfCursor(p, page) ==
    /\ page.next = IF scope[p].cursor < LastPage THEN scope[p].cursor + 1 ELSE 0
    /\ page.complete => scope[p].cursor = LastPage
    /\ \A a \in steady[p] : PageOf[a] = scope[p].cursor => page.of[a] # 0

Current(w, p) ==
    /\ indexer[w].pc = "resolve" => ~scope[p].resolved
    /\ indexer[w].pc = "store" => PageOfCursor(p, indexer[w].page)

HolderInv == \A w \in Indexers, p \in Providers : Holds(w, p) => Current(w, p)

CatalogInv ==
    /\ CatalogTypeOK /\ ListingInv /\ LeaseInv /\ OneHolder /\ HolderInv
    /\ \A p \in Providers : ProviderInv(p)

\* A library is ready once every index was complete, and nobody leases it any more.
PreparationInv ==
    /\ \A o \in Orders : preparation[o].state = "index_ready" =>
        /\ preparation[o].owner = None
        /\ \A p \in Providers : scope[p].completed # Null
    /\ \A q \in Passes : pass[q].found = "index_ready" =>
        \A p \in Providers : scope[p].completed # Null

IInv == TypeOK /\ CatalogInv /\ PreparationInv

\* An index that was complete once stays so.
IndexKept == \A p \in Providers : scope[p].completed # Null => scope'[p].completed # Null

USE CatalogAssumption, PreparationAssumption

LEMMA IdleTyped == IdleIndexer \in IndexerRow /\ IdleIndexer.pc = "idle"
<1>1. (CHOOSE p \in Providers : TRUE) \in Providers
  OBVIOUS
<1>2. NoPage \in Page
  BY DEF NoPage, Page
<1> DEFINE first == CHOOSE p \in Providers : TRUE
<1>3. IdleIndexer = [pc |-> "idle", provider |-> first, generation |-> 0,
                     attempt |-> 0, page |-> NoPage, review |-> FALSE, retryable |-> FALSE]
  BY DEF IdleIndexer
<1> HIDE DEF first
<1> QED
  BY <1>1, <1>2, <1>3 DEF first, IndexerRow

LEMMA CatalogStarts == CatalogInit => CatalogInv
<1> SUFFICES ASSUME CatalogInit PROVE CatalogInv
  OBVIOUS
<1>1. NoScope \in ScopeRow
  BY DEF NoScope, ScopeRow, Null, JobStatus
<1>2. CatalogTypeOK
  <2>1. scope \in [Providers -> ScopeRow]
    BY <1>1 DEF CatalogInit
  <2>2. indexer \in [Indexers -> IndexerRow]
    BY IdleTyped DEF CatalogInit
  <2>3. article \in [Providers -> [Articles -> ArticleRow]]
    BY DEF CatalogInit, ArticleRow, Null
  <2>4. listing \in [Providers -> Listing] /\ steady \in [Providers -> SUBSET Articles]
    BY DEF CatalogInit, Listing
  <2> QED
    BY <2>1, <2>2, <2>3, <2>4 DEF CatalogTypeOK
<1>3. ListingInv
  BY DEF CatalogInit, ListingInv
<1>4. \A w \in Indexers : indexer[w].pc = "idle"
  BY IdleTyped DEF CatalogInit
<1>5. LeaseInv /\ OneHolder /\ HolderInv
  BY <1>4 DEF LeaseInv, OneHolder, HolderInv, Holds
<1>6. ASSUME NEW p \in Providers PROVE ProviderInv(p)
  <2>1. scope[p] = NoScope /\ steady[p] = {}
        /\ \A a \in Articles : article[p][a] = [seen |-> Null, version |-> 0, active |-> FALSE]
    BY DEF CatalogInit
  <2> QED
    BY <2>1 DEF ProviderInv, ArticleInv, CoverageInv, ScopeInv, CoverageComplete, SeenBefore,
       NoScope, Null
<1> QED
  BY <1>2, <1>3, <1>5, <1>6 DEF CatalogInv

(***************************************************************************)
(* A step of one worker: its own lease, or what the holder may change.     *)
(***************************************************************************)
LEMMA IndexerStep ==
    ASSUME CatalogInv, NEW w \in Indexers, NEW row \in IndexerRow,
           indexer' = [indexer EXCEPT ![w] = row],
           \/ row.pc = "idle"
           \/ /\ indexer[w].pc # "idle" /\ row.provider = indexer[w].provider
              /\ row.generation = indexer[w].generation /\ row.attempt = indexer[w].attempt,
           UNCHANGED <<listing, steady>>,
           scope' \in [Providers -> ScopeRow],
           article' \in [Providers -> [Articles -> ArticleRow]],
           \A p \in Providers :
            /\ scope'[p].generation = scope[p].generation
            /\ scope'[p].attempts = scope[p].attempts
            /\ scope[p].job # "absent" => scope'[p].job # "absent"
            /\ scope[p].completed # Null => scope'[p].completed # Null,
           \A p \in Providers :
            \/ scope'[p] = scope[p] /\ article'[p] = article[p]
            \/ Holds(w, p) /\ ProviderInv(p)',
           \A p \in Providers : Holds(w, p)' => Current(w, p)'
    PROVE  CatalogInv' /\ IndexKept
<1>1. /\ indexer \in [Indexers -> IndexerRow] /\ indexer' \in [Indexers -> IndexerRow]
      /\ indexer'[w] = row /\ \A v \in Indexers \ {w} : indexer'[v] = indexer[v]
  BY DEF CatalogInv, CatalogTypeOK
<1>2. CatalogTypeOK'
  BY <1>1 DEF CatalogInv, CatalogTypeOK
<1>3. ListingInv'
  BY DEF CatalogInv, ListingInv, Listed
<1>4. \A v \in Indexers : indexer'[v].pc # "idle" =>
        /\ indexer[v].pc # "idle" /\ indexer'[v].provider = indexer[v].provider
        /\ indexer'[v].generation = indexer[v].generation
        /\ indexer'[v].attempt = indexer[v].attempt
  BY <1>1
<1>5. LeaseInv'
  <2> SUFFICES ASSUME NEW v \in Indexers, indexer'[v].pc # "idle"
               PROVE  Leased(v, indexer[v].provider)'
    BY DEF LeaseInv
  <2>1. Leased(v, indexer[v].provider) /\ indexer[v].provider \in Providers
    BY <1>1, <1>4 DEF CatalogInv, LeaseInv, IndexerRow
  <2> QED
    BY <1>4, <2>1 DEF Leased
<1>6. \A v \in Indexers, p \in Providers : Holds(v, p)' => Holds(v, p)
  BY <1>4 DEF Holds
<1>7. OneHolder'
  BY <1>6 DEF CatalogInv, OneHolder
<1>8. HolderInv'
  <2> SUFFICES ASSUME NEW v \in Indexers, NEW p \in Providers, Holds(v, p)', v # w
               PROVE  Current(v, p)'
    BY DEF HolderInv
  <2>1. Current(v, p) /\ Holds(v, p)
    BY <1>6 DEF CatalogInv, HolderInv
  <2>2. ~Holds(w, p)
    BY <2>1 DEF CatalogInv, OneHolder
  <2>3. scope'[p] = scope[p] /\ indexer'[v] = indexer[v]
    BY <1>1, <2>2
  <2> QED
    BY <2>1, <2>3 DEF Current, PageOfCursor
<1>9. ASSUME NEW p \in Providers PROVE ProviderInv(p)'
  <2>1. CASE scope'[p] = scope[p] /\ article'[p] = article[p]
    BY <2>1 DEF CatalogInv, ProviderInv, ArticleInv, CoverageInv, ScopeInv, CoverageComplete,
       SeenBefore
  <2> QED
    BY <2>1
<1> QED
  BY <1>2, <1>3, <1>5, <1>7, <1>8, <1>9 DEF CatalogInv, IndexKept

\* The worker's row after a step, and what it says of its lease.
Moved(w) ==
    /\ indexer' = [indexer EXCEPT ![w] = indexer'[w]] /\ indexer'[w] \in IndexerRow
    /\ indexer[w].pc # "idle" /\ indexer'[w].provider = indexer[w].provider
    /\ indexer'[w].generation = indexer[w].generation /\ indexer'[w].attempt = indexer[w].attempt

Stopped(w) ==
    /\ indexer' = [indexer EXCEPT ![w] = indexer'[w]] /\ indexer'[w] \in IndexerRow
    /\ indexer'[w].pc = "idle"

LEMMA RowsTyped ==
    ASSUME CatalogInv
    PROVE  /\ scope \in [Providers -> ScopeRow] /\ article \in [Providers -> [Articles -> ArticleRow]]
           /\ indexer \in [Indexers -> IndexerRow]
           /\ \A w \in Indexers : indexer[w] \in IndexerRow /\ indexer[w].provider \in Providers
BY DEF CatalogInv, CatalogTypeOK, IndexerRow

LEMMA StopRow == ASSUME CatalogInv, NEW w \in Indexers, Stop(w) PROVE Stopped(w)
BY RowsTyped, IdleTyped DEF Stop, Stopped

LEMMA ContinueRow ==
    ASSUME CatalogInv, NEW w \in Indexers, indexer[w].pc # "idle",
           NEW pc \in {"unconfigured", "resolve", "list", "record"}, Continue(w, pc)
    PROVE  Moved(w) /\ indexer'[w].pc = pc
BY RowsTyped DEF Continue, Moved, IndexerRow

LEMMA ErrorRow ==
    ASSUME CatalogInv, NEW w \in Indexers, indexer[w].pc # "idle",
           NEW review \in BOOLEAN, NEW retryable \in BOOLEAN, Error(w, review, retryable)
    PROVE  Moved(w) /\ indexer'[w].pc = "fail"
<1>1. NoPage \in Page
  BY DEF NoPage, Page
<1> QED
  BY <1>1, RowsTyped DEF Error, Moved, IndexerRow

\* A step that tells nobody else anything.
LEMMA QuietStep ==
    ASSUME CatalogInv, NEW w \in Indexers, Moved(w) \/ Stopped(w),
           UNCHANGED <<scope, article, listing, steady>>,
           \A p \in Providers : Holds(w, p)' => Current(w, p)'
    PROVE  CatalogInv' /\ IndexKept
BY IndexerStep, RowsTyped DEF Moved, Stopped

\* A step of the holder of a lease.
LEMMA HolderStep ==
    ASSUME CatalogInv, NEW w \in Indexers, Moved(w) \/ Stopped(w), ScopeHeld(w),
           NEW p \in Providers, p = indexer[w].provider,
           NEW row \in ScopeRow, scope' = [scope EXCEPT ![p] = row],
           NEW rows \in [Articles -> ArticleRow], article' = [article EXCEPT ![p] = rows],
           row.generation = scope[p].generation, row.attempts = scope[p].attempts,
           row.job # "absent", scope[p].completed # Null => row.completed # Null,
           UNCHANGED <<listing, steady>>, ProviderInv(p)',
           Holds(w, p)' => Current(w, p)'
    PROVE  CatalogInv' /\ IndexKept
<1>1. Holds(w, p)
  BY DEF ScopeHeld
<1>2. scope' \in [Providers -> ScopeRow] /\ scope'[p] = row
      /\ \A q \in Providers \ {p} : scope'[q] = scope[q]
  BY RowsTyped
<1>3. article' \in [Providers -> [Articles -> ArticleRow]]
      /\ \A q \in Providers \ {p} : article'[q] = article[q]
  BY RowsTyped
<1>4. \A q \in Providers : Holds(w, q)' => q = p
  BY DEF Holds, Moved, Stopped
<1> QED
  BY <1>1, <1>2, <1>3, <1>4, IndexerStep DEF Moved, Stopped

LEMMA HeldFacts ==
    ASSUME CatalogInv, NEW w \in Indexers, ScopeHeld(w)
    PROVE  /\ indexer[w].provider \in Providers /\ indexer[w].pc # "idle"
           /\ Holds(w, indexer[w].provider)
           /\ scope[indexer[w].provider].job = "processing"
           /\ scope[indexer[w].provider] \in ScopeRow
           /\ article[indexer[w].provider] \in [Articles -> ArticleRow]
           /\ article = [article EXCEPT ![indexer[w].provider] = article[indexer[w].provider]]
           /\ ProviderInv(indexer[w].provider)
BY RowsTyped DEF ScopeHeld, Holds, CatalogInv

\* A holder that only tells the scope something about its job.
LEMMA TellStep ==
    ASSUME CatalogInv, NEW w \in Indexers, Moved(w) \/ Stopped(w), ScopeHeld(w),
           NEW p \in Providers, p = indexer[w].provider,
           NEW row \in ScopeRow, scope' = [scope EXCEPT ![p] = row],
           row.generation = scope[p].generation, row.attempts = scope[p].attempts,
           row.cursor = scope[p].cursor, row.completed = scope[p].completed,
           row.status # "complete", row.job \notin {"absent", "completed"},
           UNCHANGED <<article, listing, steady>>,
           Holds(w, p)' => Current(w, p)'
    PROVE  CatalogInv' /\ IndexKept
<1>1. scope'[p] = row
  BY RowsTyped
<1>2. ProviderInv(p)'
  BY <1>1 DEF CatalogInv, ProviderInv, ArticleInv, CoverageInv, ScopeInv, CoverageComplete, SeenBefore
<1>3. article[p] \in [Articles -> ArticleRow] /\ article' = [article EXCEPT ![p] = article[p]]
  BY HeldFacts
<1> QED
  BY <1>2, <1>3, HolderStep

LEMMA StartStep == ASSUME NEW w \in Indexers PROVE CatalogInv /\ Start(w) => CatalogInv' /\ IndexKept
<1> SUFFICES ASSUME CatalogInv, Start(w), NEW p, p = indexer[w].provider
             PROVE  CatalogInv' /\ IndexKept
  OBVIOUS
<1> DEFINE row == [scope[p] EXCEPT !.status = "running"]
<1>1. ScopeHeld(w) /\ UNCHANGED <<article, listing, steady>>
      /\ (Continue(w, "unconfigured") \/ Continue(w, IF scope[p].resolved THEN "list" ELSE "resolve"))
  BY DEF Start
<1>2. p \in Providers /\ scope[p] \in ScopeRow /\ scope[p].job = "processing" /\ indexer[w].pc # "idle"
  BY <1>1, HeldFacts
<1>3. row \in ScopeRow /\ row.status = "running" /\ row.job = "processing"
      /\ row.generation = scope[p].generation /\ row.attempts = scope[p].attempts
      /\ row.cursor = scope[p].cursor /\ row.completed = scope[p].completed
      /\ row.resolved = scope[p].resolved
  BY <1>2 DEF ScopeRow
<1>4. scope' = [scope EXCEPT ![p] = row] /\ scope'[p] = row
  BY <1>2, RowsTyped DEF Start
<1>5. Moved(w) /\ (indexer'[w].pc = "resolve" => ~scope[p].resolved) /\ indexer'[w].pc # "store"
  BY <1>1, <1>2, ContinueRow
<1>6. Current(w, p)'
  BY <1>3, <1>4, <1>5 DEF Current
<1> HIDE DEF row
<1> QED
  BY <1>1, <1>2, <1>3, <1>4, <1>5, <1>6, TellStep

LEMMA NotConfiguredStep ==
    ASSUME NEW w \in Indexers PROVE CatalogInv /\ NotConfigured(w) => CatalogInv' /\ IndexKept
<1> SUFFICES ASSUME CatalogInv, NotConfigured(w), NEW p, p = indexer[w].provider
             PROVE  CatalogInv' /\ IndexKept
  OBVIOUS
<1> DEFINE row == [scope[p] EXCEPT !.status = "not_configured"]
<1>1. ScopeHeld(w) /\ UNCHANGED <<article, listing, steady>>
      /\ indexer' = [indexer EXCEPT ![w].pc = "record", ![w].retryable = FALSE]
  BY DEF NotConfigured
<1>2. p \in Providers /\ scope[p] \in ScopeRow /\ scope[p].job = "processing" /\ indexer[w].pc # "idle"
  BY <1>1, HeldFacts
<1>3. row \in ScopeRow /\ row.status = "not_configured" /\ row.job = "processing"
      /\ row.generation = scope[p].generation /\ row.attempts = scope[p].attempts
      /\ row.cursor = scope[p].cursor /\ row.completed = scope[p].completed
  BY <1>2 DEF ScopeRow
<1>4. scope' = [scope EXCEPT ![p] = row]
  BY <1>2, RowsTyped DEF NotConfigured
<1>5. Moved(w) /\ indexer'[w].pc = "record"
  BY <1>1, <1>2, RowsTyped DEF Moved, IndexerRow
<1>6. Current(w, p)'
  BY <1>5 DEF Current
<1> HIDE DEF row
<1> QED
  BY <1>1, <1>2, <1>3, <1>4, <1>5, <1>6, TellStep

LEMMA FailScopeStep ==
    ASSUME NEW w \in Indexers PROVE CatalogInv /\ FailScope(w) => CatalogInv' /\ IndexKept
<1> SUFFICES ASSUME CatalogInv, FailScope(w), NEW p, p = indexer[w].provider
             PROVE  CatalogInv' /\ IndexKept
  OBVIOUS
<1>1. ScopeHeld(w) /\ UNCHANGED <<article, listing, steady>> /\ Continue(w, "record")
  BY DEF FailScope
<1>2. p \in Providers /\ scope[p] \in ScopeRow /\ scope[p].job = "processing" /\ indexer[w].pc # "idle"
  BY <1>1, HeldFacts
<1>3. PICK status \in {"needs_review", "partial", "failed"} :
        scope' = [scope EXCEPT ![p].status = status]
  BY DEF FailScope
<1> DEFINE row == [scope[p] EXCEPT !.status = status]
<1>4. row \in ScopeRow /\ row.status = status /\ row.job = "processing"
      /\ row.generation = scope[p].generation /\ row.attempts = scope[p].attempts
      /\ row.cursor = scope[p].cursor /\ row.completed = scope[p].completed
  BY <1>2 DEF ScopeRow
<1>5. scope' = [scope EXCEPT ![p] = row]
  BY <1>2, <1>3, RowsTyped
<1>6. Moved(w) /\ indexer'[w].pc = "record"
  BY <1>1, <1>2, ContinueRow
<1>7. Current(w, p)'
  BY <1>6 DEF Current
<1> HIDE DEF row
<1> QED
  BY <1>1, <1>2, <1>4, <1>5, <1>6, <1>7, TellStep

LEMMA FailJobStep ==
    ASSUME NEW w \in Indexers PROVE CatalogInv /\ FailJob(w) => CatalogInv' /\ IndexKept
<1> SUFFICES ASSUME CatalogInv, FailJob(w), NEW p, p = indexer[w].provider
             PROVE  CatalogInv' /\ IndexKept
  OBVIOUS
<1>1. ScopeHeld(w) /\ UNCHANGED <<article, listing, steady>> /\ Stop(w)
  BY DEF FailJob
<1>2. p \in Providers /\ scope[p] \in ScopeRow /\ scope[p].job = "processing" /\ indexer[w].pc # "idle"
      /\ ScopeInv(p)
  BY <1>1, HeldFacts DEF ProviderInv
<1>3. PICK job \in {"failed", "dead_letter", "needs_review"} :
        scope' = [scope EXCEPT ![p].job = job]
  BY DEF FailJob
<1> DEFINE row == [scope[p] EXCEPT !.job = job]
<1>4. row \in ScopeRow /\ row.status # "complete" /\ row.job = job
      /\ row.generation = scope[p].generation /\ row.attempts = scope[p].attempts
      /\ row.cursor = scope[p].cursor /\ row.completed = scope[p].completed
  BY <1>2 DEF ScopeRow, ScopeInv, JobStatus
<1>5. scope' = [scope EXCEPT ![p] = row]
  BY <1>2, <1>3, RowsTyped
<1>6. Stopped(w)
  BY <1>1, StopRow
<1>7. Current(w, p)'
  BY <1>6 DEF Current, Stopped
<1> HIDE DEF row
<1> QED
  BY <1>1, <1>2, <1>4, <1>5, <1>6, <1>7, TellStep

(***************************************************************************)
(* Steps without a transaction.                                            *)
(***************************************************************************)
LEMMA ErrorStep ==
    ASSUME CatalogInv, NEW w \in Indexers, indexer[w].pc # "idle",
           NEW review \in BOOLEAN, NEW retryable \in BOOLEAN, Error(w, review, retryable),
           UNCHANGED <<scope, article, listing, steady>>
    PROVE  CatalogInv' /\ IndexKept
<1>1. Moved(w) /\ indexer'[w].pc = "fail"
  BY ErrorRow
<1>2. \A p \in Providers : Current(w, p)'
  BY <1>1 DEF Current
<1> QED
  BY <1>1, <1>2, QuietStep

LEMMA IndexerStopsStep ==
    ASSUME NEW w \in Indexers PROVE CatalogInv /\ IndexerStops(w) => CatalogInv' /\ IndexKept
<1> SUFFICES ASSUME CatalogInv, IndexerStops(w) PROVE CatalogInv' /\ IndexKept
  OBVIOUS
<1>1. Stopped(w) /\ UNCHANGED <<scope, article, listing, steady>>
  BY StopRow DEF IndexerStops
<1>2. \A p \in Providers : Current(w, p)'
  BY <1>1 DEF Current, Stopped
<1> QED
  BY <1>1, <1>2, QuietStep

LEMMA PageTyped ==
    ASSUME CatalogInv, NEW p \in Providers
    PROVE  PageAt(p, scope[p].cursor) \in Page /\ PageOfCursor(p, PageAt(p, scope[p].cursor))
<1> DEFINE c == scope[p].cursor
           of == [a \in Articles |-> IF PageOf[a] = c \/ (a \in Repeated /\ PageOf[a] < c)
                                     THEN listing[p].version[a] ELSE 0]
           next == IF c < LastPage THEN c + 1 ELSE 0
           complete == c = LastPage
<1>1. c \in 0 .. LastPage /\ listing[p].version \in [Articles -> 0 .. 2]
      /\ steady[p] \subseteq Listed(p)
  BY DEF CatalogInv, CatalogTypeOK, ScopeRow, Listing, ListingInv
<1>2. of \in [Articles -> 0 .. 2] /\ \A a \in steady[p] : PageOf[a] = c => of[a] # 0
  BY <1>1 DEF Listed
<1>3. next \in 0 .. LastPage /\ complete \in BOOLEAN
  BY <1>1
<1>4. PageAt(p, c) = [of |-> of, next |-> next, complete |-> complete]
  BY DEF PageAt
<1>5. complete => c = LastPage
  OBVIOUS
<1> HIDE DEF of, complete
<1>6. PageAt(p, c) \in Page
  BY <1>2, <1>3, <1>4 DEF Page
<1>7. PageAt(p, c).of = of /\ PageAt(p, c).next = next /\ PageAt(p, c).complete = complete
  BY <1>4
<1> QED
  BY <1>2, <1>5, <1>6, <1>7 DEF PageOfCursor

LEMMA ListPageStep ==
    ASSUME NEW w \in Indexers PROVE CatalogInv /\ ListPage(w) => CatalogInv' /\ IndexKept
<1> SUFFICES ASSUME CatalogInv, ListPage(w), NEW p, p = indexer[w].provider
             PROVE  CatalogInv' /\ IndexKept
  OBVIOUS
<1>1. indexer[w].pc = "list" /\ p \in Providers /\ UNCHANGED <<scope, article, listing, steady>>
  BY RowsTyped DEF ListPage, At
<1>2. CASE \E retryable \in BOOLEAN : Error(w, FALSE, retryable)
  BY <1>1, <1>2, ErrorStep
<1>3. CASE indexer' = [indexer EXCEPT ![w].pc = "store", ![w].page = PageAt(p, scope[p].cursor)]
  <2> DEFINE page == PageAt(p, scope[p].cursor)
  <2>1. page \in Page /\ PageOfCursor(p, page)
    BY <1>1, PageTyped
  <2> HIDE DEF page
  <2>2. Moved(w) /\ indexer'[w].pc = "store" /\ indexer'[w].page = page
    BY <1>1, <1>3, <2>1, RowsTyped DEF Moved, IndexerRow, page
  <2>3. ASSUME NEW q \in Providers, Holds(w, q)' PROVE Current(w, q)'
    <3>1. q = p
      BY <2>2, <2>3 DEF Holds, Moved
    <3>2. PageOfCursor(p, indexer'[w].page)
      BY <2>1, <2>2
    <3> QED
      BY <1>1, <2>2, <3>1, <3>2 DEF Current, PageOfCursor
  <2> QED
    BY <1>1, <2>2, <2>3, QuietStep
<1> QED
  BY <1>2, <1>3 DEF ListPage

(***************************************************************************)
(* What completes or extends an index.                                     *)
(***************************************************************************)
LEMMA CompletedTyped ==
    ASSUME NEW row \in ScopeRow
    PROVE  /\ Completed(row) \in ScopeRow /\ Completed(row).cursor = 0
           /\ Completed(row).job = "completed" /\ Completed(row).completed = row.generation
           /\ Completed(row).generation = row.generation /\ Completed(row).attempts = row.attempts
           /\ Completed(row).resolved = row.resolved
<1>1. Completed(row) = [row EXCEPT !.status = "complete", !.completed = row.generation,
                                  !.cursor = 0, !.job = "completed"]
  BY DEF Completed
<1>2. /\ Completed(row).cursor = 0 /\ Completed(row).job = "completed"
      /\ Completed(row).completed = row.generation /\ Completed(row).generation = row.generation
      /\ Completed(row).attempts = row.attempts /\ Completed(row).resolved = row.resolved
  BY <1>1 DEF ScopeRow
<1>3. Completed(row) \in ScopeRow
  <2>1. "completed" \in JobStatus /\ 0 \in 0 .. LastPage
    BY DEF JobStatus
  <2> QED
    BY <1>1, <2>1 DEF ScopeRow
<1> QED
  BY <1>2, <1>3

LEMMA RetiredRows ==
    ASSUME NEW p, NEW rows \in [Articles -> ArticleRow], NEW g \in Nat
    PROVE  /\ Retired(p, rows, g) \in [Articles -> ArticleRow]
           /\ \A a \in Articles :
                /\ Retired(p, rows, g)[a].seen = rows[a].seen
                /\ Retired(p, rows, g)[a].active => ~(rows[a].seen < g)
                /\ rows[a].active /\ ~(rows[a].seen < g) => Retired(p, rows, g)[a].active
<1>1. ASSUME NEW a \in Articles
      PROVE  /\ Retired(p, rows, g)[a] \in ArticleRow
             /\ Retired(p, rows, g)[a].seen = rows[a].seen
             /\ Retired(p, rows, g)[a].active => ~(rows[a].seen < g)
             /\ rows[a].active /\ ~(rows[a].seen < g) => Retired(p, rows, g)[a].active
  <2>1. rows[a] \in ArticleRow
    OBVIOUS
  <2>2. [rows[a] EXCEPT !.active = FALSE] \in ArticleRow
        /\ [rows[a] EXCEPT !.active = FALSE].seen = rows[a].seen
        /\ ~[rows[a] EXCEPT !.active = FALSE].active
    BY <2>1 DEF ArticleRow
  <2>3. Retired(p, rows, g)[a] =
            IF rows[a].seen < g THEN [rows[a] EXCEPT !.active = FALSE] ELSE rows[a]
    BY DEF Retired
  <2>4. CASE rows[a].seen < g
    BY <2>2, <2>3, <2>4
  <2>5. CASE ~(rows[a].seen < g)
    BY <2>1, <2>3, <2>5
  <2> QED
    BY <2>4, <2>5
<1>2. Retired(p, rows, g) = [a \in Articles |-> Retired(p, rows, g)[a]]
  BY DEF Retired
<1> QED
  BY <1>1, <1>2

LEMMA ResolveStep ==
    ASSUME NEW w \in Indexers PROVE CatalogInv /\ Resolve(w) => CatalogInv' /\ IndexKept
<1> SUFFICES ASSUME CatalogInv, Resolve(w), NEW p, p = indexer[w].provider
             PROVE  CatalogInv' /\ IndexKept
  OBVIOUS
<1>1. indexer[w].pc = "resolve" /\ p \in Providers /\ UNCHANGED <<listing, steady>>
  BY RowsTyped DEF Resolve, At
<1>2. CASE /\ ScopeHeld(w) /\ scope' = [scope EXCEPT ![p].resolved = TRUE]
           /\ Continue(w, "list") /\ UNCHANGED article
  <2> DEFINE row == [scope[p] EXCEPT !.resolved = TRUE]
  <2>1. scope[p] \in ScopeRow /\ scope[p].job = "processing" /\ ScopeInv(p)
    BY <1>2, HeldFacts DEF ProviderInv
  <2>2. row \in ScopeRow /\ row.status # "complete" /\ row.job = "processing"
        /\ row.generation = scope[p].generation /\ row.attempts = scope[p].attempts
        /\ row.cursor = scope[p].cursor /\ row.completed = scope[p].completed
    BY <2>1 DEF ScopeRow, ScopeInv
  <2>3. scope' = [scope EXCEPT ![p] = row]
    BY <1>1, <1>2, RowsTyped
  <2>4. Moved(w) /\ indexer'[w].pc = "list"
    BY <1>1, <1>2, ContinueRow
  <2>5. Current(w, p)'
    BY <2>4 DEF Current
  <2> HIDE DEF row
  <2> QED
    BY <1>1, <1>2, <2>2, <2>3, <2>4, <2>5, TellStep
<1>3. CASE /\ ScopeHeld(w) /\ scope' = [scope EXCEPT ![p] = Completed(@)]
           /\ article' = [article EXCEPT ![p] = Retired(p, @, scope[p].generation)] /\ Stop(w)
  <2> DEFINE row == Completed(scope[p])
             rows == Retired(p, article[p], scope[p].generation)
  <2>1. scope[p] \in ScopeRow /\ article[p] \in [Articles -> ArticleRow] /\ ProviderInv(p)
        /\ Holds(w, p)
    BY <1>3, HeldFacts
  <2>2. scope[p].generation \in Nat /\ ~scope[p].resolved
    BY <1>1, <2>1 DEF ScopeRow, CatalogInv, HolderInv, Current
  <2>3. row \in ScopeRow /\ row.cursor = 0 /\ row.job = "completed"
        /\ row.completed = scope[p].generation /\ row.generation = scope[p].generation
        /\ row.attempts = scope[p].attempts /\ row.resolved = scope[p].resolved
    BY <2>1, CompletedTyped
  <2>4. /\ rows \in [Articles -> ArticleRow]
        /\ \A a \in Articles :
            /\ rows[a].seen = article[p][a].seen
            /\ rows[a].active => ~(article[p][a].seen < scope[p].generation)
            /\ article[p][a].active /\ ~(article[p][a].seen < scope[p].generation) => rows[a].active
    <3> DEFINE old == article[p]
               g == scope[p].generation
    <3>1. old \in [Articles -> ArticleRow] /\ g \in Nat
      BY <2>1, <2>2
    <3> HIDE DEF old, g
    <3>2. /\ Retired(p, old, g) \in [Articles -> ArticleRow]
          /\ \A a \in Articles :
                /\ Retired(p, old, g)[a].seen = old[a].seen
                /\ Retired(p, old, g)[a].active => ~(old[a].seen < g)
                /\ old[a].active /\ ~(old[a].seen < g) => Retired(p, old, g)[a].active
      BY <3>1, RetiredRows
    <3> QED
      BY <3>2 DEF old, g
  <2>5. scope' = [scope EXCEPT ![p] = row] /\ article' = [article EXCEPT ![p] = rows]
    BY <1>3
  <2> HIDE DEF row, rows
  <2>6. scope'[p] = row /\ article'[p] = rows
    BY <1>1, <2>5, RowsTyped
  <2>7. \A a \in Articles : article[p][a].seen \in {0 - 1} \cup Nat
        /\ article[p][a].seen <= scope[p].generation
        /\ (article[p][a].seen = scope[p].generation => article[p][a].active)
    BY <2>1, <2>2 DEF ArticleRow, ProviderInv, ArticleInv, SeenBefore, Null
  <2>8. ArticleInv(p)'
    <3>1. \A a \in Articles : ~(PageOf[a] < 0)
      OBVIOUS
    <3>2. steady'[p] \subseteq Articles
      BY <1>1 DEF CatalogInv, CatalogTypeOK
    <3> QED
      BY <2>2, <2>3, <2>4, <2>6, <2>7, <3>1, <3>2 DEF ArticleInv, SeenBefore
  <2>9. CoverageInv(p)' /\ ScopeInv(p)'
    <3>1. ~scope'[p].resolved /\ scope'[p].job = "completed" /\ scope'[p].completed # Null
          /\ scope'[p].generation = scope[p].generation
      BY <2>2, <2>3, <2>6 DEF Null
    <3>2. \A a \in Articles : article'[p][a].active => article'[p][a].seen = scope[p].generation
      BY <2>2, <2>4, <2>6, <2>7
    <3> QED
      BY <3>1, <3>2 DEF CoverageInv, ScopeInv, SeenBefore
  <2>10. Stopped(w)
    BY <1>3, StopRow
  <2>11. Current(w, p)'
    BY <2>10 DEF Current, Stopped
  <2>12. row.completed # Null
    BY <2>2, <2>3 DEF Null
  <2> QED
    BY <1>1, <1>3, <2>3, <2>4, <2>5, <2>8, <2>9, <2>10, <2>11, <2>12, HolderStep DEF ProviderInv
<1>4. CASE (\E review, retryable \in BOOLEAN : Error(w, review, retryable))
           /\ UNCHANGED <<scope, article>>
  BY <1>1, <1>4, ErrorStep
<1> QED
  BY <1>2, <1>3, <1>4 DEF Resolve

LEMMA StoredRows ==
    ASSUME CatalogInv, NEW p \in Providers, NEW page \in Page
    PROVE  /\ Stored(p, page) \in [Articles -> ArticleRow]
           /\ \A a \in Articles :
                /\ Stored(p, page)[a].seen <= scope[p].generation
                /\ page.of[a] # 0 \/ SeenBefore(p, a) =>
                        Stored(p, page)[a].seen = scope[p].generation
                /\ Stored(p, page)[a].seen = scope[p].generation => Stored(p, page)[a].active
<1>1. scope[p].generation \in 0 .. MaxGeneration /\ article[p] \in [Articles -> ArticleRow]
      /\ ArticleInv(p)
  BY DEF CatalogInv, CatalogTypeOK, ScopeRow, ProviderInv
<1>2. ASSUME NEW a \in Articles
      PROVE  /\ Stored(p, page)[a] \in ArticleRow
             /\ Stored(p, page)[a].seen <= scope[p].generation
             /\ page.of[a] # 0 \/ SeenBefore(p, a) =>
                        Stored(p, page)[a].seen = scope[p].generation
             /\ Stored(p, page)[a].seen = scope[p].generation => Stored(p, page)[a].active
  <2> DEFINE new == [seen |-> scope[p].generation, version |-> page.of[a], active |-> TRUE]
  <2>1. article[p][a] \in ArticleRow /\ article[p][a].seen <= scope[p].generation
        /\ (SeenBefore(p, a) => article[p][a].active)
    BY <1>1 DEF ArticleInv
  <2>2. page.of[a] \in 0 .. 2
    BY DEF Page
  <2>3. new \in ArticleRow /\ new.seen = scope[p].generation /\ new.active
    BY <1>1, <2>2 DEF ArticleRow
  <2>4. Stored(p, page)[a] =
            IF page.of[a] # 0 /\ ~SeenBefore(p, a) THEN new ELSE article[p][a]
    BY DEF Stored, OnPage
  <2> HIDE DEF new
  <2>5. CASE page.of[a] # 0 /\ ~SeenBefore(p, a)
    BY <1>1, <2>3, <2>4, <2>5
  <2>6. CASE ~(page.of[a] # 0 /\ ~SeenBefore(p, a))
    BY <2>1, <2>4, <2>6 DEF SeenBefore
  <2> QED
    BY <2>5, <2>6
<1>3. Stored(p, page) = [a \in Articles |-> Stored(p, page)[a]]
  BY DEF Stored
<1> QED
  BY <1>2, <1>3

LEMMA StorePageStep ==
    ASSUME NEW w \in Indexers PROVE CatalogInv /\ StorePage(w) => CatalogInv' /\ IndexKept
<1> SUFFICES ASSUME CatalogInv, StorePage(w), NEW p, p = indexer[w].provider,
                    NEW page, page = indexer[w].page
             PROVE  CatalogInv' /\ IndexKept
  OBVIOUS
<1> DEFINE rows == Stored(p, page)
           stored == [scope[p] EXCEPT !.cursor = page.next, !.visited = @ \cup {scope[p].cursor}]
           conflict == Conflicting(p, page)
           repeated == ~page.complete /\ page.next \in stored.visited
<1>1. ScopeHeld(w) /\ indexer[w].pc = "store" /\ UNCHANGED <<listing, steady>>
  BY DEF StorePage, At
<1>2. /\ p \in Providers /\ scope[p] \in ScopeRow /\ scope[p].job = "processing"
      /\ article[p] \in [Articles -> ArticleRow] /\ ProviderInv(p) /\ Holds(w, p)
  BY <1>1, HeldFacts
<1>3. page \in Page /\ PageOfCursor(p, page)
  BY <1>1, <1>2, RowsTyped DEF IndexerRow, CatalogInv, HolderInv, Current
<1>4. scope[p].generation \in Nat /\ scope[p].cursor \in 0 .. LastPage /\ page.next \in 0 .. LastPage
      /\ scope[p].status # "complete" /\ scope[p].visited \subseteq 0 .. LastPage
  BY <1>2, <1>3 DEF ScopeRow, Page, ProviderInv, ScopeInv
<1>5. stored \in ScopeRow /\ stored.cursor = page.next /\ stored.job = "processing"
      /\ stored.generation = scope[p].generation /\ stored.attempts = scope[p].attempts
      /\ stored.completed = scope[p].completed /\ stored.status = scope[p].status
      /\ stored.resolved = scope[p].resolved
  BY <1>2, <1>4 DEF ScopeRow
<1>6. /\ rows \in [Articles -> ArticleRow]
      /\ \A a \in Articles :
            /\ rows[a].seen <= scope[p].generation
            /\ page.of[a] # 0 \/ SeenBefore(p, a) => rows[a].seen = scope[p].generation
            /\ rows[a].seen = scope[p].generation => rows[a].active
  BY <1>2, <1>3, StoredRows
<1>7. steady[p] \subseteq Articles /\ steady'[p] = steady[p] /\ PageOf \in [Articles -> 0 .. LastPage]
  BY <1>1, <1>2 DEF CatalogInv, CatalogTypeOK
<1>8. \A a \in steady[p] : PageOf[a] <= scope[p].cursor => rows[a].seen = scope[p].generation
  <2> SUFFICES ASSUME NEW a \in steady[p], PageOf[a] <= scope[p].cursor
               PROVE  page.of[a] # 0 \/ SeenBefore(p, a)
    BY <1>6, <1>7
  <2>1. PageOf[a] < scope[p].cursor \/ PageOf[a] = scope[p].cursor
    BY <1>4, <1>7
  <2> QED
    BY <1>2, <1>3, <2>1 DEF ProviderInv, ArticleInv, PageOfCursor
<1>9. CASE page.complete /\ ~conflict
  <2> DEFINE row == Completed(stored)
             kept == Retired(p, rows, scope[p].generation)
  <2>1. scope' = [scope EXCEPT ![p] = row] /\ article' = [article EXCEPT ![p] = kept] /\ Stop(w)
    BY <1>9 DEF StorePage
  <2>2. row \in ScopeRow /\ row.cursor = 0 /\ row.job = "completed"
        /\ row.completed = scope[p].generation /\ row.generation = scope[p].generation
        /\ row.attempts = scope[p].attempts
    <3> HIDE DEF stored
    <3> QED
      BY <1>5, CompletedTyped
  <2> HIDE DEF rows, row
  <2>3. /\ kept \in [Articles -> ArticleRow]
        /\ \A a \in Articles :
            /\ kept[a].seen = rows[a].seen
            /\ kept[a].active => ~(rows[a].seen < scope[p].generation)
            /\ rows[a].active /\ ~(rows[a].seen < scope[p].generation) => kept[a].active
    <3> DEFINE g == scope[p].generation
    <3>1. rows \in [Articles -> ArticleRow] /\ g \in Nat
      BY <1>4, <1>6
    <3> HIDE DEF g
    <3>2. /\ Retired(p, rows, g) \in [Articles -> ArticleRow]
          /\ \A a \in Articles :
                /\ Retired(p, rows, g)[a].seen = rows[a].seen
                /\ Retired(p, rows, g)[a].active => ~(rows[a].seen < g)
                /\ rows[a].active /\ ~(rows[a].seen < g) => Retired(p, rows, g)[a].active
      BY <3>1, RetiredRows
    <3> QED
      BY <3>2 DEF g
  <2> HIDE DEF kept
  <2>4. scope'[p] = row /\ article'[p] = kept
    BY <1>2, <2>1, RowsTyped
  <2>5. \A a \in Articles : rows[a].seen \in {0 - 1} \cup Nat
    BY <1>6 DEF ArticleRow, Null
  <2>6. \A a \in Articles : rows[a].seen = scope[p].generation => kept[a].active
    BY <1>4, <1>6, <2>3, <2>5
  <2>7. ArticleInv(p)'
    <3>1. \A a \in Articles : ~(PageOf[a] < 0)
      OBVIOUS
    <3> QED
      BY <1>6, <1>7, <2>2, <2>3, <2>4, <2>6, <3>1 DEF ArticleInv, SeenBefore
  <2>8. CoverageInv(p)'
    <3>1. \A a \in steady[p] : kept[a].active
      <4>1. scope[p].cursor = LastPage
        BY <1>3, <1>9 DEF PageOfCursor
      <4>2. \A a \in steady[p] : rows[a].seen = scope[p].generation
        BY <1>7, <1>8, <4>1
      <4> QED
        BY <1>7, <2>6, <4>2
    <3>2. \A a \in Articles : kept[a].active => kept[a].seen = scope[p].generation
      <4> SUFFICES ASSUME NEW a \in Articles, kept[a].active
                   PROVE  rows[a].seen = scope[p].generation
        BY <2>3
      <4>1. ~(rows[a].seen < scope[p].generation)
        BY <2>3
      <4>2. rows[a].seen <= scope[p].generation /\ rows[a].seen \in {0 - 1} \cup Nat
        BY <1>6, <2>5
      <4> QED
        BY <1>4, <4>1, <4>2
    <3> QED
      BY <1>7, <2>2, <2>4, <3>1, <3>2 DEF CoverageInv, SeenBefore
  <2>9. row.completed # Null /\ ScopeInv(p)'
    BY <1>4, <2>2, <2>4 DEF Null, ScopeInv
  <2>10. Stopped(w)
    BY <2>1, StopRow
  <2>11. Current(w, p)'
    BY <2>10 DEF Current, Stopped
  <2> QED
    BY <1>1, <1>2, <2>1, <2>2, <2>3, <2>7, <2>8, <2>9, <2>10, <2>11, HolderStep DEF ProviderInv
<1>10. CASE ~(page.complete /\ ~conflict)
  <2>1. /\ scope' = [scope EXCEPT ![p] = stored] /\ article' = [article EXCEPT ![p] = rows]
        /\ IF conflict \/ repeated THEN Error(w, conflict, FALSE)
           ELSE indexer' = [indexer EXCEPT ![w].pc = "list", ![w].page = NoPage]
    BY <1>10 DEF StorePage
  <2>2. conflict \in BOOLEAN
    BY DEF Conflicting
  <2>3. NoPage \in Page
    BY DEF NoPage, Page
  <2>4. Moved(w) /\ indexer'[w].pc \notin {"resolve", "store"}
    <3> HIDE DEF conflict, repeated
    <3>1. CASE conflict \/ repeated
      BY <1>1, <2>1, <2>2, <3>1, ErrorRow
    <3>2. CASE ~(conflict \/ repeated)
      <4>1. indexer' = [indexer EXCEPT ![w].pc = "list", ![w].page = NoPage]
        BY <2>1, <3>2
      <4>2. indexer \in [Indexers -> IndexerRow] /\ indexer[w] \in IndexerRow
        BY RowsTyped
      <4>3. indexer'[w] \in IndexerRow /\ indexer'[w].pc = "list"
            /\ indexer'[w].provider = indexer[w].provider
            /\ indexer'[w].generation = indexer[w].generation
            /\ indexer'[w].attempt = indexer[w].attempt
        BY <2>3, <4>1, <4>2 DEF IndexerRow
      <4>4. indexer' = [indexer EXCEPT ![w] = indexer'[w]]
        BY <4>1, <4>2
      <4> QED
        BY <1>1, <4>3, <4>4 DEF Moved
    <3> QED
      BY <3>1, <3>2
  <2>5. Current(w, p)'
    BY <2>4 DEF Current
  <2> HIDE DEF rows, stored
  <2>6. scope'[p] = stored /\ article'[p] = rows
    BY <1>2, <2>1, RowsTyped
  <2>7. ArticleInv(p)'
    <3>1. \A a \in steady[p] : PageOf[a] < page.next => PageOf[a] <= scope[p].cursor
      BY <1>3, <1>4, <1>7 DEF PageOfCursor
    <3> QED
      BY <1>5, <1>6, <1>7, <1>8, <2>6, <3>1 DEF ArticleInv, SeenBefore
  <2>8. CoverageInv(p)' /\ ScopeInv(p)'
    BY <1>4, <1>5, <2>6 DEF CoverageInv, CoverageComplete, ScopeInv
  <2> QED
    BY <1>1, <1>2, <1>5, <1>6, <2>1, <2>4, <2>5, <2>7, <2>8, HolderStep DEF ProviderInv
<1> QED
  BY <1>9, <1>10

(***************************************************************************)
(* Claims, sweeps and new generations.                                     *)
(***************************************************************************)
\* A scope whose coverage is not complete keeps its invariant when only its job moves.
LEMMA IncompleteScope ==
    ASSUME NEW p, ProviderInv(p), UNCHANGED <<article, steady>>,
           scope'[p].status # "complete", scope'[p].job # "completed",
           scope'[p].generation = scope[p].generation, scope'[p].cursor = scope[p].cursor
    PROVE  ProviderInv(p)'
BY DEF ProviderInv, ArticleInv, CoverageInv, CoverageComplete, ScopeInv, SeenBefore

LEMMA SameScope ==
    ASSUME NEW p, ProviderInv(p), scope'[p] = scope[p], article' = article, steady'[p] = steady[p]
    PROVE  ProviderInv(p)'
BY DEF ProviderInv, ArticleInv, CoverageInv, CoverageComplete, ScopeInv, SeenBefore

LEMMA ClaimStep ==
    ASSUME NEW w \in Indexers, NEW p \in Providers
    PROVE  CatalogInv /\ ClaimIndex(w, p) => CatalogInv' /\ IndexKept
<1> SUFFICES ASSUME CatalogInv, ClaimIndex(w, p) PROVE CatalogInv' /\ IndexKept
  OBVIOUS
<1> DEFINE row == [scope[p] EXCEPT !.job = "processing", !.attempts = scope[p].attempts + 1]
           irow == [IdleIndexer EXCEPT !.pc = "start", !.provider = p,
                        !.generation = scope[p].generation, !.attempt = scope[p].attempts + 1]
<1>1. /\ indexer[w].pc = "idle" /\ JobActive(scope[p]) /\ scope[p].attempts < MaxAttempts
      /\ scope' = [scope EXCEPT ![p] = row] /\ indexer' = [indexer EXCEPT ![w] = irow]
      /\ UNCHANGED <<article, listing, steady>>
  BY DEF ClaimIndex
<1>2. scope[p] \in ScopeRow /\ scope[p].attempts \in Nat /\ scope[p].attempts + 1 \in 0 .. MaxAttempts
      /\ scope[p].generation \in 0 .. MaxGeneration
  <2>1. scope[p] \in ScopeRow
    BY RowsTyped
  <2> QED
    BY <1>1, <2>1 DEF ScopeRow
<1>3. row \in ScopeRow /\ row.job = "processing" /\ row.attempts = scope[p].attempts + 1
      /\ row.generation = scope[p].generation /\ row.cursor = scope[p].cursor
      /\ row.status = scope[p].status /\ row.completed = scope[p].completed
  BY <1>2 DEF ScopeRow, JobStatus
<1>4. irow \in IndexerRow /\ irow.pc = "start" /\ irow.provider = p
      /\ irow.generation = scope[p].generation /\ irow.attempt = scope[p].attempts + 1
  BY <1>2, IdleTyped DEF IndexerRow
<1> HIDE DEF row, irow
<1>5. scope' \in [Providers -> ScopeRow] /\ scope'[p] = row
      /\ \A q \in Providers \ {p} : scope'[q] = scope[q]
  BY <1>1, <1>3, RowsTyped
<1>6. indexer' \in [Indexers -> IndexerRow] /\ indexer'[w] = irow
      /\ \A v \in Indexers \ {w} : indexer'[v] = indexer[v]
  BY <1>1, <1>4, RowsTyped
<1>7. CatalogTypeOK' /\ ListingInv'
  BY <1>1, <1>5, <1>6 DEF CatalogInv, CatalogTypeOK, ListingInv, Listed
<1>8. scope[p].status # "complete" /\ scope[p].job # "absent"
  BY <1>1 DEF CatalogInv, ProviderInv, ScopeInv, JobActive
<1>9. ASSUME NEW q \in Providers PROVE ProviderInv(q)'
  <2>1. ProviderInv(q)
    BY DEF CatalogInv
  <2>2. CASE q = p
    BY <1>1, <1>3, <1>5, <1>8, <2>1, <2>2, IncompleteScope
  <2>3. CASE q # p
    BY <1>1, <1>5, <2>1, <2>3, SameScope
  <2> QED
    BY <2>2, <2>3
<1>10. \A v \in Indexers : indexer[v].pc # "idle" =>
        /\ Leased(v, indexer[v].provider) /\ indexer[v].provider \in Providers
        /\ indexer[v].attempt \in Nat
  BY RowsTyped DEF CatalogInv, LeaseInv, IndexerRow
<1>11. LeaseInv'
  <2> SUFFICES ASSUME NEW v \in Indexers, indexer'[v].pc # "idle"
               PROVE  Leased(v, indexer[v].provider)'
    BY DEF LeaseInv
  <2>1. CASE v = w
    BY <1>2, <1>3, <1>4, <1>5, <1>6, <2>1 DEF Leased
  <2>2. CASE v # w
    <3>1. indexer'[v] = indexer[v] /\ Leased(v, indexer[v].provider)
          /\ indexer[v].provider \in Providers /\ indexer[v].attempt \in Nat
      BY <1>6, <1>10, <2>2
    <3>2. CASE indexer[v].provider = p
      BY <1>2, <1>3, <1>5, <3>1, <3>2 DEF Leased
    <3>3. CASE indexer[v].provider # p
      BY <1>5, <3>1, <3>3 DEF Leased
    <3> QED
      BY <3>2, <3>3
  <2> QED
    BY <2>1, <2>2
<1>12. \A v \in Indexers, q \in Providers : Holds(v, q)' =>
        (v = w /\ q = p) \/ (v # w /\ q # p /\ Holds(v, q))
  <2> SUFFICES ASSUME NEW v \in Indexers, NEW q \in Providers, Holds(v, q)'
               PROVE  (v = w /\ q = p) \/ (v # w /\ q # p /\ Holds(v, q))
    OBVIOUS
  <2>1. CASE v = w
    BY <1>4, <1>6, <2>1 DEF Holds
  <2>2. CASE v # w
    <3>1. indexer'[v] = indexer[v]
      BY <1>6, <2>2
    <3>2. q # p
      BY <1>2, <1>3, <1>5, <1>10, <3>1 DEF Holds, Leased
    <3> QED
      BY <1>5, <2>2, <3>1, <3>2 DEF Holds
  <2> QED
    BY <2>1, <2>2
<1>13. OneHolder'
  BY <1>12 DEF CatalogInv, OneHolder
<1>14. HolderInv'
  <2> SUFFICES ASSUME NEW v \in Indexers, NEW q \in Providers, Holds(v, q)'
               PROVE  Current(v, q)'
    BY DEF HolderInv
  <2>1. CASE v = w
    BY <1>4, <1>6, <2>1 DEF Current
  <2>2. CASE v # w
    <3>1. q # p /\ Current(v, q)
      BY <1>12, <2>2 DEF CatalogInv, HolderInv
    <3> QED
      BY <1>1, <1>5, <1>6, <2>2, <3>1 DEF Current, PageOfCursor
  <2> QED
    BY <2>1, <2>2
<1>15. IndexKept
  BY <1>3, <1>5 DEF IndexKept
<1> QED
  BY <1>7, <1>9, <1>11, <1>13, <1>14, <1>15 DEF CatalogInv

LEMMA SweepStep == ASSUME NEW p \in Providers PROVE CatalogInv /\ SweepIndex(p) => CatalogInv' /\ IndexKept
<1> SUFFICES ASSUME CatalogInv, SweepIndex(p) PROVE CatalogInv' /\ IndexKept
  OBVIOUS
<1> DEFINE row == [scope[p] EXCEPT !.job = "dead_letter"]
<1>1. scope[p].job = "processing" /\ scope[p] \in ScopeRow
      /\ UNCHANGED <<article, listing, indexer, steady>>
  BY RowsTyped DEF SweepIndex
<1>2. row \in ScopeRow /\ row.job = "dead_letter" /\ row.attempts = scope[p].attempts
      /\ row.generation = scope[p].generation /\ row.cursor = scope[p].cursor
      /\ row.status = scope[p].status /\ row.completed = scope[p].completed
      /\ row.resolved = scope[p].resolved
  BY <1>1 DEF ScopeRow, JobStatus
<1>3. scope' = [scope EXCEPT ![p] = row]
  BY RowsTyped DEF SweepIndex
<1> HIDE DEF row
<1>4. scope' \in [Providers -> ScopeRow] /\ scope'[p] = row
      /\ \A q \in Providers \ {p} : scope'[q] = scope[q]
  BY <1>2, <1>3, RowsTyped
<1>5. CatalogTypeOK' /\ ListingInv'
  BY <1>1, <1>4 DEF CatalogInv, CatalogTypeOK, ListingInv, Listed
<1>6. \A q \in Providers :
        /\ scope'[q].generation = scope[q].generation /\ scope'[q].attempts = scope[q].attempts
        /\ scope'[q].cursor = scope[q].cursor /\ scope'[q].resolved = scope[q].resolved
        /\ scope'[q].completed = scope[q].completed
        /\ scope[q].job # "absent" => scope'[q].job # "absent"
  BY <1>2, <1>4
<1>7. LeaseInv'
  BY <1>1, <1>6, RowsTyped DEF CatalogInv, LeaseInv, Leased
<1>8. OneHolder'
  BY <1>1, <1>6 DEF CatalogInv, OneHolder, Holds
<1>9. HolderInv'
  BY <1>1, <1>6 DEF CatalogInv, HolderInv, Holds, Current, PageOfCursor
<1>10. ASSUME NEW q \in Providers PROVE ProviderInv(q)'
  <2>1. ProviderInv(q)
    BY DEF CatalogInv
  <2>2. CASE q = p
    BY <1>1, <1>2, <1>4, <2>1, <2>2, IncompleteScope DEF ProviderInv, ScopeInv
  <2>3. CASE q # p
    BY <1>1, <1>4, <2>1, <2>3, SameScope
  <2> QED
    BY <2>2, <2>3
<1> QED
  BY <1>5, <1>6, <1>7, <1>8, <1>9, <1>10 DEF CatalogInv, IndexKept

\* A job of a new generation, or the first one of a scope.
Fresh(p) ==
    /\ scope'[p] \in ScopeRow /\ steady'[p] = Listed(p)
    /\ scope'[p].status = "pending" /\ scope'[p].job = "pending" /\ scope'[p].cursor = 0
    /\ scope'[p].completed = scope[p].completed
    /\ \/ scope[p].job = "absent" /\ scope'[p].generation = scope[p].generation
       \/ scope'[p].generation = scope[p].generation + 1

LEMMA FreshStep ==
    ASSUME CatalogInv, UNCHANGED <<article, listing, indexer>>,
           scope' = [p \in Providers |-> scope'[p]], steady' = [p \in Providers |-> steady'[p]],
           \A p \in Providers : Fresh(p) \/ (scope'[p] = scope[p] /\ steady'[p] = steady[p])
    PROVE  CatalogInv' /\ IndexKept
<1>1. \A p \in Providers : scope'[p] \in ScopeRow /\ steady'[p] \in SUBSET Articles
  BY DEF CatalogInv, CatalogTypeOK, Fresh, Listed
<1>2. CatalogTypeOK'
  <2>1. scope' \in [Providers -> ScopeRow] /\ steady' \in [Providers -> SUBSET Articles]
    BY <1>1
  <2> QED
    BY <2>1 DEF CatalogInv, CatalogTypeOK
<1>3. ListingInv'
  BY DEF CatalogInv, ListingInv, Listed, Fresh
<1>4. \A w \in Indexers : indexer[w].pc # "idle" =>
        /\ Leased(w, indexer[w].provider) /\ indexer[w].provider \in Providers
        /\ indexer[w].generation \in Nat
  BY RowsTyped DEF CatalogInv, LeaseInv, IndexerRow
<1>5. \A p \in Providers : scope[p].generation \in Nat
  BY RowsTyped DEF ScopeRow
<1>6. ASSUME NEW w \in Indexers, NEW p \in Providers, Holds(w, p)'
      PROVE  Holds(w, p) /\ scope'[p] = scope[p] /\ steady'[p] = steady[p]
  <2>1. ~Fresh(p)
    BY <1>4, <1>5, <1>6 DEF Fresh, Holds, Leased
  <2> QED
    BY <1>6, <2>1 DEF Holds
<1>7. OneHolder'
  BY <1>6 DEF CatalogInv, OneHolder
<1>8. HolderInv'
  BY <1>6 DEF CatalogInv, HolderInv, Current, PageOfCursor
<1>9. LeaseInv'
  <2> SUFFICES ASSUME NEW w \in Indexers, indexer[w].pc # "idle"
               PROVE  Leased(w, indexer[w].provider)'
    BY DEF LeaseInv
  <2> QED
    BY <1>4, <1>5 DEF Leased, Fresh
<1>10. ASSUME NEW p \in Providers PROVE ProviderInv(p)'
  <2>1. ProviderInv(p)
    BY DEF CatalogInv
  <2>2. CASE Fresh(p)
    <3>1. steady'[p] \subseteq Articles /\ \A a \in Articles : ~(PageOf[a] < 0)
      BY <1>1
    <3>2. \A a \in Articles : article[p][a].seen \in {0 - 1} \cup Nat
      BY RowsTyped DEF ArticleRow, Null
    <3>3. ArticleInv(p)'
      BY <1>5, <2>1, <2>2, <3>1, <3>2 DEF ProviderInv, ArticleInv, Fresh, SeenBefore
    <3>4. CoverageInv(p)' /\ ScopeInv(p)'
      BY <2>2 DEF CoverageInv, CoverageComplete, ScopeInv, Fresh
    <3> QED
      BY <3>3, <3>4 DEF ProviderInv
  <2>3. CASE scope'[p] = scope[p] /\ steady'[p] = steady[p]
    BY <2>1, <2>3, SameScope
  <2> QED
    BY <2>2, <2>3
<1>11. IndexKept
  BY DEF IndexKept, Fresh
<1> QED
  BY <1>2, <1>3, <1>7, <1>8, <1>9, <1>10, <1>11 DEF CatalogInv

LEMMA FreshJob ==
    ASSUME NEW row \in ScopeRow
    PROVE  /\ WithFreshJob(row) \in ScopeRow
           /\ WithFreshJob(row).status = "pending" /\ WithFreshJob(row).job = "pending"
           /\ WithFreshJob(row).cursor = 0 /\ WithFreshJob(row).completed = row.completed
           /\ WithFreshJob(row).generation = row.generation
<1>1. WithFreshJob(row) = [row EXCEPT !.status = "pending", !.job = "pending", !.attempts = 0,
                                      !.cursor = 0, !.visited = {}]
  BY DEF WithFreshJob
<1>2. /\ WithFreshJob(row).status = "pending" /\ WithFreshJob(row).job = "pending"
      /\ WithFreshJob(row).cursor = 0 /\ WithFreshJob(row).completed = row.completed
      /\ WithFreshJob(row).generation = row.generation
  BY <1>1 DEF ScopeRow
<1>3. WithFreshJob(row) \in ScopeRow
  <2>1. "pending" \in JobStatus /\ {} \in SUBSET (0 .. LastPage)
        /\ 0 \in 0 .. LastPage /\ 0 \in 0 .. MaxAttempts
    BY DEF JobStatus
  <2> QED
    BY <1>1, <2>1 DEF ScopeRow
<1> QED
  BY <1>2, <1>3

LEMMA EnsureStep == CatalogInv /\ Ensure => CatalogInv' /\ IndexKept
<1> SUFFICES ASSUME CatalogInv, Ensure PROVE CatalogInv' /\ IndexKept
  OBVIOUS
<1>1. /\ scope' = Ensured /\ UNCHANGED <<article, listing, indexer>>
      /\ steady' = [p \in Providers |-> IF scope[p].job = "absent" THEN Listed(p) ELSE steady[p]]
  BY DEF Ensure
<1>2. scope' = [p \in Providers |-> scope'[p]]
  BY <1>1 DEF Ensured
<1>3. ASSUME NEW p \in Providers
      PROVE  Fresh(p) \/ (scope'[p] = scope[p] /\ steady'[p] = steady[p])
  <2>1. scope[p] \in ScopeRow
    BY RowsTyped
  <2>2. CASE scope[p].job = "absent"
    <3>1. scope'[p] = WithFreshJob(scope[p]) /\ steady'[p] = Listed(p)
      BY <1>1, <2>2 DEF Ensured
    <3> QED
      BY <2>1, <2>2, <3>1, FreshJob DEF Fresh
  <2>3. CASE scope[p].job # "absent"
    BY <1>1, <2>3 DEF Ensured
  <2> QED
    BY <2>2, <2>3
<1> QED
  BY <1>1, <1>2, <1>3, FreshStep

LEMMA RefreshStep == CatalogInv /\ Refresh => CatalogInv' /\ IndexKept
<1> SUFFICES ASSUME CatalogInv, Refresh PROVE CatalogInv' /\ IndexKept
  OBVIOUS
<1> DEFINE renewed == {p \in Providers : ~JobActive(scope[p]) /\ scope[p].generation < MaxGeneration}
           next(p) == [scope[p] EXCEPT !.generation = @ + 1]
<1>1. /\ scope' = [p \in Providers |-> IF p \in renewed THEN WithFreshJob(next(p)) ELSE scope[p]]
      /\ steady' = [p \in Providers |-> IF p \in renewed THEN Listed(p) ELSE steady[p]]
      /\ UNCHANGED <<article, listing, indexer>>
  BY DEF Refresh
<1>2. ASSUME NEW p \in Providers
      PROVE  Fresh(p) \/ (scope'[p] = scope[p] /\ steady'[p] = steady[p])
  <2>1. scope[p] \in ScopeRow
    BY RowsTyped
  <2>2. CASE p \in renewed
    <3>1. scope[p].generation + 1 \in 0 .. MaxGeneration
      BY <2>1, <2>2 DEF ScopeRow
    <3>2. next(p) \in ScopeRow /\ next(p).generation = scope[p].generation + 1
          /\ next(p).completed = scope[p].completed
      BY <2>1, <3>1 DEF ScopeRow
    <3>3. scope'[p] = WithFreshJob(next(p)) /\ steady'[p] = Listed(p)
      BY <1>1, <2>2
    <3> HIDE DEF next
    <3> QED
      BY <3>2, <3>3, FreshJob DEF Fresh
  <2>3. CASE p \notin renewed
    BY <1>1, <2>3
  <2> QED
    BY <2>2, <2>3
<1>3. scope' = [p \in Providers |-> scope'[p]] /\ steady' = [p \in Providers |-> steady'[p]]
  BY <1>1
<1> QED
  BY <1>1, <1>2, <1>3, FreshStep

LEMMA EditStep ==
    ASSUME NEW p \in Providers, NEW a \in Articles
    PROVE  CatalogInv /\ Edit(p, a) => CatalogInv' /\ IndexKept
<1> SUFFICES ASSUME CatalogInv, Edit(p, a) PROVE CatalogInv' /\ IndexKept
  OBVIOUS
<1>1. PICK v \in 0 .. 2 :
        /\ listing' = [listing EXCEPT ![p] = [version |-> [@.version EXCEPT ![a] = v],
                                              edits |-> @.edits + 1]]
        /\ steady' = IF v = 0 THEN [steady EXCEPT ![p] = @ \ {a}] ELSE steady
  BY DEF Edit
<1>2. UNCHANGED <<scope, article, indexer>> /\ listing[p].edits < MaxEdits
  BY DEF Edit
<1>3. listing \in [Providers -> Listing] /\ steady \in [Providers -> SUBSET Articles]
  BY DEF CatalogInv, CatalogTypeOK
<1> DEFINE row == [version |-> [listing[p].version EXCEPT ![a] = v], edits |-> listing[p].edits + 1]
<1>4. row \in Listing /\ row.version = [listing[p].version EXCEPT ![a] = v]
  <2>1. listing[p].version \in [Articles -> 0 .. 2] /\ listing[p].edits \in 0 .. MaxEdits
    BY <1>3 DEF Listing
  <2> QED
    BY <1>2, <2>1 DEF Listing
<1>5. listing' = [listing EXCEPT ![p] = row]
  BY <1>1
<1> HIDE DEF row
<1>6. listing' \in [Providers -> Listing] /\ listing'[p] = row
      /\ \A q \in Providers \ {p} : listing'[q] = listing[q]
  BY <1>3, <1>4, <1>5
<1>7. steady' \in [Providers -> SUBSET Articles]
      /\ \A q \in Providers : steady'[q] \subseteq steady[q] /\ (q = p /\ v = 0 => a \notin steady'[q])
  BY <1>1, <1>3
<1>8. CatalogTypeOK'
  BY <1>2, <1>6, <1>7 DEF CatalogInv, CatalogTypeOK
<1>9. ListingInv'
  <2> SUFFICES ASSUME NEW q \in Providers, NEW b \in steady'[q]
               PROVE  b \in Articles /\ listing'[q].version[b] # 0
    BY DEF ListingInv, Listed
  <2>1. b \in Articles /\ listing[q].version[b] # 0
    BY <1>7 DEF CatalogInv, ListingInv, Listed
  <2>2. CASE q # p
    BY <1>6, <2>1, <2>2
  <2>3. CASE q = p
    <3>1. listing[p].version \in [Articles -> 0 .. 2]
      BY <1>3 DEF Listing
    <3> QED
      BY <1>4, <1>6, <1>7, <2>1, <2>3, <3>1
  <2> QED
    BY <2>2, <2>3
<1>10. LeaseInv' /\ OneHolder'
  BY <1>2 DEF CatalogInv, LeaseInv, Leased, OneHolder, Holds
<1>11. HolderInv'
  BY <1>2, <1>7 DEF CatalogInv, HolderInv, Holds, Current, PageOfCursor
<1>12. \A q \in Providers : ProviderInv(q)'
  BY <1>2, <1>7 DEF CatalogInv, ProviderInv, ArticleInv, CoverageInv, CoverageComplete, ScopeInv,
     SeenBefore
<1>13. IndexKept
  BY <1>2 DEF IndexKept
<1> QED
  BY <1>8, <1>9, <1>10, <1>11, <1>12, <1>13 DEF CatalogInv

LEMMA CatalogStep == CatalogInv /\ CatalogNext => CatalogInv' /\ IndexKept
<1> SUFFICES ASSUME CatalogInv, CatalogNext PROVE CatalogInv' /\ IndexKept
  OBVIOUS
<1>1. CASE Refresh
  BY <1>1, RefreshStep
<1>2. CASE \E w \in Indexers, p \in Providers : ClaimIndex(w, p)
  BY <1>2, ClaimStep
<1>3. CASE \E w \in Indexers : Start(w) \/ NotConfigured(w) \/ Resolve(w) \/ ListPage(w)
  BY <1>3, StartStep, NotConfiguredStep, ResolveStep, ListPageStep
<1>4. CASE \E w \in Indexers : StorePage(w) \/ FailScope(w) \/ FailJob(w) \/ IndexerStops(w)
  BY <1>4, StorePageStep, FailScopeStep, FailJobStep, IndexerStopsStep
<1>5. CASE \E p \in Providers : SweepIndex(p)
  BY <1>5, SweepStep
<1>6. CASE \E p \in Providers, a \in Articles : Edit(p, a)
  BY <1>6, EditStep
<1> QED
  BY <1>1, <1>2, <1>3, <1>4, <1>5, <1>6 DEF CatalogNext, Indexing

(***************************************************************************)
(* Preparation.                                                            *)
(***************************************************************************)
PreparationRow == [state : PreparationState, owner : Passes \cup {None}]

LEMMA InitInv == Init => IInv
<1> SUFFICES ASSUME Init PROVE IInv
  OBVIOUS
<1>1. CatalogInv
  BY CatalogStarts DEF Init
<1>2. IdlePass \in PassRow /\ IdlePass.found = "pending"
  BY DEF IdlePass, PassRow, PreparationState
<1>3. pass \in [Passes -> PassRow] /\ \A q \in Passes : pass[q].found = "pending"
  BY <1>2 DEF Init
<1>4. preparation \in [Orders -> PreparationRow]
      /\ \A o \in Orders : preparation[o].state = "pending"
  BY DEF Init, PreparationState, PreparationRow
<1>5. TypeOK
  BY <1>1, <1>3, <1>4 DEF TypeOK, CatalogInv, Init, Sale!Unsold, PreparationRow
<1> QED
  BY <1>1, <1>3, <1>4, <1>5 DEF IInv, PreparationInv

\* What a step of the preparation takes back: nothing that is ready or revoked.
Steady(o) ==
    preparation[o].state = "index_ready" \/ access[o] = "closed" =>
        preparation'[o].state = preparation[o].state

\* The invariant, when preparation and passes stay as they are.
LEMMA PreparationKept ==
    ASSUME PreparationInv, IndexKept, UNCHANGED <<preparation, pass>>
    PROVE  PreparationInv' /\ \A o \in Orders : Steady(o)
BY DEF PreparationInv, IndexKept, Steady

LEMMA SameCatalog == CatalogInv /\ UNCHANGED catalog => CatalogInv' /\ IndexKept
<1> SUFFICES ASSUME CatalogInv, UNCHANGED catalog PROVE CatalogInv' /\ IndexKept
  OBVIOUS
<1>1. UNCHANGED <<scope, article, listing, indexer, steady>>
  BY DEF catalog
<1>2. CatalogTypeOK' /\ ListingInv'
  BY <1>1 DEF CatalogInv, CatalogTypeOK, ListingInv, Listed
<1>3. LeaseInv' /\ OneHolder'
  BY <1>1 DEF CatalogInv, LeaseInv, Leased, OneHolder, Holds
<1>4. HolderInv'
  BY <1>1 DEF CatalogInv, HolderInv, Holds, Current, PageOfCursor
<1>5. \A p \in Providers : ProviderInv(p)'
  BY <1>1, SameScope DEF CatalogInv
<1>6. IndexKept
  BY <1>1 DEF IndexKept
<1> QED
  BY <1>2, <1>3, <1>4, <1>5, <1>6 DEF CatalogInv

LEMMA SellStep == IInv /\ Sell => IInv' /\ \A o \in Orders : Steady(o)
<1> SUFFICES ASSUME IInv, Sell PROVE IInv' /\ \A o \in Orders : Steady(o)
  OBVIOUS
<1>1. Sale!PurchaseNext /\ UNCHANGED <<preparation, pass, catalog>>
  BY DEF Sell
<1>2. CatalogInv' /\ IndexKept
  BY <1>1, SameCatalog DEF IInv
<1>3. charges' \in [Orders -> SUBSET Orders] /\ access' \in [Orders -> {"none", "granted", "closed"}]
  BY <1>1 DEF IInv, TypeOK, Sale!PurchaseNext, Sale!TakeMoney, Sale!Give, Sale!TakeBack
<1>4. TypeOK'
  BY <1>1, <1>2, <1>3 DEF IInv, TypeOK, CatalogInv
<1> QED
  BY <1>1, <1>2, <1>4, PreparationKept DEF IInv

LEMMA LeaseStep ==
    ASSUME NEW q \in Passes PROVE IInv /\ Lease(q) => IInv' /\ \A o \in Orders : Steady(o)
<1> SUFFICES ASSUME IInv, Lease(q) PROVE IInv' /\ \A o \in Orders : Steady(o)
  OBVIOUS
<1>1. PICK batch \in SUBSET {o \in Orders : Due(o)} :
        /\ preparation' = [o \in Orders |->
                IF o \in batch THEN [preparation[o] EXCEPT !.owner = q] ELSE preparation[o]]
        /\ pass' = [pass EXCEPT ![q] = [IdlePass EXCEPT !.pc = "schedule", !.batch = batch]]
  BY DEF Lease
<1>2. UNCHANGED <<charges, access, catalog>>
  BY DEF Lease
<1>3. CatalogInv' /\ IndexKept
  BY <1>2, SameCatalog DEF IInv
<1>4. \A o \in Orders : preparation[o] \in PreparationRow
  BY DEF IInv, TypeOK, PreparationRow
<1>5. ASSUME NEW o \in Orders
      PROVE  /\ preparation'[o] \in PreparationRow /\ preparation'[o].state = preparation[o].state
             /\ preparation[o].state = "index_ready" => preparation'[o] = preparation[o]
  BY <1>1, <1>4 DEF PreparationRow, Due
<1> DEFINE row == [IdlePass EXCEPT !.pc = "schedule", !.batch = batch]
<1>6. row \in PassRow /\ row.found = "pending"
  BY DEF IdlePass, PassRow, PreparationState
<1> HIDE DEF row
<1>7. pass' \in [Passes -> PassRow] /\ pass'[q] = row
      /\ \A r \in Passes \ {q} : pass'[r] = pass[r]
  BY <1>1, <1>6 DEF IInv, TypeOK, row
<1>8. preparation' \in [Orders -> PreparationRow]
  BY <1>1, <1>5
<1>9. TypeOK'
  BY <1>2, <1>3, <1>7, <1>8 DEF IInv, TypeOK, CatalogInv, PreparationRow
<1>10. PreparationInv'
  BY <1>3, <1>5, <1>6, <1>7 DEF IInv, PreparationInv, IndexKept
<1> QED
  BY <1>3, <1>5, <1>9, <1>10 DEF IInv, Steady

\* A pass moves on and leaves the orders alone.
LEMMA PassStep ==
    ASSUME IInv, CatalogInv', IndexKept, UNCHANGED <<charges, access, preparation>>,
           NEW q \in Passes, NEW row \in PassRow, pass' = [pass EXCEPT ![q] = row],
           row.found = "index_ready" => \A p \in Providers : scope'[p].completed # Null
    PROVE  IInv' /\ \A o \in Orders : Steady(o)
<1>1. pass' \in [Passes -> PassRow] /\ pass'[q] = row
      /\ \A r \in Passes \ {q} : pass'[r] = pass[r]
  BY DEF IInv, TypeOK
<1>2. TypeOK'
  BY <1>1 DEF IInv, TypeOK, CatalogInv
<1>3. PreparationInv'
  BY <1>1 DEF IInv, PreparationInv, IndexKept
<1> QED
  BY <1>2, <1>3 DEF IInv, Steady

LEMMA ReadyWhenIndexed ==
    ASSUME CatalogInv, Ensure, CatalogInv', Acknowledged(Ensured) = "index_ready"
    PROVE  \A p \in Providers : scope'[p].completed # Null
<1>1. \A p \in Providers : Ensured[p].job = "completed"
  BY DEF Acknowledged
<1>2. scope' = Ensured
  BY DEF Ensure
<1> QED
  BY <1>1, <1>2 DEF CatalogInv, ProviderInv, ScopeInv

LEMMA ScheduleStep ==
    ASSUME NEW q \in Passes PROVE IInv /\ Schedule(q) => IInv' /\ \A o \in Orders : Steady(o)
<1> SUFFICES ASSUME IInv, Schedule(q) PROVE IInv' /\ \A o \in Orders : Steady(o)
  OBVIOUS
<1>1. UNCHANGED <<charges, access, preparation>>
  BY DEF Schedule
<1>2. PICK o \in pass[q].batch, state \in PreparationState :
        /\ pass' = [pass EXCEPT ![q] = [pc |-> "acknowledge", batch |-> pass[q].batch \ {o},
                                        order |-> o, found |-> state]]
        /\ Ensure \/ UNCHANGED catalog
        /\ state = "index_ready" => Ensure /\ Acknowledged(Ensured) = "index_ready"
  <2>1. Acknowledged(Ensured) \in PreparationState /\ "retry" \in PreparationState
    BY DEF Acknowledged, PreparationState
  <2> QED
    BY <2>1 DEF Schedule
<1>3. CatalogInv' /\ IndexKept
  BY <1>2, SameCatalog, EnsureStep DEF IInv
<1> DEFINE row == [pc |-> "acknowledge", batch |-> pass[q].batch \ {o},
                   order |-> o, found |-> state]
<1>4. pass[q].batch \ {o} \in SUBSET Orders /\ o \in Orders
  BY DEF IInv, TypeOK, PassRow
<1>5. row \in PassRow /\ row.found = state
  BY <1>4 DEF PassRow
<1>6. pass' = [pass EXCEPT ![q] = row]
  BY <1>2
<1> HIDE DEF row
<1>7. state = "index_ready" => \A p \in Providers : scope'[p].completed # Null
  BY <1>2, <1>3, ReadyWhenIndexed DEF IInv
<1> QED
  BY <1>1, <1>3, <1>5, <1>6, <1>7, PassStep

LEMMA PassStopsStep ==
    ASSUME NEW q \in Passes PROVE IInv /\ PassStops(q) => IInv' /\ \A o \in Orders : Steady(o)
<1> SUFFICES ASSUME IInv, PassStops(q) PROVE IInv' /\ \A o \in Orders : Steady(o)
  OBVIOUS
<1>1. pass' = [pass EXCEPT ![q] = IdlePass] /\ UNCHANGED <<charges, access, preparation, catalog>>
  BY DEF PassStops
<1>2. IdlePass \in PassRow /\ IdlePass.found = "pending"
  BY DEF IdlePass, PassRow, PreparationState
<1> QED
  BY <1>1, <1>2, SameCatalog, PassStep DEF IInv

LEMMA AcknowledgeStep ==
    ASSUME NEW q \in Passes PROVE IInv /\ Acknowledge(q) => IInv' /\ \A o \in Orders : Steady(o)
<1> SUFFICES ASSUME IInv, Acknowledge(q), NEW o, o = pass[q].order
             PROVE  IInv' /\ \A r \in Orders : Steady(r)
  OBVIOUS
<1> DEFINE row == [state |-> pass[q].found, owner |-> None]
           next == IF pass[q].batch = {} THEN IdlePass
                   ELSE [pass[q] EXCEPT !.pc = "schedule", !.order = None, !.found = "pending"]
<1>1. /\ UNCHANGED <<charges, access, catalog>>
      /\ pass' = [pass EXCEPT ![q] = next]
      /\ preparation' = IF Owns(q, o) /\ Paid(o) THEN [preparation EXCEPT ![o] = row] ELSE preparation
  BY DEF Acknowledge
<1>2. CatalogInv' /\ IndexKept
  BY <1>1, SameCatalog DEF IInv
<1>3. pass[q] \in PassRow /\ preparation \in [Orders -> PreparationRow]
      /\ pass \in [Passes -> PassRow]
  BY DEF IInv, TypeOK, PreparationRow
<1>4. next \in PassRow /\ next.found = "pending"
  BY <1>3 DEF IdlePass, PassRow, PreparationState
<1>5. row \in PreparationRow /\ row.state = pass[q].found /\ row.owner = None
  BY <1>3 DEF PassRow, PreparationRow
<1> HIDE DEF row, next
<1>6. pass' \in [Passes -> PassRow] /\ pass'[q] = next
      /\ \A r \in Passes \ {q} : pass'[r] = pass[r]
  BY <1>1, <1>3, <1>4
<1>7. preparation' \in [Orders -> PreparationRow]
  BY <1>1, <1>3, <1>5
<1>8. TypeOK'
  BY <1>1, <1>2, <1>6, <1>7 DEF IInv, TypeOK, CatalogInv, PreparationRow
<1>9. \A r \in Orders : preparation'[r] = preparation[r]
                        \/ (preparation'[r] = row /\ preparation[r].owner = q /\ access[r] = "granted")
  BY <1>1, <1>3 DEF Owns, Paid
<1>10. PreparationInv'
  BY <1>2, <1>4, <1>5, <1>6, <1>9 DEF IInv, PreparationInv, IndexKept
<1>11. \A r \in Orders : Steady(r)
  BY <1>9 DEF Steady, IInv, PreparationInv
<1> QED
  BY <1>2, <1>8, <1>10, <1>11 DEF IInv

LEMMA NextStep == IInv /\ [Next]_vars => IInv' /\ \A o \in Orders : Steady(o)
<1> SUFFICES ASSUME IInv, [Next]_vars PROVE IInv' /\ \A o \in Orders : Steady(o)
  OBVIOUS
<1>1. ASSUME CatalogInv', IndexKept, UNCHANGED <<charges, access, preparation, pass>>
      PROVE  IInv' /\ \A o \in Orders : Steady(o)
  <2>1. TypeOK'
    BY <1>1 DEF IInv, TypeOK, CatalogInv
  <2> QED
    BY <1>1, <2>1, PreparationKept DEF IInv
<1>2. CASE Sell
  BY <1>2, SellStep
<1>3. CASE CatalogWork
  BY <1>1, <1>3, CatalogStep DEF CatalogWork, IInv
<1>4. CASE \E q \in Passes : Reconciling(q) \/ PassStops(q)
  BY <1>4, LeaseStep, ScheduleStep, AcknowledgeStep, PassStopsStep DEF Reconciling
<1>5. CASE UNCHANGED vars
  BY <1>1, <1>5, SameCatalog DEF vars, IInv
<1> QED
  BY <1>2, <1>3, <1>4, <1>5 DEF Next

LEMMA Invariant == Spec => []IInv
<1>1. IInv /\ [Next]_vars => IInv'
  BY NextStep
<1> QED
  BY InitInv, <1>1, PTL DEF Spec

\* The rows of index and preparation stay typed, for any number of workers and passes.
THEOREM TypeCorrect == Spec => []TypeOK
<1>1. IInv => TypeOK
  BY DEF IInv
<1> QED
  BY Invariant, <1>1, PTL

\* Whatever number of workers take over from each other and whenever they die, an index
\* that reads complete holds what the provider kept in its listing and nothing older
\* (catalog_coverage: lease checks, checkpoint and completion of one transaction).
THEOREM IndexCorrect == Spec => []IndexMatchesListing
<1>1. IInv => IndexMatchesListing
  BY DEF IInv, CatalogInv, ProviderInv, CoverageInv, IndexMatchesListing
<1> QED
  BY Invariant, <1>1, PTL

\* A library reported ready was indexed completely (the scheduler's answer, stored by
\* acknowledge_preparation).
THEOREM ReadyMeansIndexed == Spec => []ReadyIsIndexed
<1>1. IInv => ReadyIsIndexed
  BY DEF IInv, PreparationInv, ReadyIsIndexed
<1> QED
  BY Invariant, <1>1, PTL

\* A late pass takes nothing back that was acknowledged as ready, and a revoked order
\* stays as it was (the owner an acknowledgement must still have).
THEOREM ReadyStays == Spec => ReadyNotTakenBack
<1>1. IInv /\ [Next]_vars => \A o \in Orders : Steady(o)
  BY NextStep
<1> QED
  BY Invariant, <1>1, PTL DEF Spec, ReadyNotTakenBack, Steady

(***************************************************************************)
(* The index implements MirroredCatalog.  What is added to the invariant:  *)
(* a vehicle that was never resolved has no articles, and who lists or     *)
(* stores pages resolved it.                                               *)
(***************************************************************************)
UnknownInv ==
    /\ \A p \in Providers :
        /\ ~scope[p].resolved =>
            \A a \in Articles : ~article[p][a].active /\ article[p][a].seen = Null
        /\ scope[p].job = "absent" => ~scope[p].resolved
    /\ \A w \in Indexers :
        indexer[w].pc \in {"list", "store"} => scope[indexer[w].provider].resolved

ShownNow == [p \in Providers |-> {a \in Articles : article[p][a].active}]
SeenNow == [p \in Providers |-> {a \in Articles : SeenBefore(p, a)}]
CoveredNow == {p \in Providers : CoverageComplete(p)}

Mirrors == [Mirror!MirrorNext]_<<ShownNow, SeenNow, steady, CoveredNow>>

MirrorInv == CatalogInv /\ UnknownInv

LEMMA UnknownStarts == CatalogInit => UnknownInv
<1> SUFFICES ASSUME CatalogInit PROVE UnknownInv
  OBVIOUS
<1>1. \A w \in Indexers : indexer[w].pc = "idle"
  BY IdleTyped DEF CatalogInit
<1>2. \A p \in Providers : ~scope[p].resolved
        /\ \A a \in Articles : ~article[p][a].active /\ article[p][a].seen = Null
  BY DEF CatalogInit, NoScope
<1> QED
  BY <1>1, <1>2 DEF UnknownInv

\* Readers see nothing of it.
LEMMA Unseen ==
    ASSUME UNCHANGED <<article, steady>>,
           \A p \in Providers :
            /\ scope'[p].generation = scope[p].generation
            /\ CoverageComplete(p)' <=> CoverageComplete(p)
    PROVE  Mirrors
<1>1. ShownNow' = ShownNow
  BY DEF ShownNow
<1>2. SeenNow' = SeenNow
  BY DEF SeenNow, SeenBefore
<1>3. CoveredNow' = CoveredNow
  BY DEF CoveredNow
<1> QED
  BY <1>1, <1>2, <1>3 DEF Mirrors

\* A step of one worker that neither stores a page nor completes a generation.
LEMMA UnknownKept ==
    ASSUME CatalogInv, UnknownInv, UNCHANGED article,
           \A p \in Providers :
            /\ scope[p].resolved => scope'[p].resolved
            /\ scope'[p].job = "absent" => scope[p].job = "absent" /\ scope'[p] = scope[p],
           \A w \in Indexers :
            \/ indexer'[w] = indexer[w]
            \/ indexer'[w].pc \in {"list", "store"} => scope'[indexer'[w].provider].resolved
    PROVE  UnknownInv'
<1>1. \A w \in Indexers : indexer[w].provider \in Providers
  BY RowsTyped
<1>2. ASSUME NEW w \in Indexers, indexer'[w].pc \in {"list", "store"}
      PROVE  scope'[indexer'[w].provider].resolved
  BY <1>1, <1>2 DEF UnknownInv
<1>3. ASSUME NEW p \in Providers, ~scope'[p].resolved
      PROVE  \A a \in Articles : ~article'[p][a].active /\ article'[p][a].seen = Null
  BY <1>3 DEF UnknownInv
<1>4. ASSUME NEW p \in Providers, scope'[p].job = "absent" PROVE ~scope'[p].resolved
  BY <1>4 DEF UnknownInv
<1> QED
  BY <1>2, <1>3, <1>4 DEF UnknownInv

\* A worker tells the scope or its job something.
LEMMA ToldStep ==
    ASSUME MirrorInv, NEW w \in Indexers, NEW p \in Providers, NEW row \in ScopeRow,
           scope' = [scope EXCEPT ![p] = row], UNCHANGED <<article, steady>>,
           row.generation = scope[p].generation, row.job # "absent",
           scope[p].resolved => row.resolved,
           scope[p].status # "complete" /\ row.status # "complete",
           \A v \in Indexers \ {w} : indexer'[v] = indexer[v],
           indexer'[w].pc \in {"list", "store"} => scope'[indexer'[w].provider].resolved
    PROVE  UnknownInv' /\ Mirrors
<1>1. scope'[p] = row /\ \A q \in Providers \ {p} : scope'[q] = scope[q]
  BY RowsTyped DEF MirrorInv
<1>2. UnknownInv'
  <2>1. \A q \in Providers :
            /\ scope[q].resolved => scope'[q].resolved
            /\ scope'[q].job = "absent" => scope[q].job = "absent" /\ scope'[q] = scope[q]
    BY <1>1
  <2>2. \A v \in Indexers :
            \/ indexer'[v] = indexer[v]
            \/ indexer'[v].pc \in {"list", "store"} => scope'[indexer'[v].provider].resolved
    OBVIOUS
  <2> QED
    BY <2>1, <2>2, UnknownKept DEF MirrorInv
<1>3. Mirrors
  <2>1. \A q \in Providers : scope'[q].generation = scope[q].generation
                             /\ (CoverageComplete(q)' <=> CoverageComplete(q))
    BY <1>1 DEF CoverageComplete
  <2> QED
    BY <2>1, Unseen
<1> QED
  BY <1>2, <1>3

LEMMA TellingMirrors ==
    ASSUME MirrorInv, NEW w \in Indexers,
           Start(w) \/ NotConfigured(w) \/ FailScope(w) \/ FailJob(w)
    PROVE  UnknownInv' /\ Mirrors
<1> DEFINE p == indexer[w].provider
<1>0. ScopeHeld(w) /\ UNCHANGED <<article, steady>>
  BY DEF Start, NotConfigured, FailScope, FailJob
<1>1. /\ p \in Providers /\ scope[p] \in ScopeRow /\ scope[p].job = "processing"
      /\ scope[p].status # "complete" /\ indexer \in [Indexers -> IndexerRow]
      /\ scope \in [Providers -> ScopeRow]
  BY <1>0, HeldFacts, RowsTyped DEF MirrorInv, ProviderInv, ScopeInv
<1>2. PICK row \in ScopeRow :
        /\ scope' = [scope EXCEPT ![p] = row]
        /\ row.generation = scope[p].generation /\ row.job # "absent"
        /\ row.resolved = scope[p].resolved /\ row.status # "complete"
  <2>1. CASE Start(w)
    <3> DEFINE row == [scope[p] EXCEPT !.status = "running"]
    <3>1. row \in ScopeRow /\ row.generation = scope[p].generation /\ row.job # "absent"
          /\ row.resolved = scope[p].resolved /\ row.status # "complete"
      BY <1>1 DEF ScopeRow
    <3>2. scope' = [scope EXCEPT ![p] = row]
      BY <1>1, <2>1 DEF Start
    <3> QED
      BY <3>1, <3>2
  <2>2. CASE NotConfigured(w)
    <3> DEFINE row == [scope[p] EXCEPT !.status = "not_configured"]
    <3>1. row \in ScopeRow /\ row.generation = scope[p].generation /\ row.job # "absent"
          /\ row.resolved = scope[p].resolved /\ row.status # "complete"
      BY <1>1 DEF ScopeRow
    <3>2. scope' = [scope EXCEPT ![p] = row]
      BY <1>1, <2>2 DEF NotConfigured
    <3> QED
      BY <3>1, <3>2
  <2>3. CASE FailScope(w)
    <3>1. PICK status \in {"needs_review", "partial", "failed"} :
            scope' = [scope EXCEPT ![p].status = status]
      BY <2>3 DEF FailScope
    <3> DEFINE row == [scope[p] EXCEPT !.status = status]
    <3>2. row \in ScopeRow /\ row.generation = scope[p].generation /\ row.job # "absent"
          /\ row.resolved = scope[p].resolved /\ row.status # "complete"
      BY <1>1 DEF ScopeRow
    <3>3. scope' = [scope EXCEPT ![p] = row]
      BY <1>1, <3>1
    <3> QED
      BY <3>2, <3>3
  <2>4. CASE FailJob(w)
    <3>1. PICK job \in {"failed", "dead_letter", "needs_review"} :
            scope' = [scope EXCEPT ![p].job = job]
      BY <2>4 DEF FailJob
    <3> DEFINE row == [scope[p] EXCEPT !.job = job]
    <3>2. row \in ScopeRow /\ row.generation = scope[p].generation /\ row.job # "absent"
          /\ row.resolved = scope[p].resolved /\ row.status # "complete"
      BY <1>1 DEF ScopeRow, JobStatus
    <3>3. scope' = [scope EXCEPT ![p] = row]
      BY <1>1, <3>1
    <3> QED
      BY <3>2, <3>3
  <2> QED
    BY <2>1, <2>2, <2>3, <2>4
<1>3. \A v \in Indexers \ {w} : indexer'[v] = indexer[v]
  BY <1>1 DEF Start, NotConfigured, FailScope, FailJob, Continue, Stop
<1>4. indexer'[w].pc \in {"list", "store"} => scope'[indexer'[w].provider].resolved
  <2>1. CASE Start(w)
    <3>1. indexer'[w].provider = p /\ (indexer'[w].pc = "list" => scope[p].resolved)
          /\ indexer'[w].pc # "store"
      BY <1>1, <2>1 DEF Start, Continue, IndexerRow
    <3> QED
      BY <1>1, <1>2, <3>1
  <2>2. CASE NotConfigured(w) \/ FailScope(w) \/ FailJob(w)
    BY <1>1, <2>2, IdleTyped DEF NotConfigured, FailScope, FailJob, Continue, Stop, IndexerRow
  <2> QED
    BY <2>1, <2>2
<1> HIDE DEF p
<1> QED
  BY <1>0, <1>1, <1>2, <1>3, <1>4, ToldStep

LEMMA ClaimMirrors ==
    ASSUME MirrorInv, NEW w \in Indexers, NEW p \in Providers, ClaimIndex(w, p)
    PROVE  UnknownInv' /\ Mirrors
<1> DEFINE row == [scope[p] EXCEPT !.job = "processing", !.attempts = scope[p].attempts + 1]
<1>1. /\ scope[p] \in ScopeRow /\ JobActive(scope[p]) /\ scope[p].attempts < MaxAttempts
      /\ scope' = [scope EXCEPT ![p] = row] /\ UNCHANGED <<article, steady>>
      /\ indexer \in [Indexers -> IndexerRow]
  BY RowsTyped DEF ClaimIndex, MirrorInv
<1>2. scope[p].attempts + 1 \in 0 .. MaxAttempts
  BY <1>1 DEF ScopeRow
<1>3. row \in ScopeRow /\ row.generation = scope[p].generation /\ row.job # "absent"
      /\ row.resolved = scope[p].resolved /\ row.status = scope[p].status
  BY <1>1, <1>2 DEF ScopeRow, JobStatus
<1>4. scope[p].status # "complete"
  BY <1>1 DEF MirrorInv, CatalogInv, ProviderInv, ScopeInv, JobActive
<1>5. (\A v \in Indexers \ {w} : indexer'[v] = indexer[v]) /\ indexer'[w].pc = "start"
  BY <1>1, IdleTyped DEF ClaimIndex, IndexerRow
<1> HIDE DEF row
<1> QED
  BY <1>1, <1>3, <1>4, <1>5, ToldStep

LEMMA SweepMirrors ==
    ASSUME MirrorInv, NEW p \in Providers, SweepIndex(p)
    PROVE  UnknownInv' /\ Mirrors
<1> DEFINE row == [scope[p] EXCEPT !.job = "dead_letter"]
<1>1. /\ scope[p] \in ScopeRow /\ scope' = [scope EXCEPT ![p] = row]
      /\ UNCHANGED <<article, indexer, steady>> /\ scope \in [Providers -> ScopeRow]
  BY RowsTyped DEF SweepIndex, MirrorInv
<1>2. row.generation = scope[p].generation /\ row.job # "absent"
      /\ row.resolved = scope[p].resolved /\ row.status = scope[p].status
      /\ row.completed = scope[p].completed
  BY <1>1 DEF ScopeRow
<1> HIDE DEF row
<1>3. scope'[p] = row /\ \A q \in Providers \ {p} : scope'[q] = scope[q]
  BY <1>1
<1>4. UnknownInv'
  <2>1. \A q \in Providers :
            /\ scope[q].resolved => scope'[q].resolved
            /\ scope'[q].job = "absent" => scope[q].job = "absent" /\ scope'[q] = scope[q]
    BY <1>2, <1>3
  <2> QED
    BY <1>1, <2>1, UnknownKept DEF MirrorInv
<1>5. \A q \in Providers : scope'[q].generation = scope[q].generation
                           /\ (CoverageComplete(q)' <=> CoverageComplete(q))
  BY <1>2, <1>3 DEF CoverageComplete
<1> QED
  BY <1>1, <1>4, <1>5, Unseen

\* A worker asks the provider, is told of an error or dies.
LEMMA AskingMirrors ==
    ASSUME MirrorInv, NEW w \in Indexers, UNCHANGED <<scope, article, steady>>,
           \A v \in Indexers \ {w} : indexer'[v] = indexer[v],
           indexer'[w].pc \in {"list", "store"} => scope[indexer'[w].provider].resolved
    PROVE  UnknownInv' /\ Mirrors
<1>1. UnknownInv'
  BY UnknownKept DEF MirrorInv
<1>2. \A p \in Providers : scope'[p].generation = scope[p].generation
                           /\ (CoverageComplete(p)' <=> CoverageComplete(p))
  BY DEF CoverageComplete
<1> QED
  BY <1>1, <1>2, Unseen

LEMMA ErrorMirrors ==
    ASSUME MirrorInv, NEW w \in Indexers, NEW review \in BOOLEAN, NEW retryable \in BOOLEAN,
           Error(w, review, retryable), UNCHANGED <<scope, article, steady>>
    PROVE  UnknownInv' /\ Mirrors
<1>1. indexer \in [Indexers -> IndexerRow]
  BY RowsTyped DEF MirrorInv
<1>2. (\A v \in Indexers \ {w} : indexer'[v] = indexer[v]) /\ indexer'[w].pc = "fail"
  BY <1>1 DEF Error, IndexerRow
<1> QED
  BY <1>2, AskingMirrors

LEMMA ListPageMirrors ==
    ASSUME MirrorInv, NEW w \in Indexers, ListPage(w)
    PROVE  UnknownInv' /\ Mirrors
<1> DEFINE p == indexer[w].provider
<1>1. indexer \in [Indexers -> IndexerRow] /\ indexer[w].pc = "list"
      /\ UNCHANGED <<scope, article, steady>>
  BY RowsTyped DEF MirrorInv, ListPage, At
<1>2. CASE \E retryable \in BOOLEAN : Error(w, FALSE, retryable)
  BY <1>1, <1>2, ErrorMirrors
<1>3. CASE indexer' = [indexer EXCEPT ![w].pc = "store", ![w].page = PageAt(p, scope[p].cursor)]
  <2>1. (\A v \in Indexers \ {w} : indexer'[v] = indexer[v]) /\ indexer'[w].provider = p
    BY <1>1, <1>3 DEF IndexerRow
  <2>2. scope[p].resolved
    BY <1>1 DEF MirrorInv, UnknownInv
  <2> QED
    BY <1>1, <2>1, <2>2, AskingMirrors
<1> QED
  BY <1>2, <1>3 DEF ListPage

LEMMA IndexerStopsMirrors ==
    ASSUME MirrorInv, NEW w \in Indexers, IndexerStops(w)
    PROVE  UnknownInv' /\ Mirrors
<1>1. indexer \in [Indexers -> IndexerRow] /\ UNCHANGED <<scope, article, steady>>
  BY RowsTyped DEF MirrorInv, IndexerStops
<1>2. (\A v \in Indexers \ {w} : indexer'[v] = indexer[v]) /\ indexer'[w].pc = "idle"
  BY <1>1, IdleTyped DEF IndexerStops, Stop
<1> QED
  BY <1>1, <1>2, AskingMirrors

(***************************************************************************)
(* What readers do see.                                                    *)
(***************************************************************************)
LEMMA ResolveMirrors ==
    ASSUME MirrorInv, NEW w \in Indexers, Resolve(w)
    PROVE  UnknownInv' /\ Mirrors
<1> DEFINE p == indexer[w].provider
<1>1. /\ indexer \in [Indexers -> IndexerRow] /\ indexer[w].pc = "resolve" /\ p \in Providers
      /\ scope \in [Providers -> ScopeRow] /\ article \in [Providers -> [Articles -> ArticleRow]]
      /\ UNCHANGED steady
  BY RowsTyped DEF MirrorInv, Resolve, At
<1>2. CASE (\E review, retryable \in BOOLEAN : Error(w, review, retryable))
           /\ UNCHANGED <<scope, article>>
  BY <1>1, <1>2, ErrorMirrors
<1>3. CASE /\ ScopeHeld(w) /\ scope' = [scope EXCEPT ![p].resolved = TRUE]
           /\ Continue(w, "list") /\ UNCHANGED article
  <2> DEFINE row == [scope[p] EXCEPT !.resolved = TRUE]
  <2>1. scope[p] \in ScopeRow /\ scope[p].job = "processing" /\ scope[p].status # "complete"
    BY <1>3, HeldFacts DEF MirrorInv, ProviderInv, ScopeInv
  <2>2. row \in ScopeRow /\ row.generation = scope[p].generation /\ row.job # "absent"
        /\ row.resolved /\ row.status # "complete"
    BY <2>1 DEF ScopeRow
  <2>3. scope' = [scope EXCEPT ![p] = row] /\ scope'[p] = row
    BY <1>1, <1>3
  <2>4. (\A v \in Indexers \ {w} : indexer'[v] = indexer[v]) /\ indexer'[w].provider = p
    BY <1>1, <1>3 DEF Continue, IndexerRow
  <2>5. scope'[indexer'[w].provider].resolved /\ UNCHANGED <<article, steady>>
    BY <1>1, <1>3, <2>2, <2>3, <2>4
  <2> HIDE DEF row, p
  <2> QED
    BY <1>1, <2>1, <2>2, <2>3, <2>4, <2>5, ToldStep
<1>4. CASE /\ ScopeHeld(w) /\ scope' = [scope EXCEPT ![p] = Completed(@)]
           /\ article' = [article EXCEPT ![p] = Retired(p, @, scope[p].generation)] /\ Stop(w)
  <2> DEFINE row == Completed(scope[p])
             rows == Retired(p, article[p], scope[p].generation)
  <2>1. /\ scope[p] \in ScopeRow /\ article[p] \in [Articles -> ArticleRow]
        /\ scope[p].status # "complete" /\ Holds(w, p) /\ scope[p].generation \in Nat
    BY <1>4, HeldFacts DEF MirrorInv, ProviderInv, ScopeInv, ScopeRow
  <2>2. ~scope[p].resolved
        /\ \A a \in Articles : ~article[p][a].active /\ article[p][a].seen = Null
    BY <1>1, <2>1 DEF MirrorInv, UnknownInv, CatalogInv, HolderInv, Current
  <2>3. /\ row.job = "completed" /\ row.completed = scope[p].generation
        /\ row.generation = scope[p].generation /\ row.resolved = scope[p].resolved
    BY <2>1, CompletedTyped
  <2>4. row.status = "complete"
    BY <2>1 DEF Completed, ScopeRow
  <2>5. \A a \in Articles : ~rows[a].active /\ rows[a].seen = Null
    BY <2>1, <2>2 DEF Retired, ArticleRow
  <2>6. /\ scope'[p] = row /\ \A q \in Providers \ {p} : scope'[q] = scope[q]
        /\ article'[p] = rows /\ \A q \in Providers \ {p} : article'[q] = article[q]
    BY <1>1, <1>4
  <2>7. (\A v \in Indexers \ {w} : indexer'[v] = indexer[v]) /\ indexer'[w].pc = "idle"
    BY <1>1, <1>4, IdleTyped DEF Stop
  <2> HIDE DEF row, rows, p
  <2>8. UnknownInv'
    <3>1. ASSUME NEW q \in Providers
          PROVE  /\ ~scope'[q].resolved =>
                        \A a \in Articles : ~article'[q][a].active /\ article'[q][a].seen = Null
                 /\ scope'[q].job = "absent" => ~scope'[q].resolved
      BY <2>3, <2>5, <2>6 DEF MirrorInv, UnknownInv
    <3>2. ASSUME NEW v \in Indexers, indexer'[v].pc \in {"list", "store"}
          PROVE  scope'[indexer'[v].provider].resolved
      <4>1. v # w /\ indexer'[v] = indexer[v] /\ indexer[v].provider \in Providers
        BY <1>1, <2>7, <3>2 DEF IndexerRow
      <4>2. scope[indexer[v].provider].resolved
        BY <3>2, <4>1 DEF MirrorInv, UnknownInv
      <4> QED
        BY <2>3, <2>6, <4>1, <4>2
    <3> QED
      BY <3>1, <3>2 DEF UnknownInv
  <2>9. ShownNow' = ShownNow /\ ShownNow[p] = {}
    BY <1>1, <2>2, <2>5, <2>6 DEF ShownNow
  <2>10. SeenNow' = SeenNow /\ SeenNow[p] = {}
    <3>1. \A q \in Providers : {a \in Articles : SeenBefore(q, a)'} = {a \in Articles : SeenBefore(q, a)}
      <4> SUFFICES ASSUME NEW q \in Providers, NEW a \in Articles
                   PROVE  SeenBefore(q, a)' <=> SeenBefore(q, a)
        OBVIOUS
      <4> QED
        BY <2>2, <2>3, <2>5, <2>6 DEF SeenBefore
    <3>2. \A a \in Articles : ~SeenBefore(p, a)
      BY <2>1, <2>2 DEF SeenBefore, Null
    <3> QED
      BY <1>1, <3>1, <3>2 DEF SeenNow
  <2>11. CoveredNow' = CoveredNow \cup {p} /\ p \notin CoveredNow
    BY <1>1, <2>1, <2>3, <2>4, <2>6 DEF CoveredNow, CoverageComplete
  <2>12. Mirror!CloseUnknown(p)
    BY <1>1, <2>9, <2>10, <2>11 DEF Mirror!CloseUnknown, ShownNow, SeenNow, CoveredNow
  <2> QED
    BY <1>1, <2>8, <2>12 DEF Mirrors, Mirror!MirrorNext
<1> QED
  BY <1>2, <1>3, <1>4 DEF Resolve

LEMMA StoredExactly ==
    ASSUME CatalogInv, NEW p \in Providers, NEW page \in Page, NEW a \in Articles
    PROVE  /\ Stored(p, page)[a].seen = scope[p].generation <=> SeenBefore(p, a) \/ a \in OnPage(page)
           /\ Stored(p, page)[a].active <=> article[p][a].active \/ a \in OnPage(page)
<1> DEFINE new == [seen |-> scope[p].generation, version |-> page.of[a], active |-> TRUE]
<1>1. Stored(p, page)[a] =
        IF a \in OnPage(page) /\ ~SeenBefore(p, a) THEN new ELSE article[p][a]
  BY DEF Stored
<1>2. new.seen = scope[p].generation /\ new.active = TRUE
  OBVIOUS
<1>3. SeenBefore(p, a) => article[p][a].active
  BY DEF CatalogInv, ProviderInv, ArticleInv
<1> HIDE DEF new
<1>4. CASE a \in OnPage(page) /\ ~SeenBefore(p, a)
  BY <1>1, <1>2, <1>4
<1>5. CASE ~(a \in OnPage(page) /\ ~SeenBefore(p, a))
  BY <1>1, <1>3, <1>5 DEF SeenBefore
<1> QED
  BY <1>4, <1>5

\* What a page S of a resolved vehicle does to the scope and its articles.
PageTaken(p, S, row, rows) ==
    /\ row.status # "complete"
    /\ \A a \in Articles : rows[a].active <=> article[p][a].active \/ a \in S

PageCloses(p, S, row, rows) ==
    /\ row.status = "complete" /\ row.completed = row.generation
    /\ \A a \in Articles : rows[a].active <=> SeenBefore(p, a) \/ a \in S
    /\ \A a \in steady[p] : SeenBefore(p, a) \/ a \in S

Storing(w, p, S, row, rows) ==
    /\ scope' = [scope EXCEPT ![p] = row] /\ article' = [article EXCEPT ![p] = rows]
    /\ UNCHANGED steady
    /\ scope[p].resolved /\ row.resolved /\ row.generation = scope[p].generation
    /\ row.job # "absent" /\ scope[p].status # "complete"
    /\ \A a \in Articles : rows[a].seen = scope[p].generation <=> SeenBefore(p, a) \/ a \in S
    /\ indexer[w].provider = p /\ indexer[w].pc # "idle"
    /\ \A v \in Indexers \ {w} : indexer'[v] = indexer[v]
    /\ indexer'[w].pc = "idle" \/ indexer'[w].provider = p

LEMMA PageMirrors ==
    ASSUME MirrorInv, NEW w \in Indexers, NEW p \in Providers, NEW S \in SUBSET Articles,
           NEW row \in ScopeRow, NEW rows \in [Articles -> ArticleRow],
           Storing(w, p, S, row, rows),
           PageTaken(p, S, row, rows) \/ PageCloses(p, S, row, rows)
    PROVE  UnknownInv' /\ Mirrors
<1>1. /\ scope'[p] = row /\ \A q \in Providers \ {p} : scope'[q] = scope[q]
      /\ article'[p] = rows /\ \A q \in Providers \ {p} : article'[q] = article[q]
      /\ \A v \in Indexers : indexer[v].provider \in Providers
      /\ steady[p] \subseteq Articles
      /\ UNCHANGED steady
      /\ scope[p].resolved /\ row.resolved /\ row.generation = scope[p].generation
      /\ row.job # "absent" /\ scope[p].status # "complete"
  BY RowsTyped DEF MirrorInv, CatalogInv, CatalogTypeOK, Storing
<1>2. UnknownInv'
  <2>1. ASSUME NEW q \in Providers
        PROVE  /\ ~scope'[q].resolved =>
                    \A a \in Articles : ~article'[q][a].active /\ article'[q][a].seen = Null
               /\ scope'[q].job = "absent" => ~scope'[q].resolved
    BY <1>1 DEF MirrorInv, UnknownInv
  <2>2. ASSUME NEW v \in Indexers, indexer'[v].pc \in {"list", "store"}
        PROVE  scope'[indexer'[v].provider].resolved
    <3>1. CASE v = w
      BY <1>1, <2>2, <3>1 DEF Storing
    <3>2. CASE v # w
      BY <1>1, <2>2, <3>2 DEF Storing, MirrorInv, UnknownInv
    <3> QED
      BY <3>1, <3>2
  <2> QED
    BY <2>1, <2>2 DEF UnknownInv
<1>3. SeenNow' = [SeenNow EXCEPT ![p] = @ \cup S]
  <2>1. ASSUME NEW q \in Providers
        PROVE  {a \in Articles : SeenBefore(q, a)'}
                = IF q = p THEN {a \in Articles : SeenBefore(q, a)} \cup S
                  ELSE {a \in Articles : SeenBefore(q, a)}
    <3>1. CASE q = p
      <4>1. \A a \in Articles : SeenBefore(p, a)' <=> SeenBefore(p, a) \/ a \in S
        BY <1>1 DEF SeenBefore, Storing
      <4> QED
        BY <3>1, <4>1
    <3>2. CASE q # p
      BY <1>1, <3>2 DEF SeenBefore
    <3> QED
      BY <3>1, <3>2
  <2> QED
    BY <2>1 DEF SeenNow
<1>4. p \notin CoveredNow
  BY <1>1 DEF CoveredNow, CoverageComplete
<1>5. CASE PageTaken(p, S, row, rows)
  <2>1. ShownNow' = [ShownNow EXCEPT ![p] = @ \cup S]
    <3>1. ASSUME NEW q \in Providers
          PROVE  {a \in Articles : article'[q][a].active}
                  = IF q = p THEN {a \in Articles : article[q][a].active} \cup S
                    ELSE {a \in Articles : article[q][a].active}
      BY <1>1, <1>5 DEF PageTaken
    <3> QED
      BY <3>1 DEF ShownNow
  <2>2. CoveredNow' = CoveredNow
    BY <1>1, <1>5 DEF PageTaken, CoveredNow, CoverageComplete
  <2>3. Mirror!Take(p, S)
    BY <1>1, <1>3, <1>4, <2>1, <2>2 DEF Mirror!Take, ShownNow, SeenNow, CoveredNow
  <2> QED
    BY <1>2, <2>3 DEF Mirrors, Mirror!MirrorNext
<1>6. CASE PageCloses(p, S, row, rows)
  <2>1. ShownNow' = [ShownNow EXCEPT ![p] = SeenNow[p] \cup S]
    <3>1. ASSUME NEW q \in Providers
          PROVE  {a \in Articles : article'[q][a].active}
                  = IF q = p THEN {a \in Articles : SeenBefore(p, a)} \cup S
                    ELSE {a \in Articles : article[q][a].active}
      <4>1. CASE q = p
        <5>1. \A a \in Articles : article'[p][a].active <=> SeenBefore(p, a) \/ a \in S
          BY <1>1, <1>6 DEF PageCloses
        <5> QED
          BY <4>1, <5>1
      <4>2. CASE q # p
        BY <1>1, <4>2
      <4> QED
        BY <4>1, <4>2
    <3> QED
      BY <3>1 DEF ShownNow, SeenNow
  <2>2. CoveredNow' = CoveredNow \cup {p}
    BY <1>1, <1>6 DEF PageCloses, CoveredNow, CoverageComplete
  <2>3. steady[p] \subseteq SeenNow[p] \cup S
    BY <1>1, <1>6 DEF PageCloses, SeenNow
  <2>4. Mirror!Close(p, S)
    BY <1>1, <1>3, <1>4, <2>1, <2>2, <2>3 DEF Mirror!Close, ShownNow, SeenNow, CoveredNow
  <2> QED
    BY <1>2, <2>4 DEF Mirrors, Mirror!MirrorNext
<1> QED
  BY <1>5, <1>6

LEMMA StorePageMirrors ==
    ASSUME MirrorInv, NEW w \in Indexers, StorePage(w)
    PROVE  UnknownInv' /\ Mirrors
<1> DEFINE p == indexer[w].provider
           page == indexer[w].page
           S == OnPage(page)
           rows == Stored(p, page)
           stored == [scope[p] EXCEPT !.cursor = page.next, !.visited = @ \cup {scope[p].cursor}]
           conflict == Conflicting(p, page)
           repeated == ~page.complete /\ page.next \in stored.visited
<1>1. ScopeHeld(w) /\ indexer[w].pc = "store" /\ UNCHANGED steady
      /\ indexer \in [Indexers -> IndexerRow]
  BY RowsTyped DEF MirrorInv, StorePage, At
<1>2. /\ p \in Providers /\ scope[p] \in ScopeRow /\ ProviderInv(p) /\ Holds(w, p)
      /\ scope[p].resolved /\ scope[p].job = "processing"
  BY <1>1, HeldFacts DEF MirrorInv, UnknownInv
<1>3. page \in Page /\ PageOfCursor(p, page) /\ S \in SUBSET Articles
  BY <1>1, <1>2, RowsTyped DEF MirrorInv, IndexerRow, CatalogInv, HolderInv, Current, OnPage
<1>4. scope[p].generation \in Nat /\ scope[p].cursor \in 0 .. LastPage /\ page.next \in 0 .. LastPage
      /\ scope[p].status # "complete" /\ scope[p].visited \subseteq 0 .. LastPage
  BY <1>2, <1>3 DEF ScopeRow, Page, ProviderInv, ScopeInv
<1>5. stored \in ScopeRow /\ stored.job = "processing" /\ stored.status = scope[p].status
      /\ stored.generation = scope[p].generation /\ stored.resolved
  BY <1>2, <1>4 DEF ScopeRow
<1>6. /\ rows \in [Articles -> ArticleRow]
      /\ \A a \in Articles :
            /\ rows[a].seen <= scope[p].generation
            /\ rows[a].seen = scope[p].generation => rows[a].active
            /\ rows[a].seen = scope[p].generation <=> SeenBefore(p, a) \/ a \in S
            /\ rows[a].active <=> article[p][a].active \/ a \in S
  BY <1>2, <1>3, StoredRows, StoredExactly DEF MirrorInv
<1>7. CASE page.complete /\ ~conflict
  <2> DEFINE row == Completed(stored)
             g == scope[p].generation
             kept == Retired(p, rows, g)
  <2>1. scope' = [scope EXCEPT ![p] = row] /\ article' = [article EXCEPT ![p] = kept] /\ Stop(w)
    BY <1>7 DEF StorePage
  <2>2. row \in ScopeRow /\ row.job = "completed" /\ row.completed = row.generation
        /\ row.generation = scope[p].generation /\ row.resolved /\ row.status = "complete"
    <3>1. Completed(stored).status = "complete"
      <4> HIDE DEF stored
      <4> QED
        BY <1>5 DEF Completed, ScopeRow
    <3> HIDE DEF stored
    <3> QED
      BY <1>5, <3>1, CompletedTyped
  <2>3. /\ kept \in [Articles -> ArticleRow]
        /\ \A a \in Articles :
            /\ kept[a].seen = rows[a].seen
            /\ kept[a].active => ~(rows[a].seen < g)
            /\ rows[a].active /\ ~(rows[a].seen < g) => kept[a].active
    <3>1. rows \in [Articles -> ArticleRow] /\ g \in Nat
      BY <1>4, <1>6
    <3> HIDE DEF g, rows
    <3> QED
      BY <3>1, RetiredRows
  <2> HIDE DEF rows, row, stored, kept
  <2>4. \A a \in Articles : rows[a].seen \in {0 - 1} \cup Nat
    BY <1>6 DEF ArticleRow, Null
  <2>5. ASSUME NEW a \in Articles PROVE kept[a].active <=> rows[a].seen = g
    <3>1. g \in Nat /\ rows[a].seen \in {0 - 1} \cup Nat /\ rows[a].seen <= g
      BY <1>4, <1>6, <2>4
    <3>2. ~(rows[a].seen < g) <=> rows[a].seen = g
      <4> HIDE DEF g
      <4> QED
        BY <3>1
    <3>3. rows[a].seen = g => rows[a].active
      BY <1>6
    <3> QED
      BY <2>3, <3>2, <3>3
  <2>6. \A a \in steady[p] : SeenBefore(p, a) \/ a \in S
    <3> SUFFICES ASSUME NEW a \in steady[p] PROVE SeenBefore(p, a) \/ a \in S
      OBVIOUS
    <3>1. a \in Articles /\ PageOf[a] \in 0 .. LastPage /\ scope[p].cursor = LastPage
      BY <1>2, <1>3, <1>7 DEF MirrorInv, CatalogInv, CatalogTypeOK, PageOfCursor
    <3>2. PageOf[a] < scope[p].cursor \/ PageOf[a] = scope[p].cursor
      BY <3>1
    <3> QED
      BY <1>2, <1>3, <3>1, <3>2 DEF ProviderInv, ArticleInv, PageOfCursor, OnPage
  <2>7. (\A v \in Indexers \ {w} : indexer'[v] = indexer[v]) /\ indexer'[w].pc = "idle"
    BY <1>1, <2>1, IdleTyped DEF Stop
  <2>8. \A a \in Articles : /\ kept[a].seen = scope[p].generation <=> SeenBefore(p, a) \/ a \in S
                            /\ kept[a].active <=> SeenBefore(p, a) \/ a \in S
    BY <1>6, <2>3, <2>5
  <2>9. indexer[w].provider = p /\ indexer[w].pc # "idle" /\ row.job # "absent"
    BY <1>1, <2>2
  <2>10. PageCloses(p, S, row, kept)
    BY <2>2, <2>6, <2>8 DEF PageCloses
  <2>11. Storing(w, p, S, row, kept)
    BY <1>1, <1>2, <1>4, <2>1, <2>2, <2>7, <2>8, <2>9 DEF Storing
  <2> HIDE DEF p, page, S, conflict, g
  <2> QED
    BY <1>2, <1>3, <2>2, <2>3, <2>10, <2>11, PageMirrors
<1>8. CASE ~(page.complete /\ ~conflict)
  <2>1. /\ scope' = [scope EXCEPT ![p] = stored] /\ article' = [article EXCEPT ![p] = rows]
        /\ IF conflict \/ repeated THEN Error(w, conflict, FALSE)
           ELSE indexer' = [indexer EXCEPT ![w].pc = "list", ![w].page = NoPage]
    BY <1>8 DEF StorePage
  <2>2. (\A v \in Indexers \ {w} : indexer'[v] = indexer[v]) /\ indexer'[w].provider = p
    <3> HIDE DEF conflict, repeated
    <3>1. CASE conflict \/ repeated
      BY <1>1, <2>1, <3>1 DEF Error, IndexerRow
    <3>2. CASE ~(conflict \/ repeated)
      BY <1>1, <2>1, <3>2 DEF IndexerRow
    <3> QED
      BY <3>1, <3>2
  <2>3. indexer[w].provider = p /\ indexer[w].pc # "idle" /\ stored.job # "absent"
        /\ stored.status # "complete"
    BY <1>1, <1>4, <1>5
  <2> HIDE DEF rows, stored
  <2>4. PageTaken(p, S, stored, rows)
    BY <1>6, <2>3 DEF PageTaken
  <2>5. Storing(w, p, S, stored, rows)
    BY <1>1, <1>2, <1>4, <1>5, <1>6, <2>1, <2>2, <2>3 DEF Storing
  <2> HIDE DEF p, page, S, conflict
  <2> QED
    BY <1>2, <1>3, <1>5, <1>6, <2>4, <2>5, PageMirrors
<1> QED
  BY <1>7, <1>8

(***************************************************************************)
(* New generations and the provider's own changes.                         *)
(***************************************************************************)
\* New for the providers P, of which the generation that begins has seen nothing.
LEMMA RenewMirrors ==
    ASSUME MirrorInv, UNCHANGED <<article, indexer>>, NEW P \in SUBSET Providers,
           \A p \in Providers :
            IF p \in P
            THEN /\ scope'[p].status # "complete" /\ scope'[p].job # "absent"
                 /\ scope'[p].resolved = scope[p].resolved
                 /\ \A a \in Articles : article[p][a].seen # scope'[p].generation
            ELSE scope'[p] = scope[p] /\ steady'[p] = steady[p]
    PROVE  UnknownInv' /\ Mirrors
<1>1. UnknownInv'
  <2>1. \A p \in Providers : /\ scope'[p].resolved = scope[p].resolved
                             /\ scope'[p].job = "absent" => scope[p].job = "absent"
    OBVIOUS
  <2>2. \A w \in Indexers : indexer[w].provider \in Providers
    BY RowsTyped DEF MirrorInv
  <2> QED
    BY <2>1, <2>2 DEF MirrorInv, UnknownInv
<1>2. ShownNow' = ShownNow
  BY DEF ShownNow
<1>3. SeenNow' = [p \in Providers |-> IF p \in P THEN {} ELSE SeenNow[p]]
  <2>1. ASSUME NEW p \in Providers
        PROVE  {a \in Articles : SeenBefore(p, a)'}
                = IF p \in P THEN {} ELSE {a \in Articles : SeenBefore(p, a)}
    BY DEF SeenBefore
  <2> QED
    BY <2>1 DEF SeenNow
<1>4. CoveredNow' = CoveredNow \ P
  BY DEF CoveredNow, CoverageComplete
<1>5. Mirror!Renew(P)
  BY <1>2, <1>3, <1>4 DEF Mirror!Renew, ShownNow, SeenNow, CoveredNow
<1> QED
  BY <1>1, <1>5 DEF Mirrors, Mirror!MirrorNext

LEMMA EnsureMirrors == MirrorInv /\ Ensure => UnknownInv' /\ Mirrors
<1> SUFFICES ASSUME MirrorInv, Ensure PROVE UnknownInv' /\ Mirrors
  OBVIOUS
<1> DEFINE P == {p \in Providers : scope[p].job = "absent"}
<1>1. /\ scope' = Ensured /\ UNCHANGED <<article, indexer>>
      /\ steady' = [p \in Providers |-> IF scope[p].job = "absent" THEN Listed(p) ELSE steady[p]]
  BY DEF Ensure
<1>2. ASSUME NEW p \in P
      PROVE  /\ scope'[p].status # "complete" /\ scope'[p].job # "absent"
             /\ scope'[p].resolved = scope[p].resolved
             /\ \A a \in Articles : article[p][a].seen # scope'[p].generation
  <2>1. scope[p] \in ScopeRow /\ scope'[p] = WithFreshJob(scope[p]) /\ p \in Providers
    BY <1>1, RowsTyped DEF MirrorInv, Ensured
  <2>2. /\ scope'[p].status = "pending" /\ scope'[p].job = "pending"
        /\ scope'[p].generation = scope[p].generation
    BY <2>1, FreshJob
  <2>3. scope'[p].resolved = scope[p].resolved
    BY <2>1 DEF WithFreshJob, ScopeRow
  <2>4. \A a \in Articles : article[p][a].seen = Null
    BY <2>1 DEF MirrorInv, UnknownInv
  <2>5. scope[p].generation \in Nat
    BY <2>1 DEF ScopeRow
  <2> QED
    BY <2>2, <2>3, <2>4, <2>5 DEF Null
<1>3. \A p \in Providers \ P : scope'[p] = scope[p] /\ steady'[p] = steady[p]
  BY <1>1 DEF Ensured
<1> HIDE DEF P
<1>4. P \in SUBSET Providers
  BY DEF P
<1> QED
  BY <1>1, <1>2, <1>3, <1>4, RenewMirrors

LEMMA RefreshMirrors == MirrorInv /\ Refresh => UnknownInv' /\ Mirrors
<1> SUFFICES ASSUME MirrorInv, Refresh PROVE UnknownInv' /\ Mirrors
  OBVIOUS
<1> DEFINE P == {p \in Providers : ~JobActive(scope[p]) /\ scope[p].generation < MaxGeneration}
           next(p) == [scope[p] EXCEPT !.generation = @ + 1]
<1>1. /\ scope' = [p \in Providers |-> IF p \in P THEN WithFreshJob(next(p)) ELSE scope[p]]
      /\ steady' = [p \in Providers |-> IF p \in P THEN Listed(p) ELSE steady[p]]
      /\ UNCHANGED <<article, indexer>>
  BY DEF Refresh
<1>2. ASSUME NEW p \in P
      PROVE  /\ scope'[p].status # "complete" /\ scope'[p].job # "absent"
             /\ scope'[p].resolved = scope[p].resolved
             /\ \A a \in Articles : article[p][a].seen # scope'[p].generation
  <2>1. /\ scope[p] \in ScopeRow /\ scope'[p] = WithFreshJob(next(p)) /\ p \in Providers
        /\ article[p] \in [Articles -> ArticleRow] /\ scope[p].generation < MaxGeneration
    BY <1>1, RowsTyped DEF MirrorInv
  <2>2. scope[p].generation + 1 \in 0 .. MaxGeneration /\ scope[p].generation \in Nat
    BY <2>1 DEF ScopeRow
  <2>3. next(p) \in ScopeRow /\ next(p).generation = scope[p].generation + 1
        /\ next(p).resolved = scope[p].resolved
    BY <2>1, <2>2 DEF ScopeRow
  <2> HIDE DEF next
  <2>4. /\ scope'[p].status = "pending" /\ scope'[p].job = "pending"
        /\ scope'[p].generation = scope[p].generation + 1
    BY <2>1, <2>3, FreshJob
  <2>5. scope'[p].resolved = scope[p].resolved
    BY <2>1, <2>3 DEF WithFreshJob, ScopeRow
  <2>6. \A a \in Articles : /\ article[p][a].seen <= scope[p].generation
                            /\ article[p][a].seen \in {0 - 1} \cup Nat
    BY <2>1 DEF MirrorInv, CatalogInv, ProviderInv, ArticleInv, ArticleRow, Null
  <2> QED
    BY <2>2, <2>4, <2>5, <2>6
<1>3. \A p \in Providers \ P : scope'[p] = scope[p] /\ steady'[p] = steady[p]
  BY <1>1
<1> HIDE DEF P
<1>4. P \in SUBSET Providers
  BY DEF P
<1> QED
  BY <1>1, <1>2, <1>3, <1>4, RenewMirrors

LEMMA EditMirrors ==
    ASSUME MirrorInv, NEW p \in Providers, NEW a \in Articles, Edit(p, a)
    PROVE  UnknownInv' /\ Mirrors
<1>1. UNCHANGED <<scope, article, indexer>>
      /\ (steady' = [steady EXCEPT ![p] = @ \ {a}] \/ steady' = steady)
  BY DEF Edit
<1>2. UnknownInv'
  BY <1>1 DEF MirrorInv, UnknownInv
<1>3. ShownNow' = ShownNow /\ SeenNow' = SeenNow /\ CoveredNow' = CoveredNow
  BY <1>1 DEF ShownNow, SeenNow, CoveredNow, SeenBefore, CoverageComplete
<1>4. CASE steady' = [steady EXCEPT ![p] = @ \ {a}]
  <2>1. Mirror!Drop(p, a)
    BY <1>3, <1>4 DEF Mirror!Drop, ShownNow, SeenNow, CoveredNow
  <2> QED
    BY <1>2, <2>1 DEF Mirrors, Mirror!MirrorNext
<1>5. CASE steady' = steady
  BY <1>2, <1>3, <1>5 DEF Mirrors
<1> QED
  BY <1>1, <1>4, <1>5

LEMMA QuietMirrors == MirrorInv /\ UNCHANGED catalog => UnknownInv' /\ Mirrors
<1> SUFFICES ASSUME MirrorInv, UNCHANGED catalog PROVE UnknownInv' /\ Mirrors
  OBVIOUS
<1>1. UNCHANGED <<scope, article, indexer, steady>>
  BY DEF catalog
<1>2. UnknownInv'
  BY <1>1 DEF MirrorInv, UnknownInv
<1>3. ShownNow' = ShownNow /\ SeenNow' = SeenNow /\ CoveredNow' = CoveredNow
  BY <1>1 DEF ShownNow, SeenNow, CoveredNow, SeenBefore, CoverageComplete
<1> QED
  BY <1>1, <1>2, <1>3 DEF Mirrors

LEMMA CatalogMirrors == MirrorInv /\ CatalogNext => UnknownInv' /\ Mirrors
<1> SUFFICES ASSUME MirrorInv, CatalogNext PROVE UnknownInv' /\ Mirrors
  OBVIOUS
<1>1. CASE Refresh
  BY <1>1, RefreshMirrors
<1>2. CASE \E w \in Indexers, p \in Providers : ClaimIndex(w, p)
  BY <1>2, ClaimMirrors
<1>3. CASE \E w \in Indexers : Start(w) \/ NotConfigured(w) \/ FailScope(w) \/ FailJob(w)
  BY <1>3, TellingMirrors
<1>4. CASE \E w \in Indexers : Resolve(w) \/ ListPage(w) \/ StorePage(w) \/ IndexerStops(w)
  BY <1>4, ResolveMirrors, ListPageMirrors, StorePageMirrors, IndexerStopsMirrors
<1>5. CASE \E p \in Providers : SweepIndex(p)
  BY <1>5, SweepMirrors
<1>6. CASE \E p \in Providers, a \in Articles : Edit(p, a)
  BY <1>6, EditMirrors
<1> QED
  BY <1>1, <1>2, <1>3, <1>4, <1>5, <1>6 DEF CatalogNext, Indexing

LEMMA MirrorNextStep == IInv /\ UnknownInv /\ [Next]_vars => UnknownInv' /\ Mirrors
<1> SUFFICES ASSUME IInv, UnknownInv, [Next]_vars PROVE UnknownInv' /\ Mirrors
  OBVIOUS
<1>1. MirrorInv
  BY DEF MirrorInv, IInv
<1>2. CASE CatalogNext
  BY <1>1, <1>2, CatalogMirrors
<1>3. CASE Ensure
  BY <1>1, <1>3, EnsureMirrors
<1>4. CASE UNCHANGED catalog
  BY <1>1, <1>4, QuietMirrors
<1>5. CatalogNext \/ Ensure \/ UNCHANGED catalog
  BY DEF Next, Sell, CatalogWork, Reconciling, Lease, Schedule, Acknowledge, PassStops, vars
<1> QED
  BY <1>2, <1>3, <1>4, <1>5

\* What readers find of a provider follows its listing, whoever indexes it and whatever
\* fails on the way: only a generation that completes hides an article, one it did not
\* list, and no late worker changes a complete index (catalog_coverage.py:131-143, 189-204,
\* 252-337).
THEOREM MirrorsTheListing == Spec => IndexMirrorsListing
<1>1. Init => UnknownInv
  BY UnknownStarts DEF Init
<1>2. Init => Mirror!Blank
  <2> SUFFICES ASSUME CatalogInit PROVE Mirror!Blank
    BY DEF Init
  <2>1. \A p \in Providers : /\ \A a \in Articles : ~article[p][a].active /\ ~SeenBefore(p, a)
                             /\ steady[p] = {} /\ ~CoverageComplete(p)
    BY DEF CatalogInit, NoScope, SeenBefore, CoverageComplete, Null
  <2>2. steady = [p \in Providers |-> {}]
    BY DEF CatalogInit
  <2> QED
    BY <2>1, <2>2 DEF Mirror!Blank, Mirror!Nothing
<1>3. IInv /\ UnknownInv /\ [Next]_vars => UnknownInv'
  BY MirrorNextStep
<1>4. IInv /\ UnknownInv /\ [Next]_vars => [Mirror!MirrorNext]_Mirror!mirror
  BY MirrorNextStep DEF Mirrors, Mirror!mirror, ShownNow, SeenNow, CoveredNow
<1> QED
  BY Invariant, <1>1, <1>2, <1>3, <1>4, PTL DEF Spec, IndexMirrorsListing, Mirror!Promise
=============================================================================
