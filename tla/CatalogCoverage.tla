---------------------------- MODULE CatalogCoverage ----------------------------
(***************************************************************************)
(* The index of the articles each provider lists for one catalog scope: a  *)
(* generation lists the provider page by page under a job lease, and when  *)
(* its last page is stored retires the articles no page of it listed.      *)
(* A worker asks the provider outside any transaction; it may die, lose    *)
(* its lease and be replaced between two pages, and the replacement goes   *)
(* on from the checkpoint of the last stored page.  Time is left out: the  *)
(* lease of a job that is processed may have run out whenever another      *)
(* worker looks, and so may the delay of a retry.                          *)
(*                                                                         *)
(* A cursor is the number of the page it leads to, 0 for none.  Providers  *)
(* order their articles by reference, so an article keeps its page.  Jobs  *)
(* of earlier generations are inactive and nothing reads them: a provider  *)
(* has the row of its current job.                                         *)
(***************************************************************************)
EXTENDS Naturals, FiniteSets

CONSTANTS
    Providers,      \* PROVIDERS
    Articles,       \* articles a provider may list in the scope
    PageOf,         \* the page an article is listed on
    Repeated,       \* articles a provider lists again on every later page
    Indexers,       \* worker processes running catalog jobs
    LastPage,       \* number of the last page
    MaxAttempts,    \* source_fetch_jobs.max_attempts
    MaxGeneration,  \* bound: refreshes of a scope
    MaxEdits        \* bound: changes a provider makes to its listing

ASSUME CatalogAssumption ==
    /\ LastPage \in Nat /\ PageOf \in [Articles -> 0 .. LastPage]
    /\ MaxAttempts \in Nat \ {0} /\ MaxGeneration \in Nat /\ MaxEdits \in Nat
    /\ Repeated \subseteq Articles
    /\ Providers # {}

VARIABLES
    scope,    \* catalog_article_provider_scopes and its current job
    article,  \* canonical_articles of the scope
    listing,  \* what each provider lists now, and how often it changed that
    indexer,  \* local state of each worker process
    steady    \* articles a provider has listed all through the current generation

catalog == <<scope, article, listing, indexer, steady>>

Null == 0 - 1

JobStatus == {"absent", "pending", "processing", "failed", "completed", "needs_review", "dead_letter"}

ScopeRow == [status : {"absent", "pending", "running", "complete", "partial", "failed",
                       "needs_review", "not_configured"},
             generation : 0 .. MaxGeneration, completed : {Null} \cup 0 .. MaxGeneration,
             resolved : BOOLEAN, job : JobStatus, attempts : 0 .. MaxAttempts,
             cursor : 0 .. LastPage, visited : SUBSET (0 .. LastPage)]

\* version is the descriptor last stored, seen the generation that listed it.
ArticleRow == [seen : {Null} \cup 0 .. MaxGeneration, version : 0 .. 2, active : BOOLEAN]

\* An article's version in the listing is 0 while it is not listed.
Listing == [version : [Articles -> 0 .. 2], edits : 0 .. MaxEdits]

Page == [of : [Articles -> 0 .. 2], next : 0 .. LastPage, complete : BOOLEAN]
NoPage == [of |-> [a \in Articles |-> 0], next |-> 0, complete |-> FALSE]

IndexerRow == [pc : {"idle", "start", "unconfigured", "resolve", "list", "store", "fail", "record"},
               provider : Providers, generation : 0 .. MaxGeneration, attempt : 0 .. MaxAttempts,
               page : Page, review : BOOLEAN, retryable : BOOLEAN]

CatalogTypeOK ==
    /\ scope \in [Providers -> ScopeRow]
    /\ article \in [Providers -> [Articles -> ArticleRow]]
    /\ listing \in [Providers -> Listing]
    /\ indexer \in [Indexers -> IndexerRow]
    /\ steady \in [Providers -> SUBSET Articles]

NoScope == [status |-> "absent", generation |-> 0, completed |-> Null, resolved |-> FALSE,
            job |-> "absent", attempts |-> 0, cursor |-> 0, visited |-> {}]

IdleIndexer == [pc |-> "idle", provider |-> CHOOSE p \in Providers : TRUE, generation |-> 0,
                attempt |-> 0, page |-> NoPage, review |-> FALSE, retryable |-> FALSE]

CatalogInit ==
    /\ scope = [p \in Providers |-> NoScope]
    /\ article = [p \in Providers |->
                    [a \in Articles |-> [seen |-> Null, version |-> 0, active |-> FALSE]]]
    /\ listing = [p \in Providers |-> [version |-> [a \in Articles |-> 1], edits |-> 0]]
    /\ indexer = [w \in Indexers |-> IdleIndexer]
    /\ steady = [p \in Providers |-> {}]

Listed(p) == {a \in Articles : listing[p].version[a] # 0}

(***************************************************************************)
(* Jobs.                                                                   *)
(***************************************************************************)
\* _create_catalog_job.
WithFreshJob(row) ==
    [row EXCEPT !.status = "pending", !.job = "pending", !.attempts = 0,
                !.cursor = 0, !.visited = {}]

\* ensure_article_catalog_jobs, in the transaction that locks the vehicle.
Ensured == [p \in Providers |->
    IF scope[p].job = "absent" THEN WithFreshJob(scope[p]) ELSE scope[p]]

Ensure ==
    /\ scope' = Ensured
    /\ steady' = [p \in Providers |-> IF scope[p].job = "absent" THEN Listed(p) ELSE steady[p]]
    /\ UNCHANGED <<article, listing, indexer>>

JobActive(row) == row.job \in {"pending", "processing", "failed"}

\* refresh_catalog_jobs, of scopes that exist: an operator asks for a new generation.
Refresh ==
    LET renewed == {p \in Providers : ~JobActive(scope[p]) /\ scope[p].generation < MaxGeneration} IN
    /\ \A p \in Providers : scope[p].job # "absent"
    /\ renewed # {}
    /\ scope' = [p \in Providers |->
                    IF p \in renewed
                    THEN WithFreshJob([scope[p] EXCEPT !.generation = @ + 1]) ELSE scope[p]]
    /\ steady' = [p \in Providers |-> IF p \in renewed THEN Listed(p) ELSE steady[p]]
    /\ UNCHANGED <<article, listing, indexer>>

\* The lease a claim takes is named by the generation and the attempt.
Holds(w, p) ==
    /\ indexer[w].pc # "idle" /\ indexer[w].provider = p
    /\ indexer[w].generation = scope[p].generation /\ indexer[w].attempt = scope[p].attempts

\* select_next_catalog_job and the claim of that job.  A job that is processed is
\* taken over once its lease ran out.
ClaimIndex(w, p) ==
    LET row == scope[p] IN
    /\ indexer[w].pc = "idle"
    /\ JobActive(row) /\ row.attempts < MaxAttempts
    /\ scope' = [scope EXCEPT ![p] = [@ EXCEPT !.job = "processing",
                                               !.attempts = row.attempts + 1]]
    /\ indexer' = [indexer EXCEPT ![w] = [IdleIndexer EXCEPT
                    !.pc = "start", !.provider = p, !.generation = row.generation,
                    !.attempt = row.attempts + 1]]
    /\ UNCHANGED <<article, listing, steady>>

\* The sweep of a claim: the lease of the last attempt ran out.
SweepIndex(p) ==
    /\ scope[p].job = "processing" /\ scope[p].attempts = MaxAttempts
    /\ scope' = [scope EXCEPT ![p].job = "dead_letter"]
    /\ UNCHANGED <<article, listing, indexer, steady>>

(***************************************************************************)
(* run_catalog_index_job.                                                  *)
(***************************************************************************)
\* lock_live_lease and _lock_scope.
ScopeHeld(w) ==
    /\ scope[indexer[w].provider].job = "processing"
    /\ Holds(w, indexer[w].provider)

Continue(w, pc) == indexer' = [indexer EXCEPT ![w].pc = pc]
Stop(w) == indexer' = [indexer EXCEPT ![w] = IdleIndexer]

\* A SourceConnectorError: what it says of review and of retries.
Error(w, review, retryable) ==
    indexer' = [indexer EXCEPT ![w].pc = "fail", ![w].page = NoPage,
                               ![w].review = review, ![w].retryable = retryable]

At(w, pc) == indexer[w].pc = pc

\* A process may be configured without the credentials of this provider.
Start(w) ==
    LET p == indexer[w].provider IN
    /\ At(w, "start") /\ ScopeHeld(w)
    /\ scope' = [scope EXCEPT ![p].status = "running"]
    /\ \/ Continue(w, "unconfigured")
       \/ Continue(w, IF scope[p].resolved THEN "list" ELSE "resolve")
    /\ UNCHANGED <<article, listing, steady>>

NotConfigured(w) ==
    /\ At(w, "unconfigured") /\ ScopeHeld(w)
    /\ scope' = [scope EXCEPT ![indexer[w].provider].status = "not_configured"]
    /\ indexer' = [indexer EXCEPT ![w].pc = "record", ![w].retryable = FALSE]
    /\ UNCHANGED <<article, listing, steady>>

\* Variant: the articles of this generation are retired with the older ones.
RetiredTooMany(p, rows, generation) ==
    [a \in Articles |-> IF rows[a].seen <= generation THEN [rows[a] EXCEPT !.active = FALSE]
                        ELSE rows[a]]

\* _complete: what the generation did not see is retired.
Retired(p, rows, generation) ==
    [a \in Articles |-> IF rows[a].seen < generation THEN [rows[a] EXCEPT !.active = FALSE]
                        ELSE rows[a]]

Completed(row) ==
    [row EXCEPT !.status = "complete", !.completed = row.generation, !.cursor = 0,
                !.job = "completed"]

\* The provider resolves the vehicle to one reference, to none or to several.
Resolve(w) ==
    LET p == indexer[w].provider IN
    /\ At(w, "resolve")
    /\ \/ /\ ScopeHeld(w)
          /\ scope' = [scope EXCEPT ![p].resolved = TRUE]
          /\ Continue(w, "list")
          /\ UNCHANGED article
       \/ /\ ScopeHeld(w)
          /\ scope' = [scope EXCEPT ![p] = Completed(@)]
          /\ article' = [article EXCEPT ![p] = Retired(p, @, scope[p].generation)]
          /\ Stop(w)
       \/ /\ Error(w, TRUE, FALSE)
          /\ UNCHANGED <<scope, article>>
       \/ /\ \E retryable \in BOOLEAN : Error(w, FALSE, retryable)
          /\ UNCHANGED <<scope, article>>
    /\ UNCHANGED <<listing, steady>>

PageAt(p, c) ==
    [of |-> [a \in Articles |->
                IF PageOf[a] = c \/ (a \in Repeated /\ PageOf[a] < c)
                THEN listing[p].version[a] ELSE 0],
     next |-> IF c < LastPage THEN c + 1 ELSE 0, complete |-> c = LastPage]

\* list_articles, outside any transaction.
ListPage(w) ==
    LET p == indexer[w].provider IN
    /\ At(w, "list")
    /\ \/ indexer' = [indexer EXCEPT ![w].pc = "store", ![w].page = PageAt(p, scope[p].cursor)]
       \/ \E retryable \in BOOLEAN : Error(w, FALSE, retryable)
    /\ UNCHANGED <<scope, article, listing, steady>>

OnPage(page) == {a \in Articles : page.of[a] # 0}

SeenBefore(p, a) == article[p][a].seen = scope[p].generation

Conflicting(p, page) ==
    \E a \in OnPage(page) : SeenBefore(p, a) /\ article[p][a].version # page.of[a]

Stored(p, page) ==
    [a \in Articles |->
        IF a \in OnPage(page) /\ ~SeenBefore(p, a)
        THEN [seen |-> scope[p].generation, version |-> page.of[a], active |-> TRUE]
        ELSE article[p][a]]

\* The transaction of a page: rows, page, checkpoint and, after the last page, the
\* completion.  A conflicting descriptor is reported after the page is committed.
StorePage(w) ==
    LET p == indexer[w].provider
        page == indexer[w].page
        row == scope[p]
        rows == Stored(p, page)
        stored == [row EXCEPT !.cursor = page.next, !.visited = @ \cup {row.cursor}]
        conflict == Conflicting(p, page)
        repeated == ~page.complete /\ page.next \in stored.visited
    IN
    /\ At(w, "store") /\ ScopeHeld(w)
    /\ IF page.complete /\ ~conflict
       THEN /\ scope' = [scope EXCEPT ![p] = Completed(stored)]
            /\ article' = [article EXCEPT ![p] = Retired(p, rows, row.generation)]
            /\ Stop(w)
       ELSE /\ scope' = [scope EXCEPT ![p] = stored]
            /\ article' = [article EXCEPT ![p] = rows]
            /\ IF conflict \/ repeated THEN Error(w, conflict, FALSE)
               ELSE indexer' = [indexer EXCEPT ![w].pc = "list", ![w].page = NoPage]
    /\ UNCHANGED <<listing, steady>>

\* The scope is told first, fail_source_job is a commit of its own.
FailScope(w) ==
    LET p == indexer[w].provider IN
    /\ At(w, "fail") /\ ScopeHeld(w)
    /\ scope' = [scope EXCEPT ![p].status =
                    IF indexer[w].review THEN "needs_review"
                    ELSE IF \E a \in Articles : SeenBefore(p, a) THEN "partial" ELSE "failed"]
    /\ Continue(w, "record")
    /\ UNCHANGED <<article, listing, steady>>

FailJob(w) ==
    LET p == indexer[w].provider
        retry == indexer[w].retryable /\ scope[p].attempts < MaxAttempts
    IN
    /\ At(w, "record") /\ ScopeHeld(w)
    /\ scope' = [scope EXCEPT ![p].job =
                    CASE retry -> "failed"
                      [] ~retry /\ indexer[w].retryable -> "dead_letter"
                      [] OTHER -> "needs_review"]
    /\ Stop(w)
    /\ UNCHANGED <<article, listing, steady>>

\* LeaseLost, or the process dies.
IndexerStops(w) ==
    /\ indexer[w].pc # "idle"
    /\ Stop(w)
    /\ UNCHANGED <<scope, article, listing, steady>>

\* The provider adds, edits or drops an article.
Edit(p, a) ==
    /\ listing[p].edits < MaxEdits
    /\ \E v \in 0 .. 2 :
        /\ v # listing[p].version[a]
        /\ listing' = [listing EXCEPT ![p] = [version |-> [@.version EXCEPT ![a] = v],
                                              edits |-> @.edits + 1]]
        /\ steady' = IF v = 0 THEN [steady EXCEPT ![p] = @ \ {a}] ELSE steady
    /\ UNCHANGED <<scope, article, indexer>>

Indexing(w) ==
    \/ \E p \in Providers : ClaimIndex(w, p)
    \/ Start(w) \/ NotConfigured(w) \/ Resolve(w) \/ ListPage(w) \/ StorePage(w)
    \/ FailScope(w) \/ FailJob(w)

CatalogNext ==
    \/ Refresh
    \/ \E w \in Indexers : Indexing(w) \/ IndexerStops(w)
    \/ \E p \in Providers : SweepIndex(p)
    \/ \E p \in Providers, a \in Articles : Edit(p, a)

(***************************************************************************)
(* What makes the index correct.                                           *)
(***************************************************************************)
\* read_catalog_coverage.
CoverageComplete(p) ==
    scope[p].status = "complete" /\ scope[p].completed = scope[p].generation

\* While the coverage of a provider reads complete, its active articles are those of
\* the last generation: one the provider listed all through it is there, although
\* the listing was resumed, repeated, edited and taken over on the way, and one
\* that only earlier generations listed is not (catalog_coverage.py:131-143,
\* 252-337).  A vehicle the provider resolves to nothing has no articles.
IndexMatchesListing ==
    \A p \in Providers : CoverageComplete(p) =>
        /\ scope[p].resolved => \A a \in steady[p] : article[p][a].active
        /\ \A a \in Articles : article[p][a].active => SeenBefore(p, a)

\* What readers find of each provider, what its generation listed, what it kept in its
\* listing meanwhile, and which indexes are complete.
Mirror == INSTANCE MirroredCatalog WITH
    shown <- [p \in Providers |-> {a \in Articles : article[p][a].active}],
    seen <- [p \in Providers |-> {a \in Articles : SeenBefore(p, a)}],
    kept <- steady,
    complete <- {p \in Providers : CoverageComplete(p)}

\* What readers find of a provider follows its listing, whoever indexes it and whatever
\* fails on the way: a generation that failed or was taken over hides nothing, a completed
\* one hides what it did not list, and no late worker changes a completed index
\* (catalog_coverage.py:131-143, 189-204, 252-337).
IndexMirrorsListing == Mirror!Promise
=============================================================================
