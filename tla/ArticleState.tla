----------------------------- MODULE ArticleState -----------------------------
(***************************************************************************)
(* The PostgreSQL rows of the article lifecycle and what its transactions  *)
(* share: canonical_articles, source_fetch_jobs, canonical_article_        *)
(* revisions, canonical_article_rewrite_attempts, canonical_article_       *)
(* reviews and the publication_events of catalog.article.published, plus   *)
(* the local state of the worker processes and of the human reviewers.     *)
(*                                                                         *)
(* A transformation key is the sha256 the code derives from the article,   *)
(* the captured source (fingerprint and projection version) and the        *)
(* rewrite profile; here it is the record of those.  transformation_key is *)
(* UNIQUE in canonical_article_revisions, so a revision is named by its    *)
(* key.  The normalization version has one value, as in the code.          *)
(***************************************************************************)
EXTENDS Naturals, FiniteSets

CONSTANTS
    Articles,      \* canonical articles
    Jobs,          \* identities source_fetch_jobs rows may take (bounds refreshes)
    Workers,       \* worker processes polling for article jobs
    Reviewers,     \* people on the content-review allow list
    Fingerprints,  \* contents a provider may serve for an article
    Projections,   \* 1: source-projection-v1, 2: source-projection-v2
    Profiles,      \* rewrite profiles in use
    ZeroSlot,      \* fingerprints whose document has no editable prose slot
    MaxAttempts,   \* source_fetch_jobs.max_attempts
    LeaseTerm,     \* clock ticks a claim or a heartbeat buys (90 seconds)
    MaxToken,      \* bound: a worker holding this token neither dies nor loses its lease
    MaxVersion,    \* bound: corrections a draft may receive
    None

ASSUME ConstantsAssumption ==
    /\ MaxAttempts \in 1 .. 3
    /\ LeaseTerm \in Nat \ {0}
    /\ MaxToken \in Nat
    /\ MaxVersion \in Nat
    /\ Profiles \subseteq {"technical", "review", "auto"}
    /\ Projections \subseteq {1, 2}
    /\ ZeroSlot \subseteq Fingerprints
    /\ Articles # {} /\ Profiles # {}
    /\ None \notin Jobs \cup Workers \cup Reviewers

\* A captured source revision, and a transformation of it.
Source == [fingerprint : Fingerprints, projection : Projections]
Key == [article : Articles, source : Source, profile : Profiles]

ASSUME NoneAssumption == None \notin Source /\ None \notin Key

VARIABLES
    article,   \* canonical_articles
    job,       \* source_fetch_jobs
    revision,  \* canonical_article_revisions, by transformation key
    attempts,  \* canonical_article_rewrite_attempts
    review,    \* what canonical_article_reviews say of a revision
    outbox,    \* keys with a catalog.article.published event
    worker,    \* local state of each worker process
    desk       \* the bindings each reviewer holds from an export

rows == <<article, job, revision, attempts, review, outbox>>
vars == <<article, job, revision, attempts, review, outbox, worker, desk>>

(***************************************************************************)
(* Types.                                                                  *)
(***************************************************************************)
Status == {"absent", "pending", "processing", "failed", "completed",
           "needs_review", "dead_letter"}
Phase == {"queued", "fetching_source", "normalizing", "rewriting",
          "validating", "publishing", "completed"}
RewriteError == {"none", "REWRITE_TECHNICAL_MUTATION", "REWRITE_RESPONSE_INVALID"}
ErrorCode == RewriteError \cup
    {"MODEL_NOT_CONFIGURED", "LEASE_ATTEMPTS_EXHAUSTED", "REFUSED",
     "AUTOMATIC_CANDIDATE_INVALID", "CONTENT_REVIEW_REQUIRED",
     "SOURCE_ONLY_REPROJECTION"}

ArticleRow == [generation : Nat, profile : Profiles, job : Jobs \cup {None},
               source : Source \cup {None}, canonical : Key \cup {None}]

\* checkpoint.normalized_hash, checkpoint.rewrite_error_code and
\* checkpoint.content_review.state are the fields normalized, rewriteError, review.
JobRow == [article : Articles, generation : Nat, profile : Profiles,
           status : Status, phase : Phase, retry : Nat, token : Nat,
           owner : Workers \cup {None}, lease : Nat, error : ErrorCode,
           source : Source \cup {None}, key : Key \cup {None},
           normalized : BOOLEAN, rewriteError : RewriteError,
           review : {"none", "awaiting_review", "approved"}]

\* sound: the profile's validator passes the document.  preserving: the server
\* built it from a document without prose slots.  version: how often a reviewer
\* replaced the document (its canonical hash).
RevisionRow == [status : {"none", "building", "validated", "rejected", "published"},
                sound : BOOLEAN, preserving : BOOLEAN, version : Nat]

Attempt == [job : Jobs, token : Nat, number : Nat,
            status : {"prepared", "dispatched", "succeeded", "failed", "ambiguous"}]

\* The latest review of a revision: who decided what about which version under
\* which generation, whose correction it carries, and every correction author.
ReviewRow == [decision : {"none", "APPROVED", "REJECTED"},
              reviewer : Reviewers \cup {None}, version : Nat, generation : Nat,
              corrector : Reviewers \cup {None}, failedOrigin : BOOLEAN,
              authors : SUBSET Reviewers]

Pc == {"idle", "sweep", "begin", "capture", "commit", "load", "normalize",
       "preserve", "park", "prepare", "dispatch", "model", "result", "reload",
       "validate", "publish", "record", "fail"}
Failure == {"none", "transport", "configuration", "refused", "source_retry",
            "source_refused", "rewrite"}
WorkerRow == [pc : Pc, job : Jobs \cup {None}, token : Nat, ready : BOOLEAN,
              fetched : Source \cup {None},
              answer : {"none", "sound", "mutation", "invalid"}, failure : Failure]

Binding == [job : Jobs, version : Nat, generation : Nat]

TypeOK ==
    /\ article \in [Articles -> ArticleRow]
    /\ job \in [Jobs -> JobRow]
    /\ revision \in [Key -> RevisionRow]
    /\ attempts \in SUBSET Attempt
    /\ review \in [Key -> ReviewRow]
    /\ outbox \in SUBSET Key
    /\ worker \in [Workers -> WorkerRow]
    /\ desk \in [Reviewers -> Binding \cup {None}]

(***************************************************************************)
(* Initial rows.                                                           *)
(***************************************************************************)
AbsentJob(a, p) ==
    [article |-> a, generation |-> 0, profile |-> p, status |-> "absent",
     phase |-> "queued", retry |-> 0, token |-> 0, owner |-> None, lease |-> 0,
     error |-> "none", source |-> None, key |-> None, normalized |-> FALSE,
     rewriteError |-> "none", review |-> "none"]

IdleWorker == [pc |-> "idle", job |-> None, token |-> 0, ready |-> FALSE,
               fetched |-> None, answer |-> "none", failure |-> "none"]

Init ==
    /\ \E p \in Profiles :
        article = [a \in Articles |-> [generation |-> 1, profile |-> p, job |-> None,
                                       source |-> None, canonical |-> None]]
    /\ \E a \in Articles, p \in Profiles : job = [j \in Jobs |-> AbsentJob(a, p)]
    /\ revision = [k \in Key |-> [status |-> "none", sound |-> FALSE,
                                  preserving |-> FALSE, version |-> 0]]
    /\ attempts = {}
    /\ review = [k \in Key |-> [decision |-> "none", reviewer |-> None, version |-> 0,
                                generation |-> 0, corrector |-> None,
                                failedOrigin |-> FALSE, authors |-> {}]]
    /\ outbox = {}
    /\ worker = [w \in Workers |-> IdleWorker]
    /\ desk = [r \in Reviewers |-> None]

(***************************************************************************)
(* Guards shared by every transaction.                                     *)
(***************************************************************************)
Active(j) == job[j].status \in {"pending", "processing", "failed"}

\* The row is still this worker's: lock_live_lease.
LeaseHeld(w) ==
    LET j == worker[w].job IN
    /\ j # None
    /\ job[j].status = "processing"
    /\ job[j].owner = w
    /\ job[j].token = worker[w].token
    /\ job[j].lease > 0

\* The article still asks for exactly what the job transforms.
Current(j) ==
    LET a == article[job[j].article] IN
    /\ a.job = j
    /\ a.generation = job[j].generation
    /\ a.source = job[j].source
    /\ a.profile = job[j].profile

\* Variant: a transformation guarded by the article's pointer but not by the lease.
TransformHeldByPointer(w) == worker[w].job # None /\ Current(worker[w].job)

\* _lock_transform
TransformHeld(w) == LeaseHeld(w) /\ Current(worker[w].job)

\* A lease that nobody can hold any more may be taken over.
Expired(j) == job[j].status = "processing" /\ job[j].lease = 0

HasCandidate(j) == job[j].key # None /\ revision[job[j].key].status # "none"

AttemptsOf(j) == {x \in attempts : x.job = j}

\* Variant: only the latest correction counts.
IndependentOfLatest(r, k) == r # review[k].corrector

\* No one approves a draft they corrected, nor one grown from a failed response if they
\* ever corrected it: asked when the decision is recorded, and again at every claim and
\* publication.
Independent(r, k) ==
    /\ r # review[k].corrector
    /\ ~(review[k].failedOrigin /\ r \in review[k].authors)

\* Terminal transitions clear the lease columns.
Released(row) == [row EXCEPT !.owner = None, !.lease = 0]

\* Variant: the accounting runs after the claim and looks for the new token.
WithAmbiguousLate(j) ==
    {IF x.job = j /\ x.token = job[j].token + 1 /\ x.status = "dispatched"
     THEN [x EXCEPT !.status = "ambiguous"] ELSE x : x \in attempts}

\* _mark_delivery_ambiguous, for the lease the row carries.
WithAmbiguous(j) ==
    {IF x.job = j /\ x.token = job[j].token /\ x.status = "dispatched"
     THEN [x EXCEPT !.status = "ambiguous"] ELSE x : x \in attempts}

\* The worker gives the job up and polls again.
Leave(w) == worker' = [worker EXCEPT ![w] = IdleWorker]
Goto(w, pc) == worker' = [worker EXCEPT ![w] = [@ EXCEPT !.pc = pc]]
FailWith(w, pc, f) == worker' = [worker EXCEPT ![w] = [@ EXCEPT !.pc = pc, !.failure = f]]
=============================================================================
