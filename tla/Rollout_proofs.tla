---------------------------- MODULE Rollout_proofs ----------------------------
(***************************************************************************)
(* Proofs about the new-article rollout, for any number of jobs, any quota *)
(* and window, and an unbounded clock.                                     *)
(*                                                                         *)
(* The argument.  Between the lock and the commit of the cap nobody else   *)
(* changes the row, so a row that is capped was never claimed, and its     *)
(* reservation, which no step removes, came first.  Its one attempt may be *)
(* resumed, but only from a stage whose source and answer are stored, or   *)
(* with a source and nobody asked.  Reservations are made in the order of  *)
(* their times, so a new one can only overfill the window that ends with   *)
(* it, and that window is what the guard counts.                           *)
(***************************************************************************)
EXTENDS NewArticleRollout, FiniteSetTheorems, TLAPS

\* A process lives only beside an initialized ledger; no mark precedes its reservation.
LiveInv == worker.at # "down" => Initialized

Spent(j) == \E r \in ledger.spent : r.job = j

\* The row of a pass while it is locked, and once it is capped.
PassInv ==
    /\ worker.at \in {"locked", "reserved"} => row[worker.job].state = "pending"
    /\ worker.at = "reserved" => Spent(worker.job)
    /\ worker.at \in {"capped", "permitted"} => row[worker.job].capped

PaidInv == \A j \in Jobs : row[j].capped =>
    Spent(j) /\ row[j].max = 1 /\ row[j].retry <= 1

\* A row that waits is as it was asked for.  A capped one has its one attempt for good, in
\* whose course the source is fetched once and the model asked once.
Untouched(r) == r.retry = 0 /\ r.stage = "new" /\ r.fetched = 0 /\ r.asked = 0

OneDelivery(r) ==
    /\ r.max = 1 /\ r.retry <= 1 /\ r.fetched <= 1 /\ r.asked <= 1
    /\ r.state \notin {"absent", "pending", "withdrawn"} => r.retry = 1
    /\ r.state # "retryable"
    /\ r.state = "processing" /\ r.stage = "new" => r.fetched = 0
    /\ r.state = "processing" /\ r.stage \in {"new", "fetching", "captured", "plain"} => r.asked = 0
    /\ r.state = "parked" => r.stage = "captured" /\ r.asked = 0

Sound(r) ==
    /\ r.state \in {"absent", "pending", "withdrawn"} => Untouched(r)
    /\ r.capped => OneDelivery(r)

SoundInv == \A j \in Jobs : Sound(row[j])

\* The reservations whose window ends at a time.
Until(spent, t) == {s \in spent : s.at \in t - Window + 1 .. t}

LedgerInv ==
    /\ IsFiniteSet(ledger.spent)
    /\ ~Initialized => ledger.spent = {}
    /\ \A r, s \in ledger.spent : r.job = s.job => r = s
    /\ \A r \in ledger.spent : Cardinality(Until(ledger.spent, r.at)) <= MaxJobs
    /\ ledger.schema = 1 =>
        /\ Cardinality(ledger.spent) <= MaxJobs
        /\ \A r \in ledger.spent : r.at < ledger.cutoff + Window
    /\ ledger.schema = 2 => Cardinality(ledger.spent) <= Capacity

IInv == TypeOK /\ LiveInv /\ PassInv /\ PaidInv /\ SoundInv /\ LedgerInv

USE RolloutAssumption

LEMMA InitInv == Init => IInv
<1> SUFFICES ASSUME Init PROVE IInv
  OBVIOUS
<1>1. TypeOK
  BY DEF Init, TypeOK, Ledger, NoLedger, Row, Process, Down, Reservation, States, Holders, Stages
<1>2. LiveInv /\ PassInv /\ PaidInv /\ SoundInv
  BY DEF Init, LiveInv, PassInv, PaidInv, SoundInv, Sound, Untouched, Down
<1>3. LedgerInv
  <2>1. ledger.spent = {} /\ ledger.schema = 0
    BY DEF Init, NoLedger
  <2> QED
    BY <2>1, FS_EmptySet DEF LedgerInv, Initialized
<1> QED
  BY <1>1, <1>2, <1>3 DEF IInv

(***************************************************************************)
(* What becomes of a row.  Every step but Cap moves one row, in one of     *)
(* these ways.                                                             *)
(***************************************************************************)
Waits(r, s) ==
    \/ /\ r.state = "absent"
       /\ \E c, d \in Int : s = [r EXCEPT !.state = "pending", !.created = c, !.described = d]
    \/ /\ r.state \in {"pending", "withdrawn"}
       /\ \E state \in {"pending", "withdrawn"} : s = [r EXCEPT !.state = state]

Resumes(r, s) == \E h \in Holders : (ResumesDraft(r) \/ ResumesParked(r, h)) /\ s = Held(r, h)

Counts(r, s) == \E h \in Holders : Claimable(r) /\ s = Claimed(r, h)

Leaves(r, s) ==
    /\ r.state \in {"processing", "expired"}
    /\ \E state \in {"expired", "retryable", "ended"} :
        /\ state = "retryable" => r.retry < r.max
        /\ s = Released(r, state)

Delivers(r, s) ==
    /\ r.state = "processing"
    /\ \/ r.stage = "new" /\ s = Fetched(r)
       \/ r.stage = "captured" /\ s = Asked(r)
       \/ r.stage = "fetching" /\ \E g \in {"captured", "plain"} : s = [r EXCEPT !.stage = g]
       \/ r.stage \in {"plain", "asking"} /\ \E g \in {"saved", "spoiled"} : s = [r EXCEPT !.stage = g]
       \/ r.stage = "captured" /\ r.asked = 0 /\ s = Released(r, "parked")

Moves(r, s) == Waits(r, s) \/ Resumes(r, s) \/ Counts(r, s) \/ Leaves(r, s) \/ Delivers(r, s)

\* A lease is on a row of a job that is processed.
LEMMA ReleasedRow ==
  ASSUME NEW r \in Row, NEW state \in States
  PROVE  /\ Released(r, state) \in Row /\ Released(r, state).state = state
         /\ Released(r, state).stage = Kept(r.stage)
         /\ Released(r, state).retry = r.retry /\ Released(r, state).max = r.max
         /\ Released(r, state).capped = r.capped
         /\ Released(r, state).fetched = r.fetched /\ Released(r, state).asked = r.asked
<1>1. Kept(r.stage) \in Stages
  BY DEF Kept, Row, Stages
<1>2. Released(r, state) = [r EXCEPT !.state = state, !.holder = None, !.stage = Kept(r.stage)]
  BY DEF Released
<1> QED
  BY <1>1, <1>2 DEF Row

LEMMA DeliveredRow ==
  ASSUME NEW r \in Row
  PROVE  /\ Fetched(r) \in Row /\ Fetched(r).stage = "fetching"
         /\ Fetched(r).fetched = r.fetched + 1 /\ Fetched(r).asked = r.asked
         /\ Fetched(r).state = r.state /\ Fetched(r).retry = r.retry
         /\ Fetched(r).max = r.max /\ Fetched(r).capped = r.capped
         /\ Asked(r) \in Row /\ Asked(r).stage = "asking"
         /\ Asked(r).asked = r.asked + 1 /\ Asked(r).fetched = r.fetched
         /\ Asked(r).state = r.state /\ Asked(r).retry = r.retry
         /\ Asked(r).max = r.max /\ Asked(r).capped = r.capped
<1>1. r.fetched + 1 \in Nat /\ r.asked + 1 \in Nat
  BY DEF Row
<1> QED
  BY <1>1 DEF Fetched, Asked, Row, Stages

LEMMA MoveTyped ==
  ASSUME NEW r \in Row, NEW s, Moves(r, s)
  PROVE  s \in Row
<1>1. CASE Waits(r, s)
  BY <1>1 DEF Waits, Row, States
<1>2. CASE Resumes(r, s)
  BY <1>2 DEF Resumes, Held, Row, States
<1>3. CASE Counts(r, s)
  <2>1. PICK h \in Holders : s = [[r EXCEPT !.state = "processing", !.holder = h] EXCEPT !.retry = @ + 1]
    BY <1>3 DEF Counts, Claimed, Held
  <2>2. r.retry + 1 \in Nat
    BY DEF Row
  <2> QED
    BY <2>1, <2>2 DEF Row, States
<1>4. CASE Leaves(r, s)
  <2>1. PICK state \in States : s = Released(r, state)
    BY <1>4 DEF Leaves, States
  <2> QED
    BY <2>1, ReleasedRow
<1>5. CASE Delivers(r, s)
  <2>1. "parked" \in States
    BY DEF States
  <2>2. CASE s \in {Released(r, "parked"), Fetched(r), Asked(r)}
    BY <2>1, <2>2, ReleasedRow, DeliveredRow
  <2>3. ASSUME NEW g \in Stages, s = [r EXCEPT !.stage = g] PROVE s \in Row
    BY <2>3 DEF Row
  <2> QED
    BY <1>5, <2>2, <2>3 DEF Delivers, Stages
<1> QED
  BY <1>1, <1>2, <1>3, <1>4, <1>5 DEF Moves

\* Only the general claim counts an attempt.
LEMMA MoveCounts ==
  ASSUME NEW r \in Row, NEW s, Moves(r, s)
  PROVE  /\ s.capped = r.capped /\ s.max = r.max
         /\ s.retry = r.retry \/ (r.retry < r.max /\ s.retry = r.retry + 1)
<1>1. CASE Counts(r, s)
  BY <1>1 DEF Counts, Claimable, Claimed, Held, Row
<1>2. CASE \E state \in States : s = Released(r, state)
  BY <1>2, ReleasedRow
<1>3. CASE s \in {Fetched(r), Asked(r)}
  BY <1>3, DeliveredRow
<1>4. CASE Waits(r, s) \/ Resumes(r, s)
  BY <1>4 DEF Waits, Resumes, Held, Row
<1>5. CASE \E g \in Stages : s = [r EXCEPT !.stage = g]
  BY <1>5 DEF Row
<1>6. CASE Leaves(r, s)
  BY <1>2, <1>6 DEF Leaves, States
<1>7. CASE Delivers(r, s)
  <2>1. \/ s \in {Fetched(r), Asked(r)} \/ s = Released(r, "parked")
        \/ \E g \in Stages : s = [r EXCEPT !.stage = g]
    BY <1>7 DEF Delivers, Stages
  <2> QED
    BY <1>2, <1>3, <1>5, <2>1 DEF States
<1> QED
  BY <1>1, <1>4, <1>6, <1>7 DEF Moves

LEMMA MoveSound ==
  ASSUME NEW r \in Row, NEW s, Moves(r, s), Sound(r)
  PROVE  Sound(s)
<1> USE DEF Sound, Untouched, OneDelivery
<1>1. CASE Waits(r, s)
  BY <1>1 DEF Waits, Row
<1>2. CASE Resumes(r, s)
  BY <1>2 DEF Resumes, ResumesDraft, ResumesParked, Held, Row
<1>3. CASE Counts(r, s)
  <2>1. PICK h \in Holders :
          Claimable(r) /\ s = [[r EXCEPT !.state = "processing", !.holder = h] EXCEPT !.retry = @ + 1]
    BY <1>3 DEF Counts, Claimed, Held
  <2>2. /\ s.state = "processing" /\ s.retry = r.retry + 1 /\ s.capped = r.capped
        /\ s.max = r.max /\ s.stage = r.stage /\ s.fetched = r.fetched /\ s.asked = r.asked
    BY <2>1 DEF Row
  <2>3. r.capped => r.state \in {"pending", "withdrawn"}
    BY <2>1 DEF Claimable, Row
  <2> QED
    BY <2>2, <2>3
<1>4. CASE Leaves(r, s)
  <2>1. PICK state \in {"expired", "retryable", "ended"} :
          /\ state = "retryable" => r.retry < r.max
          /\ s = Released(r, state)
    BY <1>4 DEF Leaves
  <2>2. /\ s.state = state /\ s.retry = r.retry /\ s.capped = r.capped /\ s.max = r.max
        /\ s.fetched = r.fetched /\ s.asked = r.asked
    BY <2>1, ReleasedRow DEF States
  <2>3. r.capped => r.retry = 1 /\ r.max = 1
    BY <1>4 DEF Leaves
  <2> QED
    BY <2>1, <2>2, <2>3
<1>5. CASE Delivers(r, s)
  <2>0. r.state = "processing" /\ r.fetched \in Nat /\ r.asked \in Nat
    BY <1>5 DEF Delivers, Row
  <2>1. CASE s = Released(r, "parked") /\ r.stage = "captured" /\ r.asked = 0
    <3>1. s.state = "parked" /\ s.stage = "captured"
          /\ s.retry = r.retry /\ s.capped = r.capped /\ s.max = r.max
          /\ s.fetched = r.fetched /\ s.asked = r.asked
      BY <2>1, ReleasedRow DEF Kept, States
    <3> QED
      BY <2>0, <2>1, <3>1
  <2>2. CASE r.stage = "new" /\ s = Fetched(r)
    BY <2>0, <2>2, DeliveredRow
  <2>3. CASE r.stage = "captured" /\ s = Asked(r)
    BY <2>0, <2>3, DeliveredRow
  <2>4. CASE \/ r.stage = "fetching" /\ \E g \in {"captured", "plain"} : s = [r EXCEPT !.stage = g]
             \/ r.stage \in {"plain", "asking"}
                /\ \E g \in {"saved", "spoiled"} : s = [r EXCEPT !.stage = g]
    BY <1>5, <2>4 DEF Delivers, Row
  <2> QED
    BY <1>5, <2>1, <2>2, <2>3, <2>4 DEF Delivers
<1> QED
  BY <1>1, <1>2, <1>3, <1>4, <1>5 DEF Moves

RowStep(j) ==
    /\ Moves(row[j], row'[j])
    /\ row' = [row EXCEPT ![j] = row'[j]]
    /\ row[j].state = "pending" => Unlocked(j)
    /\ ledger' = ledger /\ worker'.stop = worker.stop

\* What the rest of the system does to the rows.
Outside ==
    \E j \in Jobs : \/ Request(j) \/ Withdraw(j) \/ Relist(j)
                    \/ OtherClaims(j) \/ OtherFinishes(j) \/ Expire(j) \/ Working(j)

LEMMA OutsideKeeps == Outside => UNCHANGED <<clock, ledger, worker>>
BY DEF Outside, Request, Withdraw, Relist, OtherClaims, OtherFinishes, Expire, Working,
       Fetch, Capture, Preserve, Park, Ask, Save

LEMMA TakeMoves ==
  ASSUME TypeOK, NEW j \in Jobs, NEW h \in Holders, Takes(j, h)
  PROVE  /\ Moves(row[j], row'[j])
         /\ row' = [row EXCEPT ![j] = row'[j]]
<1>1. CASE (ResumesDraft(row[j]) \/ ResumesParked(row[j], h)) /\ row' = [row EXCEPT ![j] = Held(row[j], h)]
  BY <1>1 DEF TypeOK, Moves, Resumes
<1>2. CASE Claimable(row[j]) /\ row' = [row EXCEPT ![j] = Claimed(row[j], h)]
  BY <1>2 DEF TypeOK, Moves, Counts
<1> QED
  BY <1>1, <1>2 DEF Takes

LEMMA SweepMoves ==
  ASSUME TypeOK, NEW j \in Jobs, Sweeps(j)
  PROVE  /\ Moves(row[j], row'[j])
         /\ row' = [row EXCEPT ![j] = row'[j]] /\ row[j].state # "pending"
BY DEF TypeOK, Sweeps, Moves, Leaves

LEMMA EndMoves ==
  ASSUME TypeOK, NEW j \in Jobs, Ends(j)
  PROVE  /\ Moves(row[j], row'[j])
         /\ row' = [row EXCEPT ![j] = row'[j]] /\ row[j].state # "pending"
<1>1. PICK state \in {"retryable", "ended"} :
        /\ state = "retryable" => row[j].retry < row[j].max
        /\ row' = [row EXCEPT ![j] = Released(row[j], state)]
  BY DEF Ends
<1>2. row[j].state = "processing"
  BY DEF Ends
<1> QED
  BY <1>1, <1>2 DEF TypeOK, Moves, Leaves

LEMMA WorkMoves ==
  ASSUME TypeOK, NEW j \in Jobs, Working(j)
  PROVE  /\ Moves(row[j], row'[j])
         /\ row' = [row EXCEPT ![j] = row'[j]] /\ row[j].state # "pending"
<1>0. row \in [Jobs -> Row] /\ row[j] \in Row
  BY DEF TypeOK
<1>1. CASE Fetch(j) \/ Ask(j) \/ Park(j)
  BY <1>0, <1>1 DEF Fetch, Ask, Park, Works, Moves, Delivers
<1>2. ASSUME NEW g, row' = [row EXCEPT ![j].stage = g]
      PROVE  row'[j] = [row[j] EXCEPT !.stage = g] /\ row' = [row EXCEPT ![j] = row'[j]]
  BY <1>0, <1>2
<1>3. CASE Capture(j) \/ Preserve(j) \/ Save(j)
  BY <1>0, <1>2, <1>3 DEF Capture, Preserve, Save, Advance, Works, Moves, Delivers
<1> QED
  BY <1>1, <1>3 DEF Working

LEMMA OutsideMoves ==
  ASSUME TypeOK, Outside
  PROVE  \E j \in Jobs : RowStep(j)
<1>0. row \in [Jobs -> Row] /\ ledger' = ledger /\ worker'.stop = worker.stop
  BY OutsideKeeps DEF TypeOK
<1>1. ASSUME NEW j \in Jobs, Request(j) PROVE RowStep(j)
  <2>1. PICK d \in {0, clock} :
          row' = [row EXCEPT ![j] = [row[j] EXCEPT !.state = "pending", !.created = clock,
                                                   !.described = d]]
    BY <1>1 DEF Request
  <2>2. clock \in Int /\ d \in Int
    BY DEF TypeOK
  <2> QED
    BY <1>0, <1>1, <2>1, <2>2 DEF Request, RowStep, Moves, Waits
<1>2. ASSUME NEW j \in Jobs, Withdraw(j) \/ Relist(j) PROVE RowStep(j)
  <2>1. PICK state \in {"pending", "withdrawn"} : row' = [row EXCEPT ![j].state = state]
    BY <1>2 DEF Withdraw, Relist
  <2>2. row'[j] = [row[j] EXCEPT !.state = state] /\ row' = [row EXCEPT ![j] = row'[j]]
    BY <1>0, <2>1
  <2>3. Unlocked(j) /\ row[j].state \in {"pending", "withdrawn"}
    BY <1>2 DEF Withdraw, Relist
  <2> QED
    BY <1>0, <2>2, <2>3 DEF RowStep, Moves, Waits
<1>3. ASSUME NEW j \in Jobs, OtherClaims(j) PROVE RowStep(j)
  BY <1>0, <1>3, SweepMoves, TakeMoves DEF OtherClaims, RowStep, Holders
<1>4. ASSUME NEW j \in Jobs, OtherFinishes(j) PROVE RowStep(j)
  BY <1>0, <1>4, EndMoves DEF OtherFinishes, RowStep
<1>5. ASSUME NEW j \in Jobs, Expire(j) PROVE RowStep(j)
  BY <1>0, <1>5 DEF Expire, RowStep, Moves, Leaves
<1>6. ASSUME NEW j \in Jobs, Working(j) PROVE RowStep(j)
  BY <1>0, <1>6, WorkMoves DEF RowStep
<1> QED
  BY <1>1, <1>2, <1>3, <1>4, <1>5, <1>6 DEF Outside

LEMMA RowChanges ==
  ASSUME TypeOK, [Next]_vars
  PROVE  UNCHANGED row \/ Cap \/ \E j \in Jobs : RowStep(j)
<1>0. worker \in Process
  BY DEF TypeOK
<1>1. CASE Claim \/ Finish
  <2> DEFINE j == worker.job
  <2>1. /\ j \in Jobs /\ Unlocked(j) /\ ledger' = ledger
        /\ worker' = [worker EXCEPT !.at = "running"] \/ GiveUp
    BY <1>0, <1>1 DEF Claim, Finish, TypeOK, Process, Unlocked
  <2>2. worker'.stop = worker.stop
    BY <1>0, <2>1 DEF GiveUp, Down, Process
  <2>3. \/ UNCHANGED row \/ Takes(j, "rollout") \/ Sweeps(j)
        \/ Ends(j) /\ row[j].holder = "rollout"
    BY <1>1 DEF Claim, Finish
  <2>4. UNCHANGED row \/ RowStep(j)
    BY <2>1, <2>2, <2>3, TakeMoves, SweepMoves, EndMoves DEF RowStep, Holders
  <2> QED
    BY <2>1, <2>4
<1>2. CASE Outside
  BY <1>2, OutsideMoves
<1>3. UNCHANGED row \/ Cap \/ Claim \/ Finish \/ Outside
  BY DEF Next, vars, Initialize, SetEnabled, Start, Poll, ReadLedger, ChooseNothing, Lock,
         Reserve, Permit, Stop, Crash, Tick, SetBack, Choose, Outside
<1> QED
  BY <1>1, <1>2, <1>3

LEMMA CappedRow ==
  ASSUME NEW r \in Row
  PROVE  /\ Capped(r) \in Row /\ Capped(r).capped /\ Capped(r).max = 1
         /\ Capped(r).retry = r.retry /\ Capped(r).state = r.state
         /\ Capped(r).stage = r.stage /\ Capped(r).fetched = r.fetched
         /\ Capped(r).asked = r.asked
BY DEF Capped, Row

LEMMA CapsOne ==
  ASSUME TypeOK, Cap
  PROVE  /\ worker.job \in Jobs /\ row[worker.job] \in Row
         /\ row' = [row EXCEPT ![worker.job] = Capped(row[worker.job])]
         /\ ledger' = ledger /\ worker'.stop = worker.stop
BY DEF Cap, TypeOK, Process

LEMMA RowTyped ==
  ASSUME TypeOK, [Next]_vars
  PROVE  row' \in [Jobs -> Row]
<1>0. row \in [Jobs -> Row]
  BY DEF TypeOK
<1>1. CASE Cap
  BY <1>0, <1>1, CapsOne, CappedRow
<1>2. ASSUME NEW j \in Jobs, RowStep(j) PROVE row' \in [Jobs -> Row]
  <2>1. row'[j] \in Row /\ row' = [row EXCEPT ![j] = row'[j]]
    BY <1>0, <1>2, MoveTyped DEF RowStep
  <2> QED
    BY <1>0, <2>1
<1> QED
  BY <1>0, <1>1, <1>2, RowChanges

(***************************************************************************)
(* Typing, action by action; the rows have theirs.                         *)
(***************************************************************************)
LEMMA LedgerTyped ==
  ASSUME TypeOK,
         \/ \E schema \in {1, 2} : Initialize(schema)
         \/ \E enabled \in BOOLEAN : SetEnabled(enabled)
  PROVE  TypeOK'
<1>1. ASSUME NEW schema \in {1, 2}, Initialize(schema) PROVE TypeOK'
  BY <1>1 DEF TypeOK, Initialize, Ledger
<1>2. ASSUME NEW enabled \in BOOLEAN, SetEnabled(enabled) PROVE TypeOK'
  BY <1>2 DEF TypeOK, SetEnabled, Ledger
<1> QED
  BY <1>1, <1>2

LEMMA DownTyped ==
  /\ NoLedger \in Ledger /\ NoLedger.schema = 0
  /\ Down \in Process /\ Down.at = "down" /\ Down.job = None /\ Down.seen.schema = 0
<1>1. NoLedger \in Ledger /\ NoLedger.schema = 0
  BY DEF NoLedger, Ledger
<1> QED
  BY <1>1 DEF Down, Process

LEMMA GiveUpTyped ==
  ASSUME TypeOK, GiveUp
  PROVE  /\ worker' \in Process
         /\ worker'.at = "polling" /\ worker'.job = None /\ worker'.seen.schema = 0
<1>1. worker.stop \in BOOLEAN
  BY DEF TypeOK, Process
<1>2. worker' = [at |-> "polling", job |-> None, seen |-> NoLedger, now |-> 0,
                 stop |-> worker.stop]
  BY DEF GiveUp, Down
<1> QED
  BY <1>1, <1>2, DownTyped DEF Process

LEMMA GoOnTyped ==
  ASSUME TypeOK, worker.at = "locked", GoOn
  PROVE  /\ worker' \in Process /\ worker'.seen.schema = 0
         /\ worker'.at = "reserved" /\ worker'.job = worker.job /\ worker.job # None
<1>1. worker.stop \in BOOLEAN /\ worker.job \in Jobs
  BY DEF TypeOK, Process
<1>2. worker' = [at |-> "reserved", job |-> worker.job, seen |-> NoLedger, now |-> 0,
                 stop |-> worker.stop]
  BY DEF GoOn, Down
<1> QED
  BY <1>1, <1>2, DownTyped DEF Process

LEMMA PassTyped ==
  ASSUME TypeOK, LiveInv,
         Start \/ Poll \/ ReadLedger \/ ChooseNothing \/ Lock \/ (\E j \in Jobs : Choose(j))
  PROVE  TypeOK'
<1> USE DEF TypeOK
<1>1. CASE Start
  BY <1>1, DownTyped DEF Start, Process
<1>2. CASE Poll
  BY <1>2, DownTyped DEF Poll, Process
<1>3. CASE ReadLedger
  BY <1>3, GiveUpTyped DEF ReadLedger, Process, LiveInv, Initialized
<1>4. CASE ChooseNothing
  BY <1>4, GiveUpTyped, DownTyped DEF ChooseNothing, Process
<1>5. CASE Lock
  <2>1. CASE Pristine(worker.job, worker.seen) /\ ~row[worker.job].capped /\ ~worker.stop
    <3>1. worker' = [at |-> "locked", job |-> worker.job, seen |-> worker.seen, now |-> clock,
                     stop |-> worker.stop]
      BY <1>5, <2>1 DEF Lock, Process
    <3> QED
      BY <1>5, <3>1 DEF Lock, Process
  <2>2. CASE ~(Pristine(worker.job, worker.seen) /\ ~row[worker.job].capped /\ ~worker.stop)
    BY <1>5, <2>2, GiveUpTyped DEF Lock
  <2> QED
    BY <2>1, <2>2
<1>6. ASSUME NEW j \in Jobs, Choose(j) PROVE TypeOK'
  BY <1>6 DEF Choose, Process
<1> QED
  BY <1>1, <1>2, <1>3, <1>4, <1>5, <1>6

LEMMA AdmissionTyped ==
  ASSUME TypeOK, row' \in [Jobs -> Row],
         Reserve \/ Cap \/ Permit \/ Claim \/ Finish \/ Stop \/ Crash
  PROVE  TypeOK'
<1> USE DEF TypeOK
<1>1. CASE Reserve
  <2>1. ledger' \in Ledger
    BY <1>1 DEF Reserve, Spend, Ledger, Reservation, Process
  <2> QED
    <3>1. CASE GoOn
      BY <1>1, <2>1, <3>1, GoOnTyped DEF Reserve
    <3>2. CASE worker' = Down \/ GiveUp
      BY <1>1, <2>1, <3>2, GiveUpTyped, DownTyped DEF Reserve
    <3> QED
      BY <1>1, <3>1, <3>2 DEF Reserve
<1>2. CASE Cap
  BY <1>2 DEF Cap, Process
<1>3. CASE Permit
  BY <1>3, GiveUpTyped DEF Permit, Process
<1>4. CASE Claim \/ Finish
  <2>1. CASE GiveUp
    BY <1>4, <2>1, GiveUpTyped DEF Claim, Finish
  <2>2. CASE worker' = [worker EXCEPT !.at = "running"] /\ worker.at = "permitted"
    BY <1>4, <2>2 DEF Claim, Finish, Process
  <2> QED
    BY <1>4, <2>1, <2>2 DEF Claim, Finish
<1>5. CASE Stop
  BY <1>5 DEF Stop, Process
<1>6. CASE Crash
  BY <1>6, DownTyped DEF Crash, Process
<1> QED
  BY <1>1, <1>2, <1>3, <1>4, <1>5, <1>6

LEMMA RestTyped ==
  ASSUME TypeOK, row' \in [Jobs -> Row], Tick \/ SetBack \/ Outside
  PROVE  TypeOK'
<1>1. CASE Tick \/ SetBack
  BY <1>1 DEF TypeOK, Tick, SetBack
<1>2. CASE Outside
  BY <1>2, OutsideKeeps DEF TypeOK
<1> QED
  BY <1>1, <1>2

LEMMA NextTyped ==
  ASSUME TypeOK, LiveInv, [Next]_vars
  PROVE  TypeOK'
<1>1. CASE UNCHANGED vars
  BY <1>1 DEF vars, TypeOK
<1> QED
  BY <1>1, RowTyped, LedgerTyped, PassTyped, AdmissionTyped, RestTyped DEF Next, Outside

(***************************************************************************)
(* What the ledger keeps.  Only Spend adds a reservation.                  *)
(***************************************************************************)
\* A ledger only grows, and no step but Initialize changes its schema or its cutoff.
LEMMA LedgerGrows ==
  ASSUME TypeOK, LiveInv, [Next]_vars, Initialized
  PROVE  /\ Initialized'
         /\ ledger.spent \subseteq ledger'.spent
         /\ ledger'.schema = ledger.schema /\ ledger'.cutoff = ledger.cutoff
         /\ ledger'.spent # ledger.spent => Reserve /\ MayReserve /\ Spend
<1> USE DEF Initialized
<1>0. ledger \in Ledger
  BY DEF TypeOK
<1>1. CASE UNCHANGED ledger
  BY <1>1
<1>2. ASSUME NEW enabled \in BOOLEAN, SetEnabled(enabled)
      PROVE  /\ ledger'.schema = ledger.schema /\ ledger'.cutoff = ledger.cutoff
             /\ ledger'.spent = ledger.spent
  BY <1>0, <1>2 DEF SetEnabled, Ledger
<1>3. CASE Reserve /\ MayReserve /\ Spend
  BY <1>0, <1>3 DEF Spend, Ledger
<1>4. \/ UNCHANGED ledger
      \/ \E enabled \in BOOLEAN : SetEnabled(enabled)
      \/ Reserve /\ MayReserve /\ Spend
  BY OutsideKeeps DEF Next, vars, Initialize, Start, Poll, ReadLedger, ChooseNothing, Lock, Reserve, Cap,
         Permit, Claim, Finish, Stop, Crash, Tick, SetBack, Choose, Outside
<1> QED
  BY <1>1, <1>2, <1>3, <1>4

\* A reservation no earlier than the rest may overfill only the window it ends.
LEMMA NewReservation ==
  ASSUME NEW spent \in SUBSET Reservation, IsFiniteSet(spent),
         NEW n \in Reservation, n \notin spent,
         \A r \in spent : r.at <= n.at,
         \A r \in spent : Cardinality(Until(spent, r.at)) <= MaxJobs,
         Cardinality(Until(spent, n.at)) < MaxJobs,
         NEW r \in spent \cup {n}
  PROVE  Cardinality(Until(spent \cup {n}, r.at)) <= MaxJobs
<1>1. IsFiniteSet(Until(spent, n.at)) /\ Cardinality(Until(spent, n.at)) \in Nat
  BY FS_Subset, FS_CardinalityType DEF Until
<1>2. CASE r.at = n.at
  <2>1. Until(spent \cup {n}, r.at) = Until(spent, n.at) \cup {n} /\ n \notin Until(spent, n.at)
    <3>1. n.at \in n.at - Window + 1 .. n.at
      BY DEF Reservation
    <3>2. n \notin Until(spent, n.at)
      BY DEF Until
    <3>3. ASSUME NEW s PROVE s \in Until(spent \cup {n}, r.at) <=> s \in Until(spent, n.at) \cup {n}
      BY <1>2, <3>1 DEF Until
    <3> QED
      BY <3>2, <3>3
  <2>2. Cardinality(Until(spent, n.at) \cup {n}) = Cardinality(Until(spent, n.at)) + 1
    BY <1>1, <2>1, FS_AddElement
  <2>3. Cardinality(Until(spent, n.at)) + 1 <= MaxJobs
    BY <1>1
  <2> QED
    BY <2>1, <2>2, <2>3
<1>3. CASE r.at # n.at
  <2>1. r \in spent /\ r.at < n.at
    BY <1>3 DEF Reservation
  <2>2. Until(spent \cup {n}, r.at) = Until(spent, r.at)
    BY <2>1 DEF Until, Reservation
  <2> QED
    BY <2>1, <2>2
<1> QED
  BY <1>2, <1>3

\* The window that the guard counts is the one of the new reservation.
LEMMA RecentIsUntil ==
  ASSUME ledger \in Ledger, NEW t \in Int
  PROVE  Recent(ledger, t) = Until(ledger.spent, t)
BY DEF Recent, Until, Ledger, Reservation

LEMMA LedgerStep ==
  ASSUME IInv, [Next]_vars
  PROVE  LedgerInv'
<1> USE DEF IInv
<1>0. /\ ledger \in Ledger /\ ledger' \in Ledger
      /\ ledger.spent \in SUBSET Reservation /\ ledger'.spent \in SUBSET Reservation
  BY NextTyped DEF TypeOK, Ledger
<1>1. CASE ~Initialized
  <2>1. ledger.spent = {}
    BY <1>1 DEF LedgerInv
  <2>2. ledger' = ledger \/ (\E schema \in {1, 2} : Initialize(schema))
    BY <1>1, OutsideKeeps DEF LiveInv, Next, vars, SetEnabled, Start, Poll, ReadLedger, ChooseNothing, Lock,
           Reserve, Cap, Permit, Claim, Finish, Stop, Crash, Tick, SetBack, Choose, Outside
  <2>3. ledger'.spent = {}
    BY <2>1, <2>2 DEF Initialize
  <2> QED
    BY <1>0, <2>3, FS_EmptySet DEF LedgerInv
<1>2. CASE Initialized /\ ledger'.spent = ledger.spent
  <2>1. Initialized' /\ ledger'.schema = ledger.schema /\ ledger'.cutoff = ledger.cutoff
    BY <1>2, LedgerGrows
  <2> QED
    BY <1>2, <2>1 DEF LedgerInv, Until
<1>3. CASE Initialized /\ ledger'.spent # ledger.spent
  <2> DEFINE n == [job |-> worker.job, at |-> worker.now]
  <2>1. Reserve /\ MayReserve /\ Spend
    BY <1>3, LedgerGrows
  <2>2. /\ Initialized'
        /\ ledger'.schema = ledger.schema /\ ledger'.cutoff = ledger.cutoff
        /\ ledger'.spent = ledger.spent \cup {n}
    BY <1>0, <1>3, <2>1, LedgerGrows DEF Spend, Ledger
  <2>3. n \in Reservation /\ n \notin ledger.spent /\ n.job = worker.job /\ n.at = worker.now
    BY <2>1 DEF Reserve, MayReserve, SpentJobs, TypeOK, Process, Reservation
  <2>4. \A r, s \in ledger'.spent : r.job = s.job => r = s
    BY <2>1, <2>2, <2>3 DEF MayReserve, SpentJobs, LedgerInv
  <2>5. /\ IsFiniteSet(ledger.spent) /\ IsFiniteSet(ledger'.spent)
        /\ Cardinality(ledger.spent) \in Nat
        /\ Cardinality(ledger'.spent) = Cardinality(ledger.spent) + 1
    BY <2>2, <2>3, FS_AddElement, FS_CardinalityType DEF LedgerInv
  <2>6. Open(ledger, worker.now) /\ ~Blocked(ledger, worker.now)
    BY <1>3, <2>1 DEF Reserve, MayReserve
  <2> HIDE DEF n
  <2>7. CASE ledger.schema = 1
    <3>1. Cardinality(ledger'.spent) <= MaxJobs /\ n.at < ledger.cutoff + Window
      BY <2>3, <2>5, <2>6, <2>7 DEF Open
    <3>2. \A r \in ledger'.spent : r.at < ledger'.cutoff + Window
      BY <2>2, <2>7, <3>1 DEF LedgerInv
    <3>3. ASSUME NEW r \in ledger'.spent
          PROVE  Cardinality(Until(ledger'.spent, r.at)) <= MaxJobs
      <4>1. Until(ledger'.spent, r.at) \subseteq ledger'.spent
        BY DEF Until
      <4> QED
        BY <2>5, <3>1, <4>1, FS_Subset, FS_CardinalityType
    <3> QED
      BY <2>2, <2>4, <2>5, <2>7, <3>1, <3>2, <3>3 DEF LedgerInv, Until
  <2>8. CASE ledger.schema = 2
    <3>1. \A r \in ledger.spent : r.at <= n.at
      BY <1>0, <2>3, <2>6, <2>8 DEF Blocked, Reservation
    <3>2. Cardinality(ledger'.spent) <= Capacity
      BY <2>5, <2>6, <2>8 DEF Blocked
    <3>3. Cardinality(Until(ledger.spent, n.at)) < MaxJobs
      BY <1>0, <2>3, <2>6, <2>8, RecentIsUntil DEF Open, Reservation
    <3>4. ASSUME NEW r \in ledger'.spent
          PROVE  Cardinality(Until(ledger'.spent, r.at)) <= MaxJobs
      BY <1>0, <2>2, <2>3, <2>5, <3>1, <3>3, NewReservation DEF LedgerInv
    <3> QED
      BY <2>2, <2>4, <2>5, <2>8, <3>2, <3>4 DEF LedgerInv, Until
  <2>9. ledger.schema \in 1 .. 2
    BY <1>0, <1>3 DEF Ledger, Initialized
  <2> QED
    BY <2>7, <2>8, <2>9
<1> QED
  BY <1>1, <1>2, <1>3

(***************************************************************************)
(* The process, its row and the marks.                                     *)
(***************************************************************************)
LEMMA LiveStep ==
  ASSUME IInv, [Next]_vars
  PROVE  LiveInv'
<1> USE DEF IInv
<1>1. CASE Initialized
  BY <1>1, LedgerGrows DEF LiveInv
<1>2. CASE ~Initialized
  BY <1>2, OutsideKeeps DEF LiveInv, Next, vars, Initialize, SetEnabled, Start, Poll, ReadLedger, ChooseNothing,
         Lock, Reserve, Cap, Permit, Claim, Finish, Stop, Crash, Tick, SetBack, Choose, Outside
<1> QED
  BY <1>1, <1>2

\* A reservation, once made, stays.
LEMMA SpentStays ==
  ASSUME IInv, [Next]_vars, NEW j \in Jobs, Spent(j)
  PROVE  Spent(j)'
<1>1. Initialized
  BY DEF IInv, LedgerInv, Spent
<1> QED
  BY <1>1, LedgerGrows DEF IInv, Spent

LEMMA PaidStep ==
  ASSUME IInv, [Next]_vars
  PROVE  PaidInv' /\ SoundInv'
<1> USE DEF IInv
<1>0. row \in [Jobs -> Row] /\ SoundInv /\ TypeOK
  BY DEF TypeOK
<1>1. CASE UNCHANGED row
  BY <1>1, SpentStays DEF PaidInv, SoundInv
<1>2. CASE Cap
  <2>1. /\ worker.job \in Jobs /\ row[worker.job] \in Row /\ Spent(worker.job)
        /\ row[worker.job].state = "pending"
        /\ row' = [row EXCEPT ![worker.job] = Capped(row[worker.job])]
    BY <1>2, CapsOne DEF Cap, PassInv
  <2>2. Sound(Capped(row[worker.job])) /\ row[worker.job].retry = 0
    BY <1>0, <2>1, CappedRow DEF SoundInv, Sound, Untouched, OneDelivery
  <2> QED
    BY <1>0, <2>1, <2>2, CappedRow, SpentStays DEF PaidInv, SoundInv
<1>3. ASSUME NEW j \in Jobs, RowStep(j) PROVE PaidInv' /\ SoundInv'
  <2>1. row' = [row EXCEPT ![j] = row'[j]] /\ Moves(row[j], row'[j]) /\ row[j] \in Row
    BY <1>0, <1>3 DEF RowStep
  <2>2. Sound(row'[j]) /\ row'[j] \in Row
    BY <1>0, <2>1, MoveSound, MoveTyped DEF SoundInv
  <2>3. \A k \in Jobs : k # j => row'[k] = row[k]
    BY <1>0, <2>1
  <2>4. row'[j].capped => row[j].capped /\ row'[j].max = 1 /\ row'[j].retry <= 1
    BY <2>1, <2>2, MoveCounts DEF Sound, OneDelivery
  <2>5. SoundInv'
    BY <1>0, <2>2, <2>3 DEF SoundInv
  <2>6. PaidInv'
    BY <2>3, <2>4, SpentStays DEF PaidInv
  <2> QED
    BY <2>5, <2>6
<1> QED
  BY <1>0, <1>1, <1>2, <1>3, RowChanges

\* The lock: nobody changes the row while a pass has it.
LEMMA HeldRow ==
  ASSUME IInv, [Next]_vars, worker.at \in {"locked", "reserved"}, worker' = worker
  PROVE  row'[worker.job] = row[worker.job]
<1>0. /\ TypeOK /\ row \in [Jobs -> Row] /\ worker.job \in Jobs
      /\ row[worker.job].state = "pending" /\ ~Unlocked(worker.job)
  BY DEF IInv, TypeOK, Process, PassInv, Unlocked
<1>1. ASSUME NEW j \in Jobs, RowStep(j) PROVE row'[worker.job] = row[worker.job]
  BY <1>0, <1>1 DEF RowStep
<1>2. ~Cap
  <2>1. worker \in Process
    BY <1>0 DEF TypeOK
  <2> QED
    BY <2>1 DEF Cap, Process
<1> QED
  BY <1>0, <1>1, <1>2, RowChanges

\* No step takes the mark away.
LEMMA CappedStays ==
  ASSUME IInv, [Next]_vars, NEW j \in Jobs, row[j].capped
  PROVE  row'[j].capped
<1>0. TypeOK /\ row \in [Jobs -> Row]
  BY DEF IInv, TypeOK
<1>1. CASE Cap
  BY <1>0, <1>1, CapsOne, CappedRow
<1>2. ASSUME NEW k \in Jobs, RowStep(k) PROVE row'[j].capped
  BY <1>0, <1>2, MoveCounts DEF RowStep
<1> QED
  BY <1>0, <1>1, <1>2, RowChanges

LEMMA PassStep ==
  ASSUME IInv, [Next]_vars
  PROVE  PassInv'
<1> USE DEF IInv
<1>0. row \in [Jobs -> Row] /\ worker \in Process /\ worker' \in Process
  BY NextTyped DEF TypeOK
<1>1. CASE worker' = worker
  <2>1. ASSUME worker.at \in {"locked", "reserved"} PROVE row'[worker.job].state = "pending"
    <3>1. worker.job \in Jobs
      BY <1>0, <2>1 DEF TypeOK, Process
    <3>2. row'[worker.job] = row[worker.job]
      BY <1>1, <2>1, <3>1, HeldRow
    <3> QED
      BY <2>1, <3>2 DEF PassInv
  <2>2. ASSUME worker.at = "reserved" PROVE Spent(worker.job)'
    <3>1. worker.job \in Jobs /\ Spent(worker.job)
      BY <1>0, <2>2 DEF TypeOK, Process, PassInv
    <3> QED
      BY <1>1, <3>1, SpentStays DEF Spent
  <2>3. ASSUME worker.at \in {"capped", "permitted"} PROVE row'[worker.job].capped
    BY <1>0, <1>1, <2>3, CappedStays DEF TypeOK, Process, PassInv
  <2> QED
    BY <1>1, <2>1, <2>2, <2>3 DEF PassInv
<1>2. CASE Lock
  <2>1. CASE worker' = [worker EXCEPT !.at = "locked", !.now = clock]
    BY <1>0, <1>2, <2>1, GiveUpTyped DEF Lock, Pristine, PassInv, Process
  <2>2. CASE GiveUp
    BY <2>2, GiveUpTyped DEF PassInv
  <2> QED
    BY <1>2, <2>1, <2>2 DEF Lock
<1>3. CASE Reserve
  <2>1. CASE Spend /\ GoOn
    <3>1. /\ worker'.at = "reserved" /\ worker'.job = worker.job
          /\ row' = row /\ row[worker.job].state = "pending"
      BY <1>3, <2>1, GoOnTyped DEF Reserve, PassInv
    <3>2. [job |-> worker.job, at |-> worker.now] \in ledger'.spent
      BY <2>1 DEF Spend, TypeOK, Ledger
    <3>3. \E r \in ledger'.spent : r.job = worker'.job
      BY <3>1, <3>2
    <3> QED
      BY <3>1, <3>3 DEF PassInv, Spent
  <2>2. CASE worker' = Down \/ GiveUp
    BY <2>2, GiveUpTyped, DownTyped DEF PassInv
  <2> QED
    BY <1>3, <2>1, <2>2 DEF Reserve
<1>4. CASE Cap
  <2>1. /\ worker'.at = "capped" /\ worker'.job = worker.job /\ worker.job \in Jobs
        /\ row' = [row EXCEPT ![worker.job] = Capped(row[worker.job])]
    BY <1>0, <1>4 DEF Cap, TypeOK, Process
  <2> QED
    BY <1>0, <2>1 DEF Capped, PassInv, Row
<1>5. CASE Permit
  <2>1. CASE GiveUp
    BY <2>1, GiveUpTyped DEF PassInv
  <2>2. CASE ~GiveUp
    <3>1. worker'.at = "permitted" /\ worker'.job = worker.job /\ row' = row /\ row[worker.job].capped
      BY <1>0, <1>5, <2>2 DEF Permit, Process
    <3> QED
      BY <3>1 DEF PassInv
  <2> QED
    BY <2>1, <2>2
<1>6. CASE Stop
  <2>1. worker'.at = worker.at /\ worker'.job = worker.job /\ row' = row /\ ledger' = ledger
    BY <1>0, <1>6 DEF Stop, Process
  <2> QED
    BY <2>1 DEF PassInv, Spent
<1>7. CASE worker'.at \notin {"locked", "reserved", "capped", "permitted"}
  BY <1>7 DEF PassInv
<1>8. \/ worker' = worker \/ Lock \/ Reserve \/ Cap \/ Permit \/ Stop
      \/ worker'.at \notin {"locked", "reserved", "capped", "permitted"}
  <2>1. ASSUME Start \/ Poll \/ ReadLedger \/ ChooseNothing \/ Claim \/ Finish \/ Crash
        PROVE  worker'.at \notin {"locked", "reserved", "capped", "permitted"}
    BY <1>0, <2>1, GiveUpTyped, DownTyped DEF Start, Poll, ReadLedger, ChooseNothing, Claim,
           Finish, Crash, Down, Process
  <2>2. ASSUME NEW j \in Jobs, Choose(j)
        PROVE  worker'.at \notin {"locked", "reserved", "capped", "permitted"}
    BY <1>0, <2>2 DEF Choose, Process
  <2>3. \/ worker' = worker \/ Lock \/ Reserve \/ Cap \/ Permit \/ Stop
        \/ Start \/ Poll \/ ReadLedger \/ ChooseNothing \/ Claim \/ Finish \/ Crash
        \/ \E j \in Jobs : Choose(j)
    BY OutsideKeeps DEF Next, vars, Initialize, SetEnabled, Tick, SetBack, Outside
  <2> QED
    BY <2>1, <2>2, <2>3
<1> QED
  BY <1>1, <1>2, <1>3, <1>4, <1>5, <1>6, <1>7, <1>8

LEMMA Step == IInv /\ [Next]_vars => IInv'
BY NextTyped, LiveStep, PassStep, PaidStep, LedgerStep DEF IInv

\* The rollout's state keeps its shape, and the ledger's snapshot and the chosen job are
\* there exactly while a pass needs them.
THEOREM TypeCorrect == Spec => []TypeOK
<1>1. IInv => TypeOK
  BY DEF IInv
<1> QED
  BY <1>1, InitInv, Step, PTL DEF Spec

\* The rollout's mark on a row is covered by a reservation in the file and by the cap of
\* one attempt, wherever the worker died (new_article_worker.py:296-333).
THEOREM MarksPaid == Spec => []MarkIsPaidFor
<1>1. IInv => MarkIsPaidFor
  <2> SUFFICES ASSUME IInv, NEW j \in Jobs, row[j].capped
               PROVE  j \in SpentJobs(ledger) /\ row[j].max = 1 /\ row[j].retry <= 1
    BY DEF MarkIsPaidFor
  <2> QED
    BY DEF IInv, PaidInv, Spent, SpentJobs
<1> QED
  BY <1>1, InitInv, Step, PTL DEF Spec

\* No window of the ledger's life holds more reservations than the quota
\* (new_article_worker.py:239-256).
THEOREM QuotaIsKept == Spec => []QuotaKept
<1>1. IInv => QuotaKept
  BY DEF IInv, LedgerInv, QuotaKept, Until, TypeOK, Ledger, Initialized
<1> QED
  BY <1>1, InitInv, Step, PTL DEF Spec

\* The source of a marked job is requested once and the model asked once, however many
\* workers claim it, resume it, park it or die with it (new_article_worker.py:3-4,
\* source_job_persistence.py:188-265, 428-462).
THEOREM DeliversOnce == Spec => []DeliveredOnce
<1>1. IInv => DeliveredOnce
  BY DEF IInv, SoundInv, Sound, OneDelivery, DeliveredOnce
<1> QED
  BY <1>1, InitInv, Step, PTL DEF Spec

\* Once the rollout is disabled, or the worker told to stop, no further quota is spent
\* (new_article_worker.py:222-226, 248-256).
THEOREM DisabledIsFinal == Spec => DisabledSpendsNothing
<1>1. IInv /\ [Next]_vars =>
        [~ledger.enabled \/ worker.stop => ledger'.spent = ledger.spent]_vars
  <2> SUFFICES ASSUME IInv, [Next]_vars, ledger'.spent # ledger.spent
               PROVE  ledger.enabled /\ ~worker.stop
    OBVIOUS
  <2>1. CASE Initialized
    <3>1. MayReserve
      BY <2>1, LedgerGrows DEF IInv
    <3> QED
      BY <3>1 DEF MayReserve, Open
  <2>2. CASE ~Initialized
    <3>1. ledger.spent = {}
      BY <2>2 DEF IInv, LedgerInv
    <3>2. ledger' = ledger \/ (\E schema \in {1, 2} : Initialize(schema))
      BY <2>2, OutsideKeeps DEF IInv, LiveInv, Next, vars, SetEnabled, Start, Poll, ReadLedger, ChooseNothing,
             Lock, Reserve, Cap, Permit, Claim, Finish, Stop, Crash, Tick, SetBack, Choose, Outside
    <3> QED
      BY <3>1, <3>2 DEF Initialize
  <2> QED
    BY <2>1, <2>2
<1> QED
  BY <1>1, InitInv, Step, PTL DEF Spec, DisabledSpendsNothing

(***************************************************************************)
(* The rollout implements MeteredAdmission: a step admits, marks or runs   *)
(* one job, or turns the rollout on or off, or is no matter to the meter.  *)
(***************************************************************************)
On == ledger.enabled /\ ~worker.stop
Licences == [j \in Jobs |-> LicenceOf(row[j])]

Meters == [Metering!AdmissionNext]_<<On, ledger.spent, Licences>>

\* An open ledger has room in the window that ends now, whichever its schema.
LEMMA OpenHasRoom ==
  ASSUME IInv, Initialized, NEW t \in Int, Open(ledger, t)
  PROVE  Cardinality(Until(ledger.spent, t)) < MaxJobs
<1>0. ledger \in Ledger /\ IsFiniteSet(ledger.spent)
  BY DEF IInv, TypeOK, LedgerInv
<1>1. CASE ledger.schema = 2
  BY <1>0, <1>1, RecentIsUntil DEF Open
<1>2. CASE ledger.schema # 2
  <2>1. Cardinality(ledger.spent) < MaxJobs
    BY <1>2 DEF Open
  <2>2. /\ IsFiniteSet(Until(ledger.spent, t))
        /\ Cardinality(Until(ledger.spent, t)) <= Cardinality(ledger.spent)
    <3>1. Until(ledger.spent, t) \subseteq ledger.spent
      BY DEF Until
    <3> QED
      BY <1>0, <3>1, FS_Subset
  <2>3. Cardinality(Until(ledger.spent, t)) \in Nat /\ Cardinality(ledger.spent) \in Nat
    BY <1>0, <2>2, FS_CardinalityType
  <2> HIDE DEF Until
  <2> QED
    BY <2>1, <2>2, <2>3
<1> QED
  BY <1>1, <1>2

LEMMA SameCount ==
  ASSUME NEW S
  PROVE  Metering!Cardinality(S) = Cardinality(S)
BY DEF Metering!Cardinality, Cardinality, Metering!IsFiniteSet, IsFiniteSet

LEMMA SameLicences ==
  ASSUME \A j \in Jobs : row'[j].capped = row[j].capped /\ row'[j].retry = row[j].retry
  PROVE  Licences' = Licences
BY DEF Licences, LicenceOf

\* One job's licence changes, to what its admission allows.
LEMMA LicenceMeters ==
  ASSUME TypeOK, NEW j \in Jobs, NEW r \in Row, row' = [row EXCEPT ![j] = r],
         UNCHANGED ledger, worker'.stop = worker.stop,
         \/ LicenceOf(r) = LicenceOf(row[j])
         \/ /\ Spent(j)
            /\ \/ LicenceOf(row[j]) = "none" /\ LicenceOf(r) = "marked"
               \/ LicenceOf(row[j]) = "marked" /\ LicenceOf(r) = "used"
  PROVE  Meters
<1>1. row'[j] = r /\ \A k \in Jobs \ {j} : row'[k] = row[k]
  BY DEF TypeOK
<1>2. Licences' = [Licences EXCEPT ![j] = LicenceOf(r)]
  <2>1. Licences' = [k \in Jobs |-> LicenceOf(row'[k])]
    BY DEF Licences, LicenceOf
  <2>2. \A k \in Jobs : LicenceOf(row'[k]) = IF k = j THEN LicenceOf(r) ELSE LicenceOf(row[k])
    BY <1>1
  <2> QED
    BY <2>1, <2>2 DEF Licences
<1>3. On' = On
  BY DEF On
<1>4. Licences[j] = LicenceOf(row[j])
  BY DEF Licences
<1>5. CASE LicenceOf(r) = LicenceOf(row[j])
  <2>1. Licences = [Licences EXCEPT ![j] = Licences[j]]
    BY DEF Licences
  <2>2. Licences' = Licences
    BY <1>2, <1>4, <1>5, <2>1
  <2> QED
    BY <1>3, <2>2 DEF Meters
<1>6. CASE /\ Spent(j)
           /\ \/ Licences[j] = "none" /\ LicenceOf(r) = "marked"
              \/ Licences[j] = "marked" /\ LicenceOf(r) = "used"
  <2>1. Metering!Proceed(j)
    BY <1>2, <1>3, <1>6 DEF Metering!Proceed, Spent, On, Licences
  <2> QED
    BY <2>1 DEF Meters, Metering!AdmissionNext
<1> QED
  BY <1>4, <1>5, <1>6

LEMMA CapMeters == IInv /\ Cap => Meters
<1> SUFFICES ASSUME IInv, Cap PROVE Meters
  OBVIOUS
<1> DEFINE j == worker.job
<1>1. /\ j \in Jobs /\ row[j] \in Row /\ Spent(j) /\ row[j].retry = 0
      /\ ledger' = ledger /\ row' = [row EXCEPT ![j] = Capped(row[j])]
      /\ worker'.stop = worker.stop
  BY CapsOne DEF Cap, IInv, PassInv, SoundInv, Sound, Untouched
<1>2. LicenceOf(Capped(row[j])) = "marked" /\ LicenceOf(row[j]) \in {"none", "marked"}
  BY <1>1, CappedRow DEF LicenceOf
<1> HIDE DEF j
<1> QED
  BY <1>1, <1>2, CappedRow, LicenceMeters DEF IInv

\* A resume leaves the licence as it is, the general claim uses it.
LEMMA MoveMeters ==
  ASSUME IInv, NEW j \in Jobs, RowStep(j)
  PROVE  Meters
<1>1. /\ TypeOK /\ row[j] \in Row /\ Moves(row[j], row'[j])
      /\ row' = [row EXCEPT ![j] = row'[j]]
      /\ ledger' = ledger /\ worker'.stop = worker.stop
  BY DEF IInv, TypeOK, RowStep
<1>2. /\ row'[j] \in Row /\ row'[j].capped = row[j].capped
      /\ \/ row'[j].retry = row[j].retry
         \/ row[j].retry < row[j].max /\ row'[j].retry = row[j].retry + 1
  BY <1>1, MoveTyped, MoveCounts
<1>3. row[j].capped => Spent(j) /\ row[j].max = 1
  BY DEF IInv, PaidInv
<1>4. \/ LicenceOf(row'[j]) = LicenceOf(row[j])
      \/ /\ Spent(j)
         /\ LicenceOf(row[j]) = "marked" /\ LicenceOf(row'[j]) = "used"
  BY <1>1, <1>2, <1>3 DEF LicenceOf, Row
<1> QED
  BY <1>1, <1>2, <1>4, LicenceMeters

LEMMA SpendMeters ==
  ASSUME IInv, Initialized, Reserve, MayReserve, Spend
  PROVE  Meters
<1> DEFINE n == [job |-> worker.job, at |-> worker.now]
<1>0. ledger \in Ledger /\ worker \in Process /\ worker.at = "locked" /\ worker.job \in Jobs
  BY DEF IInv, TypeOK, Process, Reserve
<1>1. worker.now \in Int /\ n.job = worker.job /\ n.at = worker.now
  BY <1>0 DEF Process
<1>2. ledger.enabled /\ ~worker.stop /\ Open(ledger, worker.now)
      /\ \A b \in ledger.spent : b.job # worker.job
  BY DEF MayReserve, Open, SpentJobs
<1>3. ledger'.spent = ledger.spent \cup {n} /\ ledger'.enabled = ledger.enabled
  BY <1>0 DEF Spend, Ledger
<1>4. row' = row /\ worker'.stop = worker.stop
  <2>1. row' = row /\ (worker' = Down \/ GoOn \/ GiveUp)
    BY DEF Reserve
  <2>2. ~Blocked(ledger, worker.now) \/ ledger' = ledger
    BY <1>2 DEF Reserve
  <2>3. ledger' # ledger
    BY <1>1, <1>2, <1>3
  <2> QED
    BY <1>2, <2>1, <2>2, <2>3 DEF Reserve, GoOn, Down
<1> HIDE DEF n
<1>5. Cardinality(Until(ledger.spent, n.at)) < MaxJobs
  BY <1>1, <1>2, OpenHasRoom
<1>6. Metering!Room(n)
  BY <1>5, SameCount DEF Metering!Room, Until
<1>7. n \in ledger'.spent \ ledger.spent
  BY <1>1, <1>2, <1>3
<1>8. Metering!Admit
  BY <1>1, <1>2, <1>3, <1>4, <1>6, <1>7 DEF Metering!Admit, Licences
<1> QED
  BY <1>8 DEF Meters, Metering!AdmissionNext

LEMMA QuietMeters ==
  ASSUME ledger'.spent = ledger.spent, Licences' = Licences
  PROVE  Meters
<1>1. CASE On' = On
  BY <1>1 DEF Meters
<1>2. CASE On' # On
  <2>1. On \in BOOLEAN /\ On' \in BOOLEAN
    BY DEF On
  <2>2. On' = ~On
    BY <1>2, <2>1
  <2>3. Metering!Switch
    BY <2>2 DEF Metering!Switch, On, Licences
  <2> QED
    BY <2>3 DEF Meters, Metering!AdmissionNext
<1> QED
  BY <1>1, <1>2

LEMMA StepMeters == IInv /\ [Next]_vars => Meters
<1> SUFFICES ASSUME IInv, [Next]_vars PROVE Meters
  OBVIOUS
<1>1. CASE Cap
  BY <1>1, CapMeters
<1>2. ASSUME NEW k \in Jobs, RowStep(k) PROVE Meters
  BY <1>2, MoveMeters
<1>3. TypeOK
  BY DEF IInv
<1>4. CASE ledger'.spent # ledger.spent
  <2>1. Initialized
    <3> SUFFICES ASSUME ~Initialized PROVE FALSE
      OBVIOUS
    <3>1. ledger.spent = {}
      BY DEF IInv, LedgerInv
    <3>2. ledger' = ledger \/ (\E schema \in {1, 2} : Initialize(schema))
      BY OutsideKeeps DEF IInv, LiveInv, Next, vars, SetEnabled, Start, Poll, ReadLedger, ChooseNothing, Lock,
             Reserve, Cap, Permit, Claim, Finish, Stop, Crash, Tick, SetBack, Choose, Outside
    <3> QED
      BY <1>4, <3>1, <3>2 DEF Initialize
  <2> QED
    BY <1>4, <2>1, LedgerGrows, SpendMeters DEF IInv
<1>5. CASE UNCHANGED row /\ ledger'.spent = ledger.spent
  <2>1. Licences' = Licences
    BY <1>5, SameLicences
  <2> QED
    BY <1>5, <2>1, QuietMeters
<1> QED
  BY <1>1, <1>2, <1>3, <1>4, <1>5, RowChanges

\* File, rows and process together admit each job once, within the quota and only while
\* the rollout is on, mark it after that, and let a marked job have one attempt, by whichever
\* worker and wherever one died (new_article_worker.py:3-4, 239-279, 282-363).
THEOREM AdmitsJobsOnce == Spec => AdmitsOnce
<1>1. Init => Metering!Off
  BY DEF Init, Metering!Off, NoLedger, Down, LicenceOf
<1>2. IInv /\ [Next]_vars =>
        [Metering!AdmissionNext]_<<ledger.enabled /\ ~worker.stop, ledger.spent,
                                   [j \in Jobs |-> LicenceOf(row[j])]>>
  BY StepMeters DEF Meters, On, Licences
<1> QED
  BY <1>1, <1>2, InitInv, Step, PTL DEF Spec, AdmitsOnce, Metering!Promise
=============================================================================
