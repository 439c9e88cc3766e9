# A TLA+ development of SatZone

SatZone is a learning platform: a FastAPI application over PostgreSQL (async
SQLAlchemy) and Redis, which sells courses and programs through Payme and serves
lessons, quizzes and HLS video. This directory models the parts of it in which
several requests meet on the same rows, checks the models with TLC on small
instances, and proves, with TLAPS, that what they keep they keep at every size.

Contents: [the system](#the-system), [how the code is modelled](#how-the-code-is-modelled),
[Checkout](#checkout), [Purchase](#purchase-what-checkout-implements), [Learning](#learning),
[the other modules](#the-other-modules), [the runs](#the-runs),
[what the code does not keep](#what-the-code-does-not-keep),
[what is proved](#what-is-proved), [not modelled](#not-modelled), [the plan](#the-plan).

## The system

Every HTTP request gets a database session of its own (`db/session.py`,
`get_session`), reads rows into it, awaits whatever it awaits, writes, and
commits once, at the end or explicitly in the service; an exception rolls the
session back. The process is one event loop (several with more workers), so any
`await` lets another request run. PostgreSQL is used at READ COMMITTED, no row
carries a version number, and `SELECT ... FOR UPDATE` is not used: what a handler
loaded may be stale when it writes. Only unique constraints, CHECK constraints
and conditional UPDATEs (`promocode_service.try_reserve`, `release`) guard
against that. These are the parts, with the state each keeps, what it does, whom
it meets, and what makes it correct.

| Part | State | Operations | Meets | Hard | Correct when | Module |
| --- | --- | --- | --- | --- | --- | --- |
| Checkout and Payme callback (`payment_service`) | `orders`, `transactions` | create, cancel, pay by card; Create-, Perform-, CancelTransaction | promocodes, enrollment, Payme (retries, reorders) | stale order rows, two payments of one order, retries, a grant that collides | an order is paid once, paid orders were performed and granted, tables agree | Checkout, Purchase |
| Promocodes (`promocode_service`) | `promocodes` | issue, revoke, find, reserve, release | checkout | reserve and release computed from stale reads | `0 <= uses_count <= max_uses`; no reservation leaks; single use | Checkout |
| Grant (`enrollment_service.enroll`, `program_service.enroll_in_program`) | `enrollments`, `program_enrollments` | enroll | checkout, free enrollment, publication | unique constraint raised mid-payment | a program brings its courses | Checkout |
| Card-on-file (`payment_service`, `payme_client`) | `payment_methods` | add, verify, default, delete | Payme, checkout | two cards made the default at once | one default card | Cards |
| Sessions (`auth_service`, `account.py`) | `refresh_tokens`, `password_resets`, `users` | login, refresh, logout, reset, change | each other | a refresh in flight while tokens are revoked | a token is rotated once; ended sessions end | Sessions |
| Registration, Google (`auth_service`, `google_oauth_service`) | `pending_registrations`, `users` | register, resend, verify, sign in | each other | overwriting rows another call has read | an account has the password its token stands for | Registration |
| Phone codes (`auth_service`, `internal.py`) | two Redis keys per code, `users.phone_number` | issue, redeem | the Telegram bot | two keys, no transaction over both | one live code per phone | PhoneCodes |
| Lesson progress, certificates (`enrollment_service`) | `lesson_progress`, `enrollments`, `certificates` | progress update, recompute, certify | authoring (lessons come and go) | snapshots that miss each other's lesson | a finished course is marked and certified once | Learning |
| Section quizzes (`assessment_service`) | `assessments` | create, update, delete, gate, status | authors, learners | check, then insert; status and gate computed twice | one quiz per section; gate and status agree | SectionQuizzes |
| Attempts (`assessment_service`) | questions, submissions | edit, submit, grade | authors | count, then insert; rounding | limits hold but for what is in flight; a pass is earned | Attempts |
| Streaming gate (`streaming_service`) | watermark and credit columns of `lesson_progress` | manifest, fetch | progress | rounding, clamps, refused fetches | no skipping ahead; an honest viewer reaches the end | Streaming |
| HLS packaging (`utils/hls.py`) | `Lesson.hls_status` and objects in storage | upload, package | authoring | background task dies, second upload | READY is one whole video; segments decrypt | Packaging |
| Positions (`instructor_service`, `admin.py`) | `order` columns | create, move, delete, reorder | each other | unique constraint checked row by row | a reorder lands; no staged position stays | Ordering |
| Course counters (`instructor_service`) | `lectures_count`, `duration_minutes` | section and lesson CRUD | each other | counted from a snapshot, written if different | counters heal | CourseTree |
| Reviews (`courses.py`, `admin.py`) | `reviews`, `rating_avg`, `ratings_count` | create, change, delete, moderate | each other | as above | the rating heals | Reviews |
| Catalog (`instructor_service`, `admin.py`) | `courses.status`, `programs.status`, `courses_count` | publish, archive, delete | orders, enrollments | counts before the flush; foreign keys at the DELETE | what is sold stays; the count heals | Catalog |
| Program progress (`program_service`) | `program_enrollments` | list | linking, completion | two statements, stale row | the progress heals | ProgramProgress |
| Practice (`practice_service`) | packs, quizzes, items, attempts | author, attempt | authors | count, then insert; matching pairs | cap holds but for what is in flight; marks are deserved | Practice |
| Rate limiter (`rate_limit.py`) | a sorted set per bucket | check | every request | the clock is read before Redis runs | a window holds no more than the limit | RateLimit |
| Activity, notes, downloads, wishlist, home, onboarding, admin CRUD, storage, mail, DRM | rows of one user, or none | CRUD, I/O | | | | |

`PROJECT.json` lists every part with its sources and every hazard at the line
where it bites, with the properties that watch it or the reason why none does.

## How the code is modelled

These conventions hold in every module.

* **A request is a slot `r` of `Req`.** `req[r]` is what the handler has in its
  session: the stage it is at and the values of the rows it has loaded. The
  number of slots bounds how many handlers overlap, not how many ever run.
* **Each load, each await of another party and each commit is one step.**
  Consecutive SELECTs of one handler with no write in between are one load when
  the later ones read the rows whose ids the earlier ones found. A handler that is
  refused while loading has changed nothing: it is a stuttering step.
* **Writes are taken at the commit.** A row flushed before the commit is locked
  until then and invisible at READ COMMITTED, so a flush right before the commit
  and the commit are one step. Where the code flushes and then reads on
  (`pay_with_card`, `_perform_transaction`: transaction and order are flushed,
  the grant then reads enrollments), the stage `granting` stands for the time in
  between, and `Locked(o)` makes every other UPDATE of the order row wait.
* **An UPDATE carries only changed columns.** SQLAlchemy compares with the loaded
  value, so a handler that "sets" `paid` on a row it loaded as `paid` writes
  nothing, also when the row has changed since.
* **autoflush is off and expire_on_commit is off**, so a handler's SELECT does not
  see its own pending changes, and its objects are never re-read.
* **`Abort(r)`** is a handler that ends without a commit: the process dies, the
  client goes away, the provider raises, PostgreSQL picks it as deadlock victim.
* **Row ids are pools.** A finite set of order ids bounds how many rows are ever
  inserted; a request that finds the pool empty ends like an aborted one.

## Checkout

`Checkout.tla` models `payment_service`, and of `promocode_service`,
`enrollment_service` and `program_service` what it calls.

| Variable | Code |
| --- | --- |
| `order[o]` | row of `orders`: buyer, item, status, promocode_id, amount_cents |
| `txn[t]` | row of `transactions`, by provider_txn_id (unique): order, state, amount, whether perform_time is set |
| `promo[p]` | row of `promocodes`: usable, dead (revoked or expired) or deleted, and uses_count |
| `enrolled` | rows of `enrollments` and `program_enrollments` |
| `published` | courses and programs with status PUBLISHED |
| `req[r]` | a handler in flight |

| Handler | Steps |
| --- | --- |
| `create_order` | `CreateOrder` (item, pending order), `FindPromo` (code), then `InsertOrder` or `SwapPromo` |
| `cancel_order` | `CancelOrder`, `CancelOrderWrite` |
| `pay_with_card` | `PayWithCard`, `ChargeCard` (receipts.create and pay), `GrantFlush`, `GrantCommit` |
| CreateTransaction | `CreateTransaction`, `CreateTransactionWrite` |
| PerformTransaction | `PerformTransaction`, `GrantFlush`, `GrantCommit` |
| CancelTransaction | `CancelTransaction`, `CancelTransactionWrite` |
| `create_promocode`, `revoke_promocode`, the clock | `CreatePromocode`; `RevokePromocode`, `RevokePromocodeWrite`; `ExpirePromocode` |
| free enrollment, publication | `Enroll`, `SetPublished` (one step each: they matter only through what they commit) |

Merchant calls answered from the table alone (a repeated CreateTransaction,
PerformTransaction of a performed transaction, CheckTransaction, ...) change no
row and are stuttering steps.

Two details that are easy to get wrong. `try_reserve` and `release` are UPDATEs
with the condition in the WHERE clause, so they are evaluated on the committed row
(`CanReserve`, `Released` read `promo`, not `req`); what is stale is *which* code
`release` is called for (`q.row.promo`). And `SwapPromo` does not look at the
status again: this is what the code does, and two of the violations below need it.

## Purchase: what Checkout implements

`Purchase.tla` says what a checkout promises for one order: it is opened, may be
held by the provider, is settled at most once, and only together with the
delivery; money is returned only after it was taken; a closed order can still be
settled only while the provider holds a payment for it. `CheckoutPurchase.tla`
maps an order's stage from its status and the transactions that name it, and its
`ImplementsPurchase` is the refinement. It holds for handlers that do not overlap
(`Checkout_sequential`); overlapping handlers break it, in the ways listed under
[what the code does not keep](#what-the-code-does-not-keep).

The stage `closedHeld` is a concession to the code: `cancel_order` cancels an
order whose Payme transaction is open and leaves the transaction alone, so the
payment may still arrive.

## Learning

`Learning.tla` models one learner's enrollment in one course: what
`enrollment_service.update_lesson_progress` (the *progress call*) and
`lesson_hls_segment` with `gate_segment_fetch` (the *segment fetch*) do to it
while the instructor creates and deletes lessons.

| Variable | Code |
| --- | --- |
| `lesson[l]` | the course's rows of `lessons`: not created yet, live, deleted |
| `progress[l]` | row of `lesson_progress` of the enrollment: none, or whether completed_at is set |
| `enrollment` | progress_percent, and whether completed_at is set |
| `certificates` | how many certificates name the learner and the course |
| `req[r]` | a handler in flight: the enrollment and progress row it loaded, what it counted |

| Handler | Steps |
| --- | --- |
| progress call | `Call` (enrollment, lesson), `LoadProgress`, `LockEnrollment`, `Flush`, then the recomputation and `Commit` |
| segment fetch | `Call`, `LoadProgress`, `Flush`, the recomputation if it has just completed the lesson, `Commit` |
| `_recompute_progress` | `CountLessons`, `CountCompleted`, `Certify` (only on the transition to completed) |
| `create_lesson`, `delete_lesson` | one step each |

The two handlers lock in opposite orders, and everything interesting follows from
it. The progress call sets `last_lesson_id` and `last_accessed_at` before its flush,
and the unit of work writes `enrollments` before `lesson_progress`: it holds the
enrollment row while it counts, so two progress calls count one after the other. The
fetch flushes only its progress row, counts, and updates the enrollment when it
commits: two fetches count at the same time, and neither sees the other's row. A
call and a fetch on the same lesson can wait for each other (`BreakDeadlock`:
PostgreSQL ends either).

Here flushes matter, so a request's own writes are visible to its own counts
(`Seen`), and rows it has flushed are locked (`HoldsEnrollment`, `HoldsRow`).
`_ensure_certificate` flushes too, directly before the commit; the two are one step.

Left out: watched seconds, the segment watermark (module Streaming),
`daily_activity`, the section-quiz gate (module SectionQuizzes; a refused call is a
stuttering step), and certificates issued or revoked by an administrator.

## The other modules

Each is a small module of its own, with the conventions above. `MCPlayback`,
`MCAssessments`, `MCAuthoring`, `MCAccounts` and `MCLearning` check several of them
in one run: they share no state there, and a behaviour is one of one of them
(`part`). They do meet in the code through rows that one writes and another reads;
where that matters, the reader's module has the other's effect as an action
(`DeleteSection` in SectionQuizzes, `CompleteCourse` in ProgramProgress, `Enroll` in
Reviews and Catalog, `CreateLesson` in Learning).

* **SectionQuizzes**: sections, assessments with section, status and
  `is_section_quiz`; two authors' calls as load, check and write. `Admissible` is the
  partial unique index of migration 0011, `QuizStatus` and `Opened` are the two
  computations the UI's button and the gate make.
* **Attempts**: one assessment with its questions, `submit_assessment` as load, count
  and insert, grading as comparison of the exact share of points with the bar and
  rounding for display.
* **Practice**: pack, quizzes and items with their cap; attempts graded against the
  items as loaded, including matching pairs given twice. `deserved` is the reference
  definition of a mark.
* **Streaming**: `gate_segment_fetch` on a clock in ticks, `TicksPerSecond` to the
  second; durations are in ticks as well, so a segment may last fractions of a second,
  and `SegmentLength` is the code's `max(1, round(...))`, half to even. What is stored is
  the time since the last segment, cut at a bound beyond which no comparison changes. A
  fetch may break off before its commit, a player may wait, rewatch and prefetch.
* **Packaging**: the upload, which leaves `hls_status` alone, the background task (load,
  key, files in the order they are written, final write), its failure handler, and tasks
  of several uploads writing the same names. `kek` is the process's MEDIA_KEK and
  `wrappedBy` the one the key row was wrapped with: `FindKey` raises outside the `try` when
  they do not fit. `Restart` ends every task and may bring another MEDIA_KEK; `Abort` ends one
  task whose session raises.
* **Ordering**: a unique position per container, a reorder as single-row UPDATEs each
  checked by the constraint, with locks on rows and on the positions an open
  transaction has left. `Staging` is how the code parks rows: apart (sections,
  lessons) or together at -1 (courses of a program).
* **CourseTree**, **Reviews**, **Catalog**, **ProgramProgress**: cached values. Each call
  loads, flushes, counts what READ COMMITTED shows it and writes what differs from
  the value it loaded. Overlapping calls leave wrong values, which the code does not
  prevent; what it promises is that the next undisturbed call puts them right, and
  that is the property of each (`AggregatesHeal`, `RatingHeals`, `CountHeals`,
  `ProgressHeals`). Ghosts (`healed`, `steady`, `recount`) say whether the last call was
  undisturbed. In Catalog, the DELETE meets RESTRICT and CASCADE keys.
* **Sessions**: refresh tokens as a forest (`parent`), each call a READ COMMITTED
  transaction of a load and a commit. Ghosts mark which tokens descend from a session
  that was ended, and which calls were open at that moment.
* **PhoneCodes**: the Redis commands of issuing and redeeming one by one, with
  expiry of either key at any time.
* **Registration**: register, resend, verify, and Google's find-or-create with its
  savepoint and second lookup, statement by statement. A link writes over the identity
  that another sign-in has linked since the lookup.
* **Cards**: the demotion of the former default as an UPDATE whose rows are those
  committed when it starts, which then waits for row locks.
* **RateLimit**: the sorted set of one bucket; calls read the clock, then reach Redis in
  any order; expiry of the key; answers lost to a RedisError.

## The runs

All Checkout runs use one course of price 3 and a discount of 1 (the properties compare
amounts, they never add them), and `MaxUses = 1`, the default of
`create_promocode`.

| Run | Instance | Shows |
| --- | --- | --- |
| `Checkout_sequential` | 1 request, 2 buyers, 2 orders, 2 Payme transactions, 1 receipt, 1 code | `TablesAgree`, `PaidOnce`, `OnePendingOrder`, `ChargedIsAmount`, `NoLeakedReservation`, `ImplementsPurchase`: what the handlers promise when they do not overlap. Two orders let a code move from one buyer to another; three payments let an order be tried again after a cancel. |
| `Checkout_races` | 2 requests, 1 order, 2 Payme transactions, 1 receipt, 1 code, a course and a program that requires it | `TypeOK`, `PaidWasPerformed`, `PendingIsUncharged`, `TransactionFixed`, `UsesWithinMax`, `PaidIsEntitled` under every overlap of two handlers on one order: swaps, releases, a revocation and the expiry of the code, free enrollments and withdrawals among them. |
| `Checkout_live` | 2 requests, 1 order, 1 transaction, 1 code, no symmetry | `RetriesSettle`: a transaction that Payme keeps performing is settled in the end, in spite of collisions, rollbacks and a second request. |
| `Learning_races` | 2 requests of either kind, 2 lessons of which one is created and deleted; 2 card tokens; 6 instants, a window of 3 and a limit of 2 | `TypeOK`, `CompletedIsCertified` under every overlap of calls and fetches; `DefaultIsOne`: a card made the default is, and another one only if the two additions overlapped; `WindowHolds`: of the calls that reach Redis in order and within a second, a window admits no more than the limit, and none is refused before the limit is used up. |
| `Playback` | Learning with 3 lessons (alone), two progress calls, of which one that clears a completion overlaps none (updates), or calls and fetches that do not clear completions (forward); 4 segments of 2.5 and 1.5 s, as a stream copy has them, rate 2, 2 ticks per second; 2 packaging tasks, 3 uploads, 2 values of MEDIA_KEK or none | `UpdatesAgree`, `CertificateIsOne`: what locking the enrollment first buys, also for lessons that are re-opened (neither holds with fetches); `RecomputedIsRight`: every recomputation corrects what was left behind; `ForwardCompletes`: the completion and its certificate arrive. `WatchedLongEnough`, `PlaybackReachesEnd`: the gate lets nobody skip ahead and no honest player starve. `Decryptable`, `ReadyIsWhole`, `PackagingSettles`. |
| `Assessments` | 2 requests each; 2 sections, 3 positions; 2 questions of 1 or 2 points, a bar of 67 %, 1 attempt; a pack with a cap of 1 and 3 items, so that overlapping calls can exceed it | `OneQuizPerSection`, `StatusAgreesWithGate`, `LimitsNearlyHold`, `PassIsEarned`, `MarksAreDeserved`. |
| `Authoring` | 2 requests each; 2 rows and 3 positions; 2 sections, 2 lessons; 2 reviewers; a course, a program and their buyers; a program of 2 courses | `ReordersLand`, `AggregatesHeal`, `SoldStays`. |
| `Accounts` | 2 requests each; 3 refresh tokens and a reset; 2 phones, 2 codes, 2 users; 2 e-mails, 2 Google identities | `EndedSessionsStayEnded`, `OneHeir`, `LiveCodeIsOne`, `PasswordIsRedeemed`, `ConflictsResolved`. |
| `Violation_*` | the smallest instance that shows it | one documented statement each that the code does not keep. |

Two requests are enough for the hazards listed: each is one handler acting on what
another has changed since; a third party (enrollment, publication, expiry, the
issue of codes) needs no slot because it is atomic. For the safety properties the number
of slots does not matter, since they are proved (below); the proofs found the one case
that two slots miss. Two lessons are the least for
which "the last two" can be missed; the third in the part `alone` makes percentages
round. Three refresh tokens are a sign-in and two rotations of it; three uploads are
a longer video, a shorter and a longer again. The limiter's window must hold more
instants than the limit, else nothing could exceed it. Where the property is proved,
the bound does not matter. In `MCPlayback`, uploads are bounded, so packaging ends:
`Playback` and `Violation_short_tail` are the runs with CHECK_DEADLOCK FALSE.

**Symmetry** is used in the safety runs only: ids, buyers, codes and slots are
interchangeable and no expression CHOOSEs among them.

**Fairness** (`FairSpec`). `SF(Continue(r))`: the event loop resumes a handler
whose await has completed, and PostgreSQL queues the waiters of a row lock, so a
request that is again and again able to go on does go on; weak fairness would be
too little, because a lock can be taken again by others in between. `SF` of
PerformTransaction: Payme repeats the call until it gets a final answer. Nothing is assumed about arrivals,
aborts, enrollments or publication; `RetriesSettle` therefore has the premise that
the item eventually stays published and that, from some time on, handlers end only
as their own code ends them, conflicts included.

In `Learning`, `FairSpec` assumes `SF(Continue(r))` for the same reason, and strong
fairness of progress calls that neither set nor clear a completion: the player
reports its position while a lesson is open. `CompletionArrives` needs them, because
a completion that two fetches missed is found by the next progress call only; its
premise is that the lessons stay done and that no call in flight clears one, and,
again, that handlers end as their own code ends them (a deadlock victim included).

In `Streaming`, time passes (`WF(Tick)`), a handler is resumed (`WF`), and the player
asks for the next segment again and again (`SF(FetchNext)`); `PlaybackCompletes` is
about players that from some time on do only that. In `Packaging`, a task is resumed
(`WF(Step)`) while the process lives; `PackagingSettles` says nothing of a
lesson whose task was stranded - by a restart, a MEDIA_KEK that does not open the key
row, or its session - and the code does nothing then either: it stays PENDING until the
video is uploaded again, and that upload must settle unless its task is stranded too.

## What the code does not keep

Each run finds the shortest behaviour that contradicts a statement of the
repository. `PROJECT.json` quotes the statement and its line.

* `Violation_single_use` (no overlap needed). An order is held by Payme
  (PROCESSING) and cancelled by its buyer: its code is released, the transaction
  stays CREATED. The code is used by a second order, which is paid. Payme then performs
  the first transaction: two orders are paid at the discount of a single-use code.
* `Violation_short_tail`. A video is cut into segments of equal length and a shorter
  last one. A fetch earns at most the length of the segment it asks for, and a refused
  fetch earns nothing. If the player comes to the last segment with too little credit, its
  short length is all that each retry adds to the same stored credit, and the lesson can
  never be completed by playing on.
* `Violation_program_reorder`. All courses of a program are parked at -1 by one UPDATE;
  the unique constraint on program and position is checked at each row, so the call fails
  for every program of two courses or more.
* `Violation_password_change`. `README.md:212` of the repository says that refresh tokens
  are revoked on password change. `change_password` stores the hash and commits; all sessions
  go on. `EndedSessionsStayEnded` is therefore about the endings the code has: signing out
  everywhere, a reset, the detection of a reuse, the deletion of the account.

More disagreements, each of which is read off a line or two:

* Re-applying the code a pending order already holds is refused as exhausted
  (`payment_service.py:226`, against the comment at 245).
* A cancellation that loaded the order before a card payment committed cancels the paid
  order (`payment_service.py:317`, against `enums.py:74`).
* An order never gets a second transaction while handlers do not overlap: charging and
  holding ask for PENDING (`payment_service.py:333`, `575`), a transaction takes the order
  out of PENDING and nothing brings it back. `models/payment.py:8-9` says that an order
  "owns one or more transactions over its lifetime (the user may retry after a cancel)";
  whoever retries gets a new order. `PaidOnce` is what both accounts have in
  common: of the transactions an order owns, one at most is ever performed.
* `DELETE /orders/{id}` on a cancelled order raises a ConflictError
  (`payment_service.py:313`; `FRONTEND.md:813` calls it idempotent).
* A draft section quiz gates later sections (`assessment_service.py:667`, against the
  docstring at 647, which says "published").
* The instructor's count is computed before the status change is flushed, and the session
  does not flush by itself (`instructor_service.py:284-303`, against the comment at 285):
  publishing a first course leaves the count at 0. Repeating the call corrects it
  (`CountHeals`).
* Without MEDIA_KEK, or with another than the key row was wrapped with, packaging raises
  outside its `try` (`utils/hls.py:221`), and a process that dies takes its tasks along: the
  lesson stays PENDING, while `api/v1/streaming.py:139-141` and `schemas/streaming.py:18-20`
  tell the client to poll until it is ready.

Four properties of `Checkout_sequential` end with the overlap of two handlers.
`PaidOnce`: `pay_with_card` and CreateTransaction, or two cards, load the order as PENDING
before either commits; both transactions are recorded and performed.
`OnePendingOrder`: two `create_order` calls find no pending order and both insert
one; from then on every `create_order` for the item fails, since
`scalar_one_or_none` finds two rows. `ChargedIsAmount`: a swap of the code commits
between the load and the write of CreateTransaction, and the transaction is open for
another amount than the order's. `NoLeakedReservation`: a swap that loaded the order
while it was pending commits after its cancellation, and the cancelled order holds
the code for ever. TLC finds each with `Req = {r1, r2}` within seconds.

Two fetches that complete the last two lessons of a course at the same time each count
without the other's row; both write a percentage below 100. Every lesson is done, the
course is not, and there is no certificate until a progress call recomputes
(`ForwardCompletes` needs that call). Likewise `WatchedLongEnough` is claimed for a
player that makes one fetch at a time: two at once are credited the same gap twice, and
may move the watermark back.

Progress calls alone agree (`UpdatesAgree`), but for one that overlaps a call which clears
a completion. B loads the enrollment at 100; A re-opens a lesson and commits 50; B, waiting
for the enrollment row, loads that lesson as open, completes it and computes 100, the
value it had loaded, so that nothing is written: the lessons are done and 50 stays stored
until the next recomputation that loads it. The premise `ClearsAlone` says that a call which
clears a completion overlaps no other.

A fetch that overlaps another request can also issue a second certificate: both
look for one, both find none, and the table has no unique constraint on user and
course (`get_certificate_for_course` raises from then on). Nothing in the
repository states that there is one, so there is no run for it; `OneCertificate` is
claimed for progress calls under the same premise.

## What is proved

Every invariant, every action property and the refinement that the runs check is a
theorem, for every value of the constants; what is left to TLC is liveness. The
assumptions on the constants are the `*Constants` of each module, named by an ASSUME, and
TLC evaluates them in the run of that module: primary keys, slots and lessons are finite
where they are counted, None is no value of a column, numbers are natural, payloads have
the types the schemas admit.

None of these properties is inductive alone, because a handler writes what it computed
from rows that may have changed. Each proof therefore starts from an invariant that
says what a call in flight may still rely on, and has one lemma per action.

### Checkout (`CheckoutProofs.tla`)

For any number of requests, orders, transactions, codes, courses and programs:
`TypeCorrect`, `CodesWithinMax` (`UsesWithinMax`), `PaidOrdersAreEntitled`,
`PaidOrdersWerePerformed`, `PendingOrdersAreUncharged` and `TransactionsAreFixed`. The
inductive invariant `IInv` adds what stays true of a stale row:

* `LoadedOrder`: buyer and item of a loaded order are still those of the row
  (no handler changes them), whatever became of its status;
* `LoadedTxn`: a merchant call's transaction still names its order, and if it was
  loaded as performed it has been performed;
* `LoadedCard` and `OneOwner`: a receipt is known to the one request that
  was given it, until that request records it;
* `LoadedRest`: a code in flight belongs to the item; enrollments seen by a grant
  are still there;
* `TxnsOK`, `OrdersOK`, `EnrolledClosed`: a transaction's order exists and has left
  PENDING; whoever is enrolled in a program is enrolled in its courses (so that a
  grant which skips a program the buyer already has still leaves him entitled).

`Stable` is the action half: no step changes an order's identity, re-binds or
re-opens a transaction, or takes an enrollment back. `RequestKept` shows that what
a request relies on survives every step that respects `Stable` and leaves its
receipt alone, so each action only has to show what it writes. `ConstantsOK` supplies
what is needed of prices (a discount is smaller than the price of its course, as
`compute_discount_cents` caps it) and of required courses.

What the handlers promise when they do not overlap is proved under `OneAtATime` (there is
one slot, as in `Checkout_sequential`; overlapping handlers do break these properties):
`TablesAgreeAlone`, `OrdersArePaidOnce`, `PendingOrdersAreSingle`, `ChargesMatchOrders`,
`ReservationsDoNotLeak`, and `CheckoutImplementsPurchase`, the refinement. `SeqInv` says
that what the request loaded is still what is there (`Current`) and that the books are
kept: an order has at most one transaction (`OneTransactionPerOrder`, from which `PaidOnce`
follows), a PROCESSING order has the open transaction that holds it, and only finitely many
orders were inserted, so that the reservations of a code can be counted. For the
refinement, `Admits` relates the state of an order's transaction to its status, and every
step is shown to be one of Purchase's or a stutter, order by order.

### Learning, cards, rate limiter (`LearningProofs.tla`)

`TypeCorrect` and `CompletionsAreCertified` hold for any number of lessons and requests. The
latter is not inductive: a request calls `_ensure_certificate` only if the enrollment it
*loaded* was open, and writes completed_at only if it differs from what it loaded, so a
completion can be written, cleared and written again by requests that do not know of each
other. `BeliefCertified` says what saves it: a completion that a request has loaded was
certified then, certificates are never taken back, and a completion about to be
written comes with a certificate or finds one.

* `UserHasOneDefault` (`DefaultIsOne`). `CardOK`, of an addition under way: a default card
  that its UPDATE did not see was committed beside it.
* `LimitIsExact` (`WindowHolds`), for any limit, window and number of calls. `CallCounted`: a
  counted call's key outlives its window, and if the sorted set has dropped it, its window has
  passed, by the clock or for a call counted since. Counted calls that share a window are
  therefore all in the set when the last of them is admitted.

### Playback (`PlaybackProofs.tla`)

* `ProgressAgrees`, `CertificatesAreSingle` (`UpdatesAgree`, `CertificateIsOne`), for progress
  calls alone, any number of them, of which one that clears a completion overlaps none, while
  lessons are neither created nor deleted. `UpdateInv`: whoever holds the enrollment row is alone in
  doing so (`OneHolder`), so what it counts is what will be there (`HasCounted`), and what
  another has loaded meanwhile is not ahead of what is stored.
* `RecomputationIsRight` (the action property `RecomputedIsRight`), for requests that do not
  overlap while an instructor creates and deletes lessons between their steps (`AloneInv`).
* `SegmentsCanBeDecrypted`, `ReadyVideosAreWhole`, for any video, number of uploads and of
  tasks, keys, values of MEDIA_KEK and restarts. `TaskOK`: a task that has a key has the lesson's, because the insert of a second
  one is refused. `TaskAlone`: a task that no other overlaps packages the lesson's video, and
  what it says it has written is there.
* `LearnersHaveWatched` (`WatchedLongEnough`), for any number of segments of any length, in fractions of
  a second, any rate and lookahead, and fetches that do not overlap (`OneFetch`: two at once are credited the
  same gap twice). `PaidFor`: the credit was earned second by second before the present gap
  began, although each fetch drops the fraction of a second; `Earned` then bounds what the
  watermark has let through.

### Assessments (`AssessmentsProofs.tla`)

* `SectionsHaveOneQuiz`, `StatusIsTheGate`, types. What an author has checked is worth
  nothing at the insert: the unique index is what the invariant rests on. With one quiz per
  section, the scalar lookup of the status call and the query of the gate choose the same rows.
* `LimitsAreNearlyKept` (`LimitsNearlyHold`), for any number of calls: `max_attempts` and the cap
  of a quiz are exceeded by less than the number of calls in flight. `RoomForPending` and
  `RoomForItems` let rows and counted calls share the room there was when they counted.
* `PassesAreEarned`: for any questions, points, bar and set of answers, a submission that
  passed has the share of the points asked for, and is shown at least the percentage required,
  whichever way a half is rounded. The grade is a sum over part of what the total sums over,
  by the questions as loaded.
* `PracticeMarksAreDeserved`: for any items, keys and responses, the graders accept exactly the
  exact answers (`MatchingIsExact`: pairs that repeat none and are all right, as many as
  the key has, are the whole key), each item counts once, and `score_percent` passes its CHECK.

### Authoring (`AuthoringProofs.tla`)

* `SoldProductsStay`. A deletion acts on what is ordered when it commits, not when it checked.
* `StoredAggregatesHeal` (`AggregatesHeal`), for the course's counters, the rating, the
  instructor's count and the progress in a program, any number of rows and of calls. Of a call
  that nothing has overtaken: what it loaded is what is stored, and what it counted is
  what its commit leaves (`TreeCallOK`, `AskOK`, `CallOK`, `ListingOK`). In CourseTree the count
  is made after the flush, and the invariant needs the locks: two calls that have counted
  touch different rows (`Apart`), so the lesson one updates is not deleted under it, and no
  lesson appears in a section that is being deleted (`LocksHold`).
* `ReordersAlwaysLand` (`ReordersLand`), for any number of rows and positions, when rows are
  staged apart (`Staging = "apart"`, sections and lessons; staged together, as a program's
  courses are, a reorder fails: `Violation_program_reorder`). `Clear` describes the
  UPDATEs ahead: no two to one position, staged ones first, none to where another row was put,
  and a row is placed only when all others have left their old positions. `PlacedFrom`: a
  staged row is placed later in the same transaction, so none is committed at a staged position.

### Accounts (`AccountsProofs.tla`)

* `EndedSessionsDoNotGoOn`, `TokensHaveOneHeir`, types. `IInv` adds that what a call has found is
  still a row (`Found`); that an open rotation of a session ended since is one that was open at
  that moment (`LateIsKnown`); that what has an heir is not live (`ParentsRevoked`); and
  that two open rotations of one token, or an open one and the heir of another, know of
  their overlap (`RotationsMeet`, `HeirsMeet`).
* `PhoneHasOneLiveCode` (`LiveCodeIsOne`). For each stage of the one call for a phone, the live
  codes are among the one its key names, the one the call has in hand, or none (`StageOK`).
* `PasswordsAreRedeemed`, `ConflictsAreResolved`. A pending row has the password of its last
  registration, whichever token it carries, and so has the row that a redemption has read; for
  a sign-in whose insert met a conflict there is an account with its identity or its
  e-mail, until an account is deleted or linked to another identity (`SignupOK`).

### How, and what the proofs have changed

`Numbers.tla` holds the facts that several proofs need: least and greatest elements, sums over
finite sets, rounded percentages. The library's induction rules cannot be instantiated with
the provers at hand, so a claim about every number or finite set is proved from its least
counterexample (`LeastNumber`, from the well-foundedness of `<`): that a sum exists and is
unique, that taking an element away takes its value away, that part of a sum is no more
than the sum. The sums of the community modules are then equal to it by their definitions.

Three definitions were corrected because of a proof. `ConflictIsResolved` did not
excuse an account that was linked to another identity, as `find_or_create_user` may do when
two identities with one e-mail sign in at once; TLC refutes that with three overlapping calls.
`Passes` was a CASE whose arms overlapped when nothing was awarded and nothing is required,
where TLA+ may take either arm and the code has one answer. The parts that a run may check
are constrained by an ASSUME, since a CASE over the part says nothing of any other.

Only model-checked: liveness (`RetriesSettle`, `ForwardCompletes`, `PlaybackReachesEnd`,
`PackagingSettles`), which is out of the proof system's reach. Not proved,
because TLC refutes them, are the properties of non-overlapping handlers without their
assumption: see [what the code does not keep](#what-the-code-does-not-keep).


## Not modelled

* `orders.provider` (all that `pay_with_payme` writes besides building a URL) and
  timestamps other than whether `perform_time` is set.
* Price changes while an order is open (`Price` is a constant), the arithmetic of a
  discount, and the wallet of saved codes.
* Row locks of `promocodes`, and the deadlocks of swaps and revocations over them: their
  victim is an `Abort`, which leaves no trace.
* What the provider took. `pay_with_card` charges before it commits; a
  failure in between leaves no row behind, and the database alone cannot show it.
* `daily_activity` and weekly goals, notes, downloads, wishlist, home, onboarding,
  landing: rows of one user that no other request reads in order to write.
* The administration's CRUD, except where it meets a modelled part (reorders,
  publication, moderation of reviews): single writes by few people. That includes
  `delete_enrollment`, the one operation that takes an entitlement back.
* Tokens, hashes, signatures and playback keys as bytes; storage, mail, Google's
  servers, DRM, Payme's servers: their answers are nondeterministic choices.
* Listings, statements and the other read-only handlers; configuration, schemas
  and migrations (the constraints that migrations create are in the models).


## The plan

The order in which the project was built, each part with the conventions above:
Checkout, Purchase and their refinement; Learning; Streaming and Packaging;
SectionQuizzes, Attempts and Practice; the positions and cached values of authoring
(Ordering, CourseTree, Reviews, Catalog, ProgramProgress); Sessions, PhoneCodes and
Registration; Cards and RateLimit; then the proofs, first for properties under every overlap,
then for handlers one at a time and the refinement, then for the remaining modules.

What is left, the most useful first:

1. An abstract specification for a second component, with its refinement proved: the
   session forest, or a reorder as one atomic permutation.
2. The section-quiz gate composed with Learning: a refused call is a stuttering step
   now.
3. Two fetches at once: how much may be credited twice, as a bound that TLC can check and
   the proof of `LearnersHaveWatched` can be extended to.
4. The wallet: saved codes, their computed status, and the preview against checkout.
5. `daily_activity`: whole minutes credited by calls that overlap.
