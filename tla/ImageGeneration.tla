--------------------------- MODULE ImageGeneration ---------------------------
(***************************************************************************)
(* One image of the shop and the variants made of it (Backend/app/modules/ *)
(* media, Backend/app/workers/media_generation.py).  A request of the      *)
(* product, collection, category or CMS editor stores a new crop or        *)
(* original and queues the image (status "pending"); Celery workers claim  *)
(* it, make a variant of each breakpoint queued and put it into storage,   *)
(* under a key that is always the same.                                    *)
(*                                                                         *)
(* A request is a handler with a session of its own: what it loaded first  *)
(* is what it computes with, and SQLAlchemy writes the columns whose value *)
(* differs from the one loaded.  The dispatched task and the sweep of beat *)
(* both are a Claim.  One variant stands for those of a breakpoint.  SVG   *)
(* images (no generation) and requests that fail are left out.             *)
(***************************************************************************)
EXTENDS Integers, FiniteSets

CONSTANTS
    Breakpoint,
    Request,
    Worker,
    MaxAttempts,   \* MAX_ATTEMPTS (3)
    MaxKills       \* bound: workers that are killed

ASSUME ImageAssumption ==
    /\ IsFiniteSet(Request)
    /\ MaxAttempts \in Nat \ {0}
    /\ MaxKills \in Nat

VARIABLES
    image,      \* the row of images, with the status of its image_variants
    deleted,    \* deleted_at is set
    original,   \* storage: the original, by the request that put it
    stored,     \* storage: what each variant was made of
    request,    \* the handlers
    job,        \* the workers
    kills,
    calm,       \* (history) no request overlapped a generation or another
    spoiled     \* (history) versions whose URLs have shown other bytes since

vars == <<image, deleted, original, stored, request, job, kills, calm, spoiled>>

Crop == Request \cup {"default"}
Original == Request \cup {"upload"}
Content == [original : Original, crop : Crop]
NoObject == [original |-> "none", crop |-> "none"]

\* metadata_["generation"] is attempts and pending; no pending means all.
Image ==
    [status : {"pending", "processing", "ready", "failed"},
     crops : [Breakpoint -> Crop],
     pending : SUBSET Breakpoint,
     attempts : 0..(MaxAttempts + MaxKills + Cardinality(Request)),
     version : Nat,
     variants : [Breakpoint -> {"none", "ready", "failed"}]]

TypeOK ==
    /\ image \in Image
    /\ deleted \in BOOLEAN
    /\ original \in Original
    /\ stored \in [Breakpoint -> Content \cup {NoObject}]
    /\ request \in [Request -> [at : {"unsent", "loaded", "replacing", "done"}, image : Image]]
    /\ job \in [Worker -> [at : {"idle", "claimed", "making"},
                           crops : [Breakpoint -> Crop],
                           version : Nat,
                           original : Original,
                           todo : SUBSET Breakpoint,
                           made : [Breakpoint -> {"none", "ready", "failed"}]]]
    /\ kills \in 0..MaxKills
    /\ calm \in BOOLEAN
    /\ spoiled \subseteq Nat

Idle(w) == job[w].at = "idle"

\* The upload of a new image: every breakpoint is queued (upload).
Uploaded ==
    [status |-> "pending",
     crops |-> [b \in Breakpoint |-> "default"],
     pending |-> Breakpoint,
     attempts |-> 0,
     version |-> 1,
     variants |-> [b \in Breakpoint |-> "none"]]

NoJob ==
    [at |-> "idle", crops |-> Uploaded.crops, version |-> 0, original |-> "upload",
     todo |-> {}, made |-> [b \in Breakpoint |-> "none"]]

Init ==
    /\ image = Uploaded
    /\ deleted = FALSE
    /\ original = "upload"
    /\ stored = [b \in Breakpoint |-> NoObject]
    /\ request = [q \in Request |-> [at |-> "unsent", image |-> Uploaded]]
    /\ job = [w \in Worker |-> NoJob]
    /\ kills = 0
    /\ calm = TRUE
    /\ spoiled = {}

-----------------------------------------------------------------------------
(***************************************************************************)
(* The requests                                                            *)
(***************************************************************************)

\* Nothing else is under way, and what is not asked for anew is as it should be.
Undisturbed(q, all) ==
    /\ \A w \in Worker : Idle(w)
    /\ \A p \in Request \ {q} : request[p].at # "replacing"
    /\ request[q].image = image
    /\ image.status = "ready" \/ (all /\ image.status = "failed")

\* The status a request leaves: "pending", written only if it loaded another.
Queued(q) == IF request[q].image.status = "pending" THEN image.status ELSE "pending"

\* _get_image_or_404.
Load(q) ==
    /\ request[q].at = "unsent"
    /\ ~deleted
    /\ request' = [request EXCEPT ![q] = [at |-> "loaded", image |-> image]]
    /\ UNCHANGED <<image, deleted, original, stored, job, kills, calm, spoiled>>

Answers(q) ==
    /\ request' = [request EXCEPT ![q] = [at |-> "done", image |-> Uploaded]]
    /\ UNCHANGED <<deleted, job, kills, spoiled>>

\* crop: the breakpoints of moved have a new geometry, the others the one that
\* is stored.  What needs no new variant is not queued.
SaveCrop(q, moved) ==
    LET seen == request[q].image
        changed == moved \cup {b \in Breakpoint : seen.variants[b] # "ready"}
    IN  /\ request[q].at = "loaded"
        /\ image' = [image EXCEPT
                !.status = IF changed = {} THEN @ ELSE Queued(q),
                !.crops = [b \in Breakpoint |-> IF b \in moved THEN q ELSE seen.crops[b]],
                !.pending = changed,
                !.attempts = 0,
                !.version = seen.version + 1]
        /\ calm' = (calm /\ Undisturbed(q, FALSE))
        /\ Answers(q)
        /\ UNCHANGED <<original, stored>>

\* replace, first the original in storage
PutOriginal(q) ==
    /\ request[q].at = "loaded"
    /\ original' = q
    /\ request' = [request EXCEPT ![q].at = "replacing"]
    /\ UNCHANGED <<image, deleted, stored, job, kills, calm, spoiled>>

\* then the row: no variants, default crops, everything queued.  The row is
\* read again in between, so that "pending" is written whatever was loaded.
SaveReplaced(q) ==
    /\ request[q].at = "replacing"
    /\ image' = [image EXCEPT
            !.status = "pending",
            !.crops = [b \in Breakpoint |-> "default"],
            !.pending = Breakpoint,
            !.attempts = 0,
            !.version = request[q].image.version + 1,
            !.variants = [b \in Breakpoint |->
                            IF request[q].image.variants[b] = "none" THEN @[b] ELSE "none"]]
    /\ calm' = (calm /\ Undisturbed(q, TRUE))
    /\ Answers(q)
    /\ UNCHANGED <<original, stored>>

\* regenerate
Regenerate(q) ==
    /\ request[q].at = "loaded"
    /\ image' = [image EXCEPT
            !.status = Queued(q),
            !.crops = request[q].image.crops,
            !.pending = Breakpoint,
            !.attempts = request[q].image.attempts]
    /\ calm' = (calm /\ Undisturbed(q, TRUE))
    /\ Answers(q)
    /\ UNCHANGED <<original, stored>>

\* delete: the folder in storage, then deleted_at ("archived" is a status of
\* deleted images only, and nothing looks at it)
Delete(q) ==
    /\ request[q].at = "loaded"
    /\ deleted' = TRUE
    /\ stored' = [b \in Breakpoint |-> NoObject]
    /\ request' = [request EXCEPT ![q] = [at |-> "done", image |-> Uploaded]]
    /\ UNCHANGED <<image, original, job, kills, calm, spoiled>>

-----------------------------------------------------------------------------
(***************************************************************************)
(* The workers                                                             *)
(***************************************************************************)

\* What a job goes by; no breakpoints queued means all.
Claimed ==
    [NoJob EXCEPT !.at = "claimed",
                  !.crops = image.crops,
                  !.version = image.version,
                  !.todo = IF image.pending = {} THEN Breakpoint ELSE image.pending]

\* Faulty variant: the claim does not look at the status.
ClaimAny(w) ==
    /\ Idle(w)
    /\ ~deleted
    /\ image.status \in {"pending", "processing"}
    /\ image' = [image EXCEPT !.status = "processing", !.attempts = @ + 1]
    /\ job' = [job EXCEPT ![w] = Claimed]
    /\ UNCHANGED <<deleted, original, stored, request, kills, calm, spoiled>>

\* try_claim_pending
Claim(w) ==
    /\ Idle(w)
    /\ ~deleted
    /\ image.status = "pending"
    /\ image' = [image EXCEPT !.status = "processing", !.attempts = @ + 1]
    /\ job' = [job EXCEPT ![w] = Claimed]
    /\ UNCHANGED <<deleted, original, stored, request, kills, calm, spoiled>>

\* get_object_bytes
Fetch(w) ==
    /\ job[w].at = "claimed"
    /\ job' = [job EXCEPT ![w].at = "making", ![w].original = original]
    /\ UNCHANGED <<image, deleted, original, stored, request, kills, calm, spoiled>>

\* upload_variant_artifact: put_variant, which may fail
PutVariant(w, b) ==
    LET made == [original |-> job[w].original, crop |-> job[w].crops[b]]
    IN  /\ job[w].at = "making"
        /\ b \in job[w].todo
        /\ \/ /\ job' = [job EXCEPT ![w].todo = @ \ {b}, ![w].made[b] = "ready"]
              /\ stored' = [stored EXCEPT ![b] = made]
              /\ spoiled' = IF stored[b] \in {NoObject, made} THEN spoiled
                            ELSE spoiled \cup {image.version}
           \/ /\ job' = [job EXCEPT ![w].todo = @ \ {b}, ![w].made[b] = "failed"]
              /\ UNCHANGED <<stored, spoiled>>
        /\ UNCHANGED <<image, deleted, original, request, kills, calm>>

\* The rows of what was made
Variants(w) ==
    [b \in Breakpoint |-> IF job[w].made[b] = "none" THEN image.variants[b] ELSE job[w].made[b]]

Outcome(w) == IF \E b \in Breakpoint : Variants(w)[b] = "failed" THEN "failed" ELSE "ready"

Rests(w) ==
    /\ job' = [job EXCEPT ![w] = NoJob]
    /\ UNCHANGED <<deleted, original, stored, request, calm, spoiled>>

\* Faulty variant: what could not be put is not looked at.
FinishReady(w) ==
    /\ job[w].at = "making"
    /\ job[w].todo = {}
    /\ image' = [image EXCEPT !.variants = Variants(w),
                              !.status = IF deleted THEN @ ELSE "ready",
                              !.version = IF deleted THEN @ ELSE job[w].version + 1]
    /\ Rests(w)
    /\ UNCHANGED kills

\* The end of generate_variants_for_breakpoints.  The version is counted from
\* the one loaded with the claim: the session holds that object.
Finish(w) ==
    /\ job[w].at = "making"
    /\ job[w].todo = {}
    /\ image' = [image EXCEPT !.variants = Variants(w),
                              !.status = IF deleted THEN @ ELSE Outcome(w),
                              !.version = IF deleted THEN @ ELSE job[w].version + 1]
    /\ Rests(w)
    /\ UNCHANGED kills

\* Faulty variant: there is always another attempt.
FailForever(w) ==
    /\ ~Idle(w)
    /\ image' = [image EXCEPT !.status = IF deleted THEN @ ELSE "pending"]
    /\ Rests(w)
    /\ UNCHANGED kills

\* An error, or the soft time limit (_handle_failure)
Fail(w) ==
    /\ ~Idle(w)
    /\ image' = [image EXCEPT !.status = IF deleted THEN @
                                         ELSE IF image.attempts >= MaxAttempts THEN "failed"
                                         ELSE "pending"]
    /\ Rests(w)
    /\ UNCHANGED kills

\* The process is killed: out of memory, a deployment, the hard time limit.
Kill(w) ==
    /\ ~Idle(w)
    /\ kills < MaxKills
    /\ kills' = kills + 1
    /\ Rests(w)
    /\ UNCHANGED image

\* Faulty variant: the sweep looks at what is pending only.
ReclaimNothing ==
    /\ image.status = "processing"
    /\ \A w \in Worker : Idle(w)
    /\ UNCHANGED vars

\* reclaim_stale_processing.  A task lives no longer than STALE_AFTER_SECONDS
\* (time_limit), so whoever has claimed the image is dead.
Reclaim ==
    /\ image.status = "processing"
    /\ \A w \in Worker : Idle(w)
    /\ image' = [image EXCEPT !.status = "pending"]
    /\ UNCHANGED <<deleted, original, stored, request, job, kills, calm, spoiled>>

-----------------------------------------------------------------------------
Requests(q) ==
    \/ Load(q) \/ PutOriginal(q) \/ SaveReplaced(q) \/ Regenerate(q) \/ Delete(q)
    \/ \E moved \in SUBSET Breakpoint : SaveCrop(q, moved)

Works(w) == Fetch(w) \/ Finish(w) \/ \E b \in Breakpoint : PutVariant(w, b)

Next ==
    \/ \E q \in Request : Requests(q)
    \/ \E w \in Worker : Claim(w) \/ Works(w) \/ Fail(w) \/ Kill(w)
    \/ Reclaim

Spec == Init /\ [][Next]_vars

\* Beat runs the sweep, and a worker that lives goes on.
Fairness ==
    /\ WF_vars(\E w \in Worker : Claim(w))
    /\ \A w \in Worker : WF_vars(Works(w))
    /\ WF_vars(Reclaim)

FairSpec == Spec /\ Fairness

-----------------------------------------------------------------------------
(***************************************************************************)
(* Properties                                                              *)
(***************************************************************************)

\* What storage shows is what the row says.
ShowsLatest ==
    \A b \in Breakpoint : stored[b] = [original |-> original, crop |-> image.crops[b]]

Ready == ~deleted /\ image.status = "ready" /\ \A q \in Request : request[q].at # "replacing"

\* A ready image shows its latest original and crops, and at a URL, which ends
\* in the version, that has never shown other bytes (a browser would still
\* have those): whatever fails or is killed, as long as nothing is asked for
\* during a generation (crop, generate_variants_for_breakpoints,
\* process_one, _handle_failure).
CalmShowsLatest == calm /\ Ready => ShowsLatest /\ image.version \notin spoiled

\* Nor is it then worked on twice at a time, though two tasks look for it and
\* the dead are replaced (try_claim_pending, reclaim_stale_processing).
CalmOneWorker ==
    calm => \A v, w \in Worker : ~Idle(v) /\ ~Idle(w) => v = w

\* A queued image is made or given up, also when workers die (run, MAX_ATTEMPTS).
Settles == image.status = "pending" ~> (image.status \in {"ready", "failed"} \/ deleted)
=============================================================================
