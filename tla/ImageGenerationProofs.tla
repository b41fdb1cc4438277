------------------------ MODULE ImageGenerationProofs ------------------------
(***************************************************************************)
(* What holds of an image and its variants for any number of breakpoints,  *)
(* requests, workers, attempts and kills: the attempts stay bounded, and   *)
(* without overlapping requests one worker at a time makes what is shown.  *)
(***************************************************************************)
EXTENDS ImageGeneration, FiniteSetTheorems, TLAPS

Done == {q \in Request : request[q].at = "done"}

\* Only the end of a request or the death of a worker allows for an attempt
\* above MAX_ATTEMPTS.
Allowed == MaxAttempts + kills + Cardinality(Done)

\* What can still be claimed has an attempt left: it is queued, or processing
\* with nobody at work on it because the last one was killed.
Claimable ==
    /\ ~deleted
    /\ \/ image.status = "pending"
       \/ image.status = "processing" /\ \A w \in Worker : Idle(w)

AttemptsBounded ==
    /\ image.attempts <= Allowed
    /\ \A q \in Request : request[q].image.attempts <= Allowed
    /\ Claimable => image.attempts < Allowed

\* What the next job makes.
Todo == IF image.pending = {} THEN Breakpoint ELSE image.pending

Shows(b) == stored[b] = [original |-> original, crop |-> image.crops[b]]

Replacing == \E q \in Request : request[q].at = "replacing"

\* A job goes by the row as it is.
JobCurrent ==
    \A w \in Worker :
        ~Idle(w) => /\ image.status = "processing"
                    /\ job[w].crops = image.crops
                    /\ job[w].version = image.version
                    /\ job[w].at = "claimed" => job[w].todo = Todo

\* No version has shown other bytes that is still to come, nor that of an
\* image that is ready.
VersionsFresh ==
    /\ \A n \in spoiled : n <= image.version
    /\ ~deleted /\ image.status = "ready" => image.version \notin spoiled

\* What is not queued shows the latest; what a job has made, too.
ShownOrQueued ==
    ~deleted /\ ~Replacing =>
        /\ image.status = "ready" => \A b \in Breakpoint : Shows(b)
        /\ image.status \in {"pending", "processing"} => \A b \in Breakpoint \ Todo : Shows(b)
        /\ \A w \in Worker : job[w].at = "making" =>
              /\ job[w].original = original
              /\ \A b \in Breakpoint : b \in job[w].todo \/ job[w].made[b] = "failed" \/ Shows(b)

\* The inductive invariant.  While a request replaces the original nothing is
\* said of what is shown: its second step queues every breakpoint.
IInv ==
    /\ TypeOK
    /\ AttemptsBounded
    /\ CalmOneWorker
    /\ calm => JobCurrent /\ VersionsFresh /\ ShownOrQueued

-----------------------------------------------------------------------------
(***************************************************************************)
(* Types                                                                   *)
(***************************************************************************)

\* The rows, the bound of the attempts left out.
Row ==
    [status : {"pending", "processing", "ready", "failed"},
     crops : [Breakpoint -> Crop],
     pending : SUBSET Breakpoint,
     attempts : Nat,
     version : Nat,
     variants : [Breakpoint -> {"none", "ready", "failed"}]]

\* The jobs of the workers.
Job ==
    [at : {"idle", "claimed", "making"},
     crops : [Breakpoint -> Crop],
     version : Nat,
     original : Original,
     todo : SUBSET Breakpoint,
     made : [Breakpoint -> {"none", "ready", "failed"}]]

\* The requests that are done are counted by a natural number.
LEMMA DoneType ==
    /\ IsFiniteSet(Done)
    /\ Cardinality(Done) \in Nat
    /\ Cardinality(Request) \in Nat
    /\ Cardinality(Done) <= Cardinality(Request)
<1>1. Done \subseteq Request
  BY DEF Done
<1>2. QED
  BY <1>1, ImageAssumption, FS_Subset, FS_CardinalityType

\* The same in the next state.
LEMMA DoneTypeNext ==
    /\ IsFiniteSet(Done')
    /\ Cardinality(Done') \in Nat
    /\ Cardinality(Done') <= Cardinality(Request)
<1>1. Done' \subseteq Request
  BY DEF Done
<1>2. QED
  BY <1>1, ImageAssumption, FS_Subset, FS_CardinalityType

\* A request that ends is one more.
LEMMA DoneGrows ==
    ASSUME TypeOK, NEW q \in Request, request[q].at # "done", NEW r,
           request' = [request EXCEPT ![q] = r], r.at = "done"
    PROVE  Cardinality(Done') = Cardinality(Done) + 1
<1>1. Done' = Done \cup {q} /\ q \notin Done
  BY DEF Done, TypeOK
<1>2. QED
  BY <1>1, DoneType, FS_AddElement

\* A row that is within the bound of the attempts has its type.
LEMMA RowIsImage ==
    ASSUME NEW i \in Row, i.attempts <= MaxAttempts + MaxKills + Cardinality(Request)
    PROVE  i \in Image
<1>1. i.attempts \in 0..(MaxAttempts + MaxKills + Cardinality(Request))
  BY DoneType, ImageAssumption DEF Row
<1>2. QED
  BY <1>1 DEF Row, Image

\* An image is one of the rows a request can load.
LEMMA ImageIsRow == ASSUME NEW i \in Image PROVE i \in Row /\ i.attempts \in Nat
<1>1. i.attempts \in 0..(MaxAttempts + MaxKills + Cardinality(Request))
  BY DEF Image
<1>2. i.attempts \in Nat
  BY <1>1, DoneType, ImageAssumption
<1>3. QED
  BY <1>2 DEF Image, Row

\* The upload's row is an image with no attempt made.
LEMMA UploadedType == Uploaded \in Image /\ Uploaded.attempts = 0
<1>1. 0 \in 0..(MaxAttempts + MaxKills + Cardinality(Request))
  BY DoneType, ImageAssumption
<1>2. QED
  BY <1>1 DEF Uploaded, Image, Crop

\* What a worker that goes on does to its job; the others' stay.
LEMMA FetchJob ==
    ASSUME TypeOK, NEW w \in Worker, Fetch(w)
    PROVE  /\ job[w].at = "claimed"
           /\ job'[w] \in Job
           /\ job'[w].at = "making" /\ job'[w].original = original
           /\ job'[w].crops = job[w].crops /\ job'[w].version = job[w].version
           /\ job'[w].todo = job[w].todo
           /\ \A v \in Worker : v # w => job'[v] = job[v]
<1>1. DOMAIN job = Worker
  BY DEF TypeOK
<1>2. job' = [job EXCEPT ![w] = [job[w] EXCEPT !.at = "making", !.original = original]]
  BY <1>1 DEF Fetch
<1>3. job[w] \in Job /\ original \in Original
  BY DEF TypeOK, Job
<1>4. job'[w] = [job[w] EXCEPT !.at = "making", !.original = original]
  BY <1>1, <1>2
<1>5. \A v \in Worker : v # w => job'[v] = job[v]
  BY <1>1, <1>2
<1>6. job[w].at = "claimed"
  BY DEF Fetch
<1>7. QED
  BY <1>3, <1>4, <1>5, <1>6 DEF Job

\* What PutVariant makes of it: the outcome of the put and the fields of the job.
Puts(w, b, outcome) ==
    /\ job'[w].made = [job[w].made EXCEPT ![b] = outcome]
    /\ outcome = "ready" =>
          stored' = [stored EXCEPT ![b] = [original |-> job[w].original, crop |-> job[w].crops[b]]]
    /\ outcome = "failed" => stored' = stored

\* What putting one variant changes: one breakpoint of one job, and its file.
LEMMA PutJob ==
    ASSUME TypeOK, NEW w \in Worker, NEW b \in Breakpoint, PutVariant(w, b)
    PROVE  /\ job[w].at = "making" /\ b \in job[w].todo
           /\ job'[w] \in Job
           /\ job'[w].at = "making"
           /\ job'[w].crops = job[w].crops
           /\ job'[w].version = job[w].version
           /\ job'[w].original = job[w].original
           /\ job'[w].todo = job[w].todo \ {b}
           /\ \E outcome \in {"ready", "failed"} : Puts(w, b, outcome)
           /\ \A v \in Worker : v # w => job'[v] = job[v]
<1>1. DOMAIN job = Worker /\ job[w] \in Job
  BY DEF TypeOK, Job
<1>2. PICK outcome \in {"ready", "failed"} :
         /\ job' = [job EXCEPT ![w].todo = @ \ {b}, ![w].made[b] = outcome]
         /\ outcome = "ready" =>
               stored' = [stored EXCEPT ![b] = [original |-> job[w].original,
                                                crop |-> job[w].crops[b]]]
         /\ outcome = "failed" => stored' = stored
  BY DEF PutVariant
<1> DEFINE made == [job[w].made EXCEPT ![b] = outcome]
           todo == job[w].todo \ {b}
<1>3. job' = [job EXCEPT ![w] = [job[w] EXCEPT !.todo = todo, !.made = made]]
  BY <1>1, <1>2 DEF Job
<1>4. job'[w] = [job[w] EXCEPT !.todo = todo, !.made = made]
  BY <1>1, <1>3
<1>5. todo \in SUBSET Breakpoint /\ made \in [Breakpoint -> {"none", "ready", "failed"}]
  BY <1>1 DEF Job
<1>6. \A v \in Worker : v # w => job'[v] = job[v]
  BY <1>1, <1>3
<1> HIDE DEF made, todo
<1>7. /\ job'[w] \in Job /\ job'[w].at = job[w].at
      /\ job'[w].crops = job[w].crops
      /\ job'[w].version = job[w].version
      /\ job'[w].original = job[w].original
      /\ job'[w].todo = todo
      /\ job'[w].made = made
  BY <1>1, <1>4, <1>5 DEF Job
<1>8. job[w].at = "making" /\ b \in job[w].todo
  BY DEF PutVariant
<1>9. Puts(w, b, outcome)
  BY <1>2, <1>7 DEF Puts, made
<1>10. QED
  BY <1>2, <1>6, <1>7, <1>8, <1>9 DEF todo

-----------------------------------------------------------------------------
(***************************************************************************)
(* The attempts                                                            *)
(***************************************************************************)

\* A request that ends writes a number of attempts that was allowed when it
\* loaded the row, and its end allows for one more.
LEMMA AnswerBound ==
    ASSUME TypeOK, AttemptsBounded, NEW q \in Request, Answers(q),
           request[q].at \in {"loaded", "replacing"},
           image'.attempts \in {0, image.attempts, request[q].image.attempts}
    PROVE  AttemptsBounded'
<1>1. Cardinality(Done') = Cardinality(Done) + 1
  BY DoneGrows DEF Answers
<1>2. Allowed' = Allowed + 1 /\ Allowed \in Nat \ {0}
  <2>1. kills \in 0..MaxKills /\ kills' = kills
    BY DEF TypeOK, Answers
  <2>2. QED
    BY <1>1, <2>1, DoneType, ImageAssumption DEF Allowed
<1>3. image.attempts \in Nat /\ request[q].image.attempts \in Nat
  BY ImageIsRow DEF TypeOK
<1>4. image'.attempts < Allowed'
  BY <1>2, <1>3 DEF AttemptsBounded
<1>5. ASSUME NEW p \in Request PROVE request'[p].image.attempts <= Allowed'
  <2>1. request[p].image.attempts \in Nat /\ request[p].image.attempts <= Allowed
    BY ImageIsRow DEF TypeOK, AttemptsBounded
  <2>2. request'[p].image \in {request[p].image, Uploaded}
    BY DEF Answers, TypeOK
  <2>3. QED
    BY <2>1, <2>2, <1>2, UploadedType
<1>6. image'.attempts \in Nat
  BY <1>3
<1>7. QED
  BY <1>2, <1>4, <1>5, <1>6 DEF AttemptsBounded
\* A step that ends no request and kills no worker allows for what it did.
LEMMA AllowedType ==
    ASSUME TypeOK
    PROVE  Allowed \in Nat \ {0} /\ MaxAttempts <= Allowed
<1>1. kills \in 0..MaxKills
  BY DEF TypeOK
<1>2. QED
  BY <1>1, DoneType, ImageAssumption DEF Allowed

\* What bounds the attempts does not move with the rest of the row.
LEMMA SameAllowed ==
    ASSUME TypeOK, UNCHANGED kills,
           \A q \in Request : request'[q].at = "done" <=> request[q].at = "done"
    PROVE  Allowed' = Allowed
<1>1. Done' = Done
  BY DEF Done
<1>2. QED
  BY <1>1 DEF Allowed

\* Every step keeps the attempts within their bound.
LEMMA AttemptsStep ==
    ASSUME TypeOK, AttemptsBounded, [Next]_vars
    PROVE  AttemptsBounded'
<1>1. /\ image \in Image /\ image.attempts \in Nat
      /\ \A q \in Request : request[q].image \in Image /\ request[q].image.attempts \in Nat
  BY ImageIsRow DEF TypeOK
<1>2. Allowed \in Nat \ {0} /\ MaxAttempts <= Allowed /\ MaxAttempts \in Nat \ {0}
  BY AllowedType, ImageAssumption
<1>3. /\ \A q \in Request : request[q].image.attempts <= Allowed
      /\ image.attempts <= Allowed
      /\ Claimable => image.attempts < Allowed
  BY DEF AttemptsBounded
<1>4. ASSUME NEW q \in Request, Load(q) PROVE AttemptsBounded'
  <2>1. Allowed' = Allowed
    BY <1>4, SameAllowed DEF Load, TypeOK
  <2>2. ASSUME NEW p \in Request PROVE request'[p].image \in {request[p].image, image}
    BY <1>4 DEF Load, TypeOK
  <2>3. Claimable' => Claimable
    BY <1>4 DEF Load, Claimable, Idle
  <2>4. image' = image
    BY <1>4 DEF Load
  <2>5. QED
    BY <1>3, <2>1, <2>2, <2>3, <2>4 DEF AttemptsBounded
<1>5. ASSUME NEW q \in Request, PutOriginal(q) PROVE AttemptsBounded'
  <2>1. Allowed' = Allowed
    BY <1>5, SameAllowed DEF PutOriginal, TypeOK
  <2>2. ASSUME NEW p \in Request PROVE request'[p].image = request[p].image
    BY <1>5 DEF PutOriginal, TypeOK
  <2>3. Claimable' => Claimable
    BY <1>5 DEF PutOriginal, Claimable, Idle
  <2>4. image' = image
    BY <1>5 DEF PutOriginal
  <2>5. QED
    BY <1>3, <2>1, <2>2, <2>3, <2>4 DEF AttemptsBounded
<1>6. ASSUME NEW q \in Request, NEW moved \in SUBSET Breakpoint, SaveCrop(q, moved)
      PROVE  AttemptsBounded'
  <2>1. image'.attempts = 0
    BY <1>1, <1>6 DEF SaveCrop, Image
  <2>2. QED
    BY <1>6, <2>1, AnswerBound DEF SaveCrop
<1>7. ASSUME NEW q \in Request, SaveReplaced(q) PROVE AttemptsBounded'
  <2>1. image'.attempts = 0
    BY <1>1, <1>7 DEF SaveReplaced, Image
  <2>2. QED
    BY <1>7, <2>1, AnswerBound DEF SaveReplaced
<1>8. ASSUME NEW q \in Request, Regenerate(q) PROVE AttemptsBounded'
  <2>1. image'.attempts = request[q].image.attempts
    BY <1>1, <1>8 DEF Regenerate, Image
  <2>2. QED
    BY <1>8, <2>1, AnswerBound DEF Regenerate
<1>9. ASSUME NEW q \in Request, Delete(q) PROVE AttemptsBounded'
  <2>1. Cardinality(Done') = Cardinality(Done) + 1
    BY <1>9, DoneGrows DEF Delete
  <2>2. Allowed' = Allowed + 1
    <3>1. kills \in 0..MaxKills /\ kills' = kills
      BY <1>9 DEF TypeOK, Delete
    <3>2. QED
      BY <2>1, <3>1, DoneType, ImageAssumption DEF Allowed
  <2>3. ASSUME NEW p \in Request PROVE request'[p].image \in {request[p].image, Uploaded}
    BY <1>9 DEF Delete, TypeOK
  <2>4. image' = image /\ ~Claimable'
    BY <1>9 DEF Delete, Claimable
  <2>5. ASSUME NEW p \in Request PROVE request'[p].image.attempts <= Allowed'
    BY <1>1, <1>2, <1>3, <2>2, <2>3, UploadedType
  <2>6. QED
    BY <1>1, <1>2, <1>3, <2>2, <2>4, <2>5 DEF AttemptsBounded
<1>10. ASSUME NEW w \in Worker, Claim(w) PROVE AttemptsBounded'
  <2>1. Allowed' = Allowed /\ request' = request
    BY <1>10, SameAllowed DEF Claim
  <2>2. image'.attempts = image.attempts + 1 /\ image'.status = "processing"
    BY <1>1, <1>10 DEF Claim, Image
  <2>3. Claimable
    BY <1>10 DEF Claim, Claimable
  <2>4. ~Idle(w)'
    BY <1>10 DEF Claim, Claimed, NoJob, Idle, TypeOK
  <2>5. ~Claimable'
    BY <2>2, <2>4 DEF Claimable
  <2>6. QED
    BY <1>1, <1>2, <1>3, <2>1, <2>2, <2>3, <2>5 DEF AttemptsBounded
<1>11. ASSUME NEW w \in Worker, Fetch(w) \/ \E b \in Breakpoint : PutVariant(w, b)
       PROVE  AttemptsBounded'
  <2>1. Allowed' = Allowed /\ request' = request /\ image' = image /\ deleted' = deleted
    BY <1>11, SameAllowed DEF Fetch, PutVariant
  <2>2. \A v \in Worker : Idle(v)' <=> Idle(v)
    BY <1>11, FetchJob, PutJob DEF Idle
  <2>3. QED
    BY <1>3, <2>1, <2>2 DEF AttemptsBounded, Claimable
<1>12. ASSUME NEW w \in Worker, Finish(w) PROVE AttemptsBounded'
  <2>1. Allowed' = Allowed /\ request' = request /\ deleted' = deleted
    BY <1>12, SameAllowed DEF Finish, Rests
  <2>2. image'.attempts = image.attempts
    BY <1>1, <1>12 DEF Finish, Image
  <2>3. ~deleted => image'.status \in {"ready", "failed"}
    BY <1>1, <1>12 DEF Finish, Image, Outcome
  <2>4. ~Claimable'
    BY <2>1, <2>3 DEF Claimable
  <2>5. QED
    BY <1>3, <2>1, <2>2, <2>4 DEF AttemptsBounded
<1>13. ASSUME NEW w \in Worker, Fail(w) PROVE AttemptsBounded'
  <2>1. Allowed' = Allowed /\ request' = request /\ deleted' = deleted
    BY <1>13, SameAllowed DEF Fail, Rests
  <2>2. image'.attempts = image.attempts
    BY <1>1, <1>13 DEF Fail, Image
  <2>3. ~deleted => image'.status = IF image.attempts >= MaxAttempts THEN "failed" ELSE "pending"
    BY <1>1, <1>13 DEF Fail, Image
  <2>4. Claimable' => image.attempts < MaxAttempts
    BY <1>1, <1>2, <2>1, <2>3 DEF Claimable
  <2>5. QED
    BY <1>1, <1>2, <1>3, <2>1, <2>2, <2>4 DEF AttemptsBounded
<1>14. ASSUME NEW w \in Worker, Kill(w) PROVE AttemptsBounded'
  <2>1. Allowed' = Allowed + 1
    <3>1. Done' = Done
      BY <1>14 DEF Kill, Rests, Done
    <3>2. kills \in 0..MaxKills /\ kills' = kills + 1
      BY <1>14 DEF Kill, TypeOK
    <3>3. QED
      BY <3>1, <3>2, DoneType, ImageAssumption DEF Allowed
  <2>2. image' = image /\ request' = request
    BY <1>14 DEF Kill, Rests
  <2>3. QED
    BY <1>1, <1>2, <1>3, <2>1, <2>2 DEF AttemptsBounded
<1>15. ASSUME Reclaim PROVE AttemptsBounded'
  <2>1. Allowed' = Allowed /\ request' = request /\ deleted' = deleted
    BY <1>15, SameAllowed DEF Reclaim
  <2>2. image'.attempts = image.attempts
    BY <1>1, <1>15 DEF Reclaim, Image
  <2>3. Claimable' => Claimable
    BY <1>15, <2>1 DEF Reclaim, Claimable
  <2>4. QED
    BY <1>3, <2>1, <2>2, <2>3 DEF AttemptsBounded
<1>16. CASE UNCHANGED vars
  <2>1. Allowed' = Allowed /\ request' = request /\ image' = image /\ (Claimable' <=> Claimable)
    BY <1>16 DEF vars, Allowed, Done, Claimable, Idle
  <2>2. QED
    BY <1>3, <2>1 DEF AttemptsBounded
<1>17. QED
  BY <1>4, <1>5, <1>6, <1>7, <1>8, <1>9, <1>10, <1>11, <1>12, <1>13, <1>14, <1>15, <1>16
     DEF Next, Requests, Works
\* So every step keeps the types.
LEMMA TypeStep ==
    ASSUME TypeOK, AttemptsBounded, [Next]_vars
    PROVE  TypeOK'
<1>1. /\ image \in Image /\ image \in Row /\ image.attempts \in Nat
      /\ \A q \in Request : request[q].image \in Image /\ request[q].image \in Row
  BY ImageIsRow DEF TypeOK
<1>2. ASSUME kills' \in 0..MaxKills, image' \in Row
      PROVE  image' \in Image
  <2>1. image'.attempts <= Allowed'
    BY AttemptsStep DEF AttemptsBounded
  <2>2. Allowed' <= MaxAttempts + MaxKills + Cardinality(Request) /\ Allowed' \in Nat
    BY <1>2, DoneTypeNext, DoneType, ImageAssumption DEF Allowed
  <2>3. image'.attempts \in Nat
    BY <1>2 DEF Row
  <2>4. image'.attempts <= MaxAttempts + MaxKills + Cardinality(Request)
    BY <2>1, <2>2, <2>3, DoneType, ImageAssumption
  <2>5. QED
    BY <1>2, <2>4, RowIsImage
<1>3. ASSUME NEW q \in Request, Requests(q) PROVE TypeOK'
  <2>1. /\ kills' = kills /\ job' = job /\ spoiled' = spoiled
        /\ deleted' \in BOOLEAN /\ original' \in Original /\ calm' \in BOOLEAN
    BY <1>3 DEF Requests, Load, PutOriginal, SaveReplaced, Regenerate, Delete, SaveCrop, Answers,
                Undisturbed, TypeOK, Original
  <2>2. stored' \in [Breakpoint -> Content \cup {NoObject}]
    BY <1>3 DEF Requests, Load, PutOriginal, SaveReplaced, Regenerate, Delete, SaveCrop, TypeOK
  <2>3. request' \in [Request -> [at : {"unsent", "loaded", "replacing", "done"}, image : Image]]
    <3>1. request \in [Request -> [at : {"unsent", "loaded", "replacing", "done"}, image : Image]]
      BY DEF TypeOK
    <3>2. CASE Load(q)
      BY <1>1, <3>1, <3>2 DEF Load
    <3>3. CASE PutOriginal(q)
      BY <1>1, <3>1, <3>3 DEF PutOriginal
    <3>4. CASE request' = [request EXCEPT ![q] = [at |-> "done", image |-> Uploaded]]
      BY <3>1, <3>4, UploadedType
    <3>5. QED
      BY <1>3, <3>2, <3>3, <3>4 DEF Requests, SaveReplaced, Regenerate, Delete, SaveCrop, Answers
  <2>4. image' \in Row
    <3> DEFINE seen == request[q].image
    <3>0. /\ seen.crops \in [Breakpoint -> Crop] /\ seen.version \in Nat
          /\ image.status \in {"pending", "processing", "ready", "failed"}
          /\ image.variants \in [Breakpoint -> {"none", "ready", "failed"}]
      BY <1>1 DEF Row
    <3>1. ASSUME NEW moved \in SUBSET Breakpoint, SaveCrop(q, moved)
          PROVE  image' \in Row
      <4> DEFINE changed == moved \cup {b \in Breakpoint : seen.variants[b] # "ready"}
                 status == IF changed = {} THEN image.status ELSE Queued(q)
                 crops == [b \in Breakpoint |-> IF b \in moved THEN q ELSE seen.crops[b]]
                 version == seen.version + 1
      <4>1. crops \in [Breakpoint -> Crop] /\ changed \in SUBSET Breakpoint
        BY <3>0 DEF Crop
      <4>2. status \in {"pending", "processing", "ready", "failed"} /\ version \in Nat
        BY <3>0 DEF Queued
      <4>3. image' = [image EXCEPT !.status = status, !.crops = crops, !.pending = changed,
                                   !.attempts = 0, !.version = version]
        BY <3>1 DEF SaveCrop
      <4> HIDE DEF status, crops, changed, version
      <4>4. QED
        BY <1>1, <4>1, <4>2, <4>3 DEF Row
    <3>2. CASE SaveReplaced(q)
      <4> DEFINE crops == [b \in Breakpoint |-> "default"]
                 version == seen.version + 1
                 variants == [b \in Breakpoint |-> IF seen.variants[b] = "none"
                                                   THEN image.variants[b] ELSE "none"]
      <4>1. /\ crops \in [Breakpoint -> Crop] /\ version \in Nat
            /\ variants \in [Breakpoint -> {"none", "ready", "failed"}]
        BY <3>0 DEF Crop
      <4>2. image' = [image EXCEPT !.status = "pending", !.crops = crops, !.pending = Breakpoint,
                                   !.attempts = 0, !.version = version, !.variants = variants]
        BY <1>1, <3>2 DEF SaveReplaced, Row
      <4> HIDE DEF crops, version, variants
      <4>3. QED
        BY <1>1, <4>1, <4>2 DEF Row
    <3>3. CASE Regenerate(q)
      BY <1>1, <3>3 DEF Regenerate, Queued, Row
    <3>4. CASE Load(q) \/ PutOriginal(q) \/ Delete(q)
      BY <1>1, <3>4 DEF Load, PutOriginal, Delete
    <3>5. QED
      BY <1>3, <3>1, <3>2, <3>3, <3>4 DEF Requests
  <2>5. image' \in Image
    BY <1>2, <2>1, <2>4 DEF TypeOK
  <2>6. QED
    BY <2>1, <2>2, <2>3, <2>5 DEF TypeOK
<1>4. ASSUME NEW w \in Worker, Claim(w) PROVE TypeOK'
  <2>1. image' \in Row
    <3>1. image' = [image EXCEPT !.status = "processing", !.attempts = image.attempts + 1]
      BY <1>1, <1>4 DEF Claim, Row
    <3>2. image.attempts + 1 \in Nat
      BY <1>1
    <3>3. QED
      BY <1>1, <3>1, <3>2 DEF Row
  <2>2. Claimed \in Job
    BY <1>1 DEF Claimed, NoJob, Uploaded, Job, Row, Original, Crop
  <2>3. job' \in [Worker -> Job]
    BY <1>4, <2>2 DEF Claim, TypeOK, Job
  <2>4. image' \in Image
    BY <1>2, <1>4, <2>1 DEF Claim, TypeOK
  <2>5. QED
    BY <1>4, <2>3, <2>4 DEF Claim, TypeOK, Job
<1>5. ASSUME NEW w \in Worker, Fetch(w) PROVE TypeOK'
  <2>1. job' \in [Worker -> Job]
    <3>1. job \in [Worker -> Job]
      BY DEF TypeOK, Job
    <3>2. job'[w] \in Job /\ job' = [job EXCEPT ![w] = job'[w]]
      BY <1>5, <3>1, FetchJob DEF Fetch
    <3>3. QED
      BY <3>1, <3>2
  <2>2. QED
    BY <1>5, <2>1 DEF Fetch, TypeOK, Job
<1>6. ASSUME NEW w \in Worker, NEW b \in Breakpoint, PutVariant(w, b) PROVE TypeOK'
  <2>1. job[w] \in Job /\ DOMAIN job' = Worker
    BY <1>6 DEF TypeOK, Job, PutVariant
  <2>2. job'[w] \in Job
    BY <1>6, PutJob
  <2>3. \A v \in Worker : job'[v] \in Job
    <3>1. \A v \in Worker : job[v] \in Job
      BY DEF TypeOK, Job
    <3>2. \A v \in Worker : v # w => job'[v] = job[v]
      BY <1>6, PutJob
    <3>3. QED
      BY <2>2, <3>1, <3>2
  <2>4. [original |-> job[w].original, crop |-> job[w].crops[b]] \in Content
    BY <2>1 DEF Job, Content
  <2>5. /\ stored' \in {stored, [stored EXCEPT ![b] = [original |-> job[w].original,
                                                      crop |-> job[w].crops[b]]]}
        /\ spoiled' \in {spoiled, spoiled \cup {image.version}}
    BY <1>6 DEF PutVariant
  <2>6. stored' \in [Breakpoint -> Content \cup {NoObject}] /\ spoiled' \subseteq Nat
    <3>1. stored \in [Breakpoint -> Content \cup {NoObject}] /\ spoiled \subseteq Nat
      BY DEF TypeOK
    <3>2. image.version \in Nat
      BY <1>1 DEF Row
    <3>3. QED
      BY <2>4, <2>5, <3>1, <3>2
  <2>7. job' \in [Worker -> Job]
    <3>1. job' = [v \in Worker |-> job'[v]]
      BY <1>6, <2>1 DEF PutVariant, TypeOK
    <3>2. QED
      BY <2>3, <3>1
  <2>8. QED
    BY <1>6, <2>6, <2>7 DEF PutVariant, TypeOK, Job
<1>7. ASSUME NEW w \in Worker, Finish(w) \/ Fail(w) \/ Kill(w) PROVE TypeOK'
  <2>1. NoJob \in Job
    BY DEF NoJob, Uploaded, Job, Original, Crop
  <2>2. job' \in [Worker -> Job]
    BY <1>7, <2>1 DEF Finish, Fail, Kill, Rests, TypeOK, Job
  <2>3. Variants(w) \in [Breakpoint -> {"none", "ready", "failed"}] /\ job[w].version \in Nat
    BY <1>1 DEF Variants, TypeOK, Row
  <2>4. image' \in Row
    <3>1. CASE Finish(w)
      <4> DEFINE variants == Variants(w)
                 status == IF deleted THEN image.status ELSE Outcome(w)
                 version == IF deleted THEN image.version ELSE job[w].version + 1
      <4>1. /\ status \in {"pending", "processing", "ready", "failed"} /\ version \in Nat
            /\ variants \in [Breakpoint -> {"none", "ready", "failed"}]
        BY <1>1, <2>3 DEF Outcome, Row
      <4>2. image' = [image EXCEPT !.variants = variants, !.status = status, !.version = version]
        BY <3>1 DEF Finish
      <4> HIDE DEF variants, status, version
      <4>3. QED
        BY <1>1, <4>1, <4>2 DEF Row
    <3>2. CASE Fail(w)
      BY <1>1, <3>2 DEF Fail, Row
    <3>3. CASE Kill(w)
      BY <1>1, <3>3 DEF Kill
    <3>4. QED
      BY <1>7, <3>1, <3>2, <3>3
  <2>5. kills' \in 0..MaxKills
    BY <1>7, ImageAssumption DEF Finish, Fail, Kill, TypeOK
  <2>6. image' \in Image
    BY <1>2, <2>4, <2>5
  <2>7. UNCHANGED <<deleted, original, stored, request, calm, spoiled>>
    BY <1>7 DEF Finish, Fail, Kill, Rests
  <2>8. QED
    BY <2>2, <2>5, <2>6, <2>7 DEF TypeOK, Job
<1>8. CASE Reclaim
  <2>1. image' \in Row
    BY <1>1, <1>8 DEF Reclaim, Row
  <2>2. image' \in Image
    BY <1>2, <1>8, <2>1 DEF Reclaim, TypeOK
  <2>3. QED
    BY <1>8, <2>2 DEF Reclaim, TypeOK
<1>9. CASE UNCHANGED vars
  BY <1>9 DEF vars, TypeOK
<1>10. QED
  BY <1>3, <1>4, <1>5, <1>6, <1>7, <1>8, <1>9 DEF Next, Works
-----------------------------------------------------------------------------
(***************************************************************************)
(* What is shown                                                           *)
(***************************************************************************)

\* What holds as long as no request overlaps a generation or another.
CalmInv ==
    /\ \A v, w \in Worker : ~Idle(v) /\ ~Idle(w) => v = w
    /\ JobCurrent
    /\ VersionsFresh
    /\ ShownOrQueued

\* A request that loads, replaces the original or deletes.
LEMMA CalmRequest ==
    ASSUME TypeOK, CalmInv, NEW q \in Request, Load(q) \/ PutOriginal(q) \/ Delete(q)
    PROVE  CalmInv'
<1>1. image' = image /\ job' = job /\ spoiled' = spoiled /\ (deleted => deleted')
  BY DEF Load, PutOriginal, Delete
<1>2. \A w \in Worker : Idle(w)' <=> Idle(w)
  BY <1>1 DEF Idle
<1>3. JobCurrent' /\ VersionsFresh'
  BY <1>1, <1>2 DEF CalmInv, JobCurrent, VersionsFresh, Todo
<1>4. ShownOrQueued'
  <2>1. CASE Load(q)
    <3>1. Replacing => Replacing'
      <4> SUFFICES ASSUME NEW p \in Request, request[p].at = "replacing" PROVE request'[p].at = "replacing"
        BY DEF Replacing
      <4>1. p # q
        BY <2>1 DEF Load
      <4>2. QED
        BY <4>1, <2>1 DEF Load, TypeOK
    <3>2. UNCHANGED <<deleted, original, stored>>
      BY <2>1 DEF Load
    <3>3. \A b : Shows(b)' <=> Shows(b)
      BY <1>1, <3>2 DEF Shows
    <3>4. Todo' = Todo
      BY <1>1 DEF Todo
    <3>5. QED
      BY <1>1, <3>1, <3>2, <3>3, <3>4 DEF CalmInv, ShownOrQueued
  <2>2. CASE PutOriginal(q)
    <3>1. request'[q].at = "replacing"
      BY <2>2 DEF PutOriginal, TypeOK
    <3>2. QED
      BY <3>1 DEF ShownOrQueued, Replacing
  <2>3. CASE Delete(q)
    BY <2>3 DEF Delete, ShownOrQueued
  <2>4. QED
    BY <2>1, <2>2, <2>3
<1>5. QED
  BY <1>2, <1>3, <1>4 DEF CalmInv

\* The end of a request that overlapped nothing: the image has not changed
\* since it was loaded, and nobody works on it.
LEMMA CalmAnswer ==
    ASSUME TypeOK, CalmInv, NEW q \in Request, NEW all, Undisturbed(q, all), Answers(q),
           UNCHANGED <<original, stored>>,
           image'.version \in {image.version, image.version + 1},
           image'.status = "ready" => image'.version = image.version + 1,
           ~deleted => \A b \in Breakpoint :
              \/ image'.status = "pending" /\ b \in Todo'
              \/ ~Replacing /\ image.status = "ready" /\ image'.crops[b] = image.crops[b]
    PROVE  CalmInv'
<1>1. job' = job /\ spoiled' = spoiled /\ deleted' = deleted
  BY DEF Answers
<1>2. \A w \in Worker : job[w].at = "idle" /\ Idle(w)'
  BY <1>1 DEF Undisturbed, Idle
<1>3. JobCurrent'
  BY <1>2 DEF JobCurrent
<1>4. VersionsFresh'
  <2>1. image.version \in Nat /\ spoiled \subseteq Nat
    BY ImageIsRow DEF TypeOK, Row
  <2>2. \A n \in spoiled : n \in Nat /\ n <= image.version
    BY <2>1 DEF CalmInv, VersionsFresh
  <2>3. \A n \in spoiled : n <= image'.version /\ n # image.version + 1
    BY <2>1, <2>2
  <2>4. QED
    BY <1>1, <2>3 DEF VersionsFresh
<1>5. ShownOrQueued'
  <2> SUFFICES ASSUME ~deleted, NEW b \in Breakpoint,
                      image'.status # "pending" \/ b \notin Todo'
               PROVE  Shows(b)'
    BY <1>1, <1>2 DEF ShownOrQueued, Idle
  <2>1. ~Replacing /\ image.status = "ready" /\ image'.crops[b] = image.crops[b]
    OBVIOUS
  <2>2. Shows(b)
    BY <2>1 DEF CalmInv, ShownOrQueued
  <2>3. QED
    BY <2>1, <2>2 DEF Shows
<1>6. QED
  BY <1>2, <1>3, <1>4, <1>5 DEF CalmInv
\* A request that ends, in a calm.
LEMMA CalmEnd ==
    ASSUME TypeOK, CalmInv, calm', NEW q \in Request,
           SaveReplaced(q) \/ Regenerate(q) \/ \E moved \in SUBSET Breakpoint : SaveCrop(q, moved)
    PROVE  CalmInv'
<1>1. image \in Row /\ request[q].image \in Row
  BY ImageIsRow DEF TypeOK
<1>2. CASE SaveReplaced(q)
  <2>1. Undisturbed(q, TRUE) /\ Answers(q) /\ UNCHANGED <<original, stored>>
    BY <1>2 DEF SaveReplaced
  <2>2. request[q].image = image
    BY <2>1 DEF Undisturbed
  <2>3. image'.status = "pending" /\ image'.pending = Breakpoint /\ image'.version = image.version + 1
    BY <1>1, <1>2, <2>2 DEF SaveReplaced, Row
  <2>4. Todo' = Breakpoint
    BY <2>3 DEF Todo
  <2>5. QED
    BY <2>1, <2>3, <2>4, CalmAnswer
<1>3. CASE Regenerate(q)
  <2>1. Undisturbed(q, TRUE) /\ Answers(q) /\ UNCHANGED <<original, stored>>
    BY <1>3 DEF Regenerate
  <2>2. request[q].image = image /\ image.status # "pending"
    BY <2>1 DEF Undisturbed
  <2>3. image'.status = "pending" /\ image'.pending = Breakpoint /\ image'.version = image.version
    BY <1>1, <1>3, <2>2 DEF Regenerate, Queued, Row
  <2>4. Todo' = Breakpoint
    BY <2>3 DEF Todo
  <2>5. QED
    BY <2>1, <2>3, <2>4, CalmAnswer
<1>4. ASSUME NEW moved \in SUBSET Breakpoint, SaveCrop(q, moved)
      PROVE  CalmInv'
  <2> DEFINE seen == request[q].image
             changed == moved \cup {b \in Breakpoint : seen.variants[b] # "ready"}
             crops == [b \in Breakpoint |-> IF b \in moved THEN q ELSE seen.crops[b]]
             status == IF changed = {} THEN image.status ELSE Queued(q)
  <2>1. /\ Undisturbed(q, FALSE) /\ Answers(q) /\ UNCHANGED <<original, stored>>
        /\ request[q].at = "loaded"
    BY <1>4 DEF SaveCrop
  <2>2. seen = image /\ image.status = "ready"
    BY <2>1 DEF Undisturbed
  <2>3. ~Replacing
    BY <2>1 DEF Undisturbed, Replacing
  <2>4. /\ image'.version = image.version + 1 /\ image'.pending = changed
        /\ image'.crops = crops /\ image'.status = status
    <3>1. image' = [image EXCEPT !.status = status, !.crops = crops, !.pending = changed,
                                 !.attempts = 0, !.version = seen.version + 1]
      BY <1>4 DEF SaveCrop
    <3> HIDE DEF status, crops, changed
    <3>2. QED
      BY <1>1, <2>2, <3>1 DEF Row
  <2>5. changed # {} => image'.status = "pending"
    BY <2>2, <2>4 DEF Queued
  <2>6. ASSUME NEW b \in Breakpoint
        PROVE  \/ image'.status = "pending" /\ b \in Todo'
               \/ image'.crops[b] = image.crops[b]
    <3>1. CASE b \in changed
      <4> HIDE DEF changed
      <4>1. QED
        BY <2>4, <2>5, <3>1 DEF Todo
    <3>2. CASE b \notin changed
      BY <2>2, <2>4, <3>2
    <3>3. QED
      BY <3>1, <3>2
  <2>7. QED
    BY <2>1, <2>2, <2>3, <2>4, <2>5, <2>6, CalmAnswer
<1>5. QED
  BY <1>2, <1>3, <1>4

\* A worker that claims the image, and the sweep.
LEMMA CalmClaim ==
    ASSUME TypeOK, CalmInv, NEW w \in Worker, Claim(w)
    PROVE  CalmInv'
<1>1. image \in Row /\ job \in [Worker -> Job]
  BY ImageIsRow DEF TypeOK, Job
<1>2. \A v \in Worker : Idle(v)
  BY DEF Claim, CalmInv, JobCurrent
<1>3. /\ image' = [image EXCEPT !.status = "processing", !.attempts = @ + 1]
      /\ job' = [job EXCEPT ![w] = Claimed]
      /\ UNCHANGED <<deleted, original, stored, request, spoiled>>
      /\ image.status = "pending"
  BY DEF Claim
<1>4. /\ image'.status = "processing" /\ image'.crops = image.crops
      /\ image'.version = image.version /\ image'.pending = image.pending
  BY <1>1, <1>3 DEF Row
<1>5. Todo' = Todo /\ \A b : Shows(b)' <=> Shows(b)
  BY <1>3, <1>4 DEF Todo, Shows
<1>6. /\ Claimed.at = "claimed" /\ Claimed.crops = image.crops
      /\ Claimed.version = image.version /\ Claimed.todo = Todo
  BY DEF Claimed, NoJob, Todo
<1>7. job'[w] = Claimed /\ \A v \in Worker : v # w => job'[v].at = "idle"
  BY <1>1, <1>2, <1>3 DEF Idle
<1>8. /\ \A v, u \in Worker : ~Idle(v)' /\ ~Idle(u)' => v = u
      /\ JobCurrent'
  BY <1>4, <1>5, <1>6, <1>7 DEF JobCurrent, Idle
<1>9. VersionsFresh'
  BY <1>3, <1>4 DEF CalmInv, VersionsFresh
<1>10. ShownOrQueued'
  <2>1. \A v \in Worker : job'[v].at # "making"
    BY <1>6, <1>7
  <2>2. Replacing' <=> Replacing
    BY <1>3 DEF Replacing
  <2>3. QED
    BY <1>3, <1>4, <1>5, <2>1, <2>2 DEF CalmInv, ShownOrQueued
<1>11. QED
  BY <1>8, <1>9, <1>10 DEF CalmInv

\* CalmInv is kept by the sweep that gives dead claims back.
LEMMA CalmReclaim == ASSUME TypeOK, CalmInv, Reclaim PROVE CalmInv'
<1>1. image \in Row
  BY ImageIsRow DEF TypeOK
<1>2. /\ UNCHANGED <<deleted, original, stored, request, job, spoiled>>
      /\ image.status = "processing" /\ \A w \in Worker : Idle(w)
  BY DEF Reclaim
<1>3. /\ image'.status = "pending" /\ image'.crops = image.crops
      /\ image'.version = image.version /\ image'.pending = image.pending
  BY <1>1 DEF Reclaim, Row
<1>4. \A w \in Worker : Idle(w)' /\ job'[w].at # "making"
  BY <1>2 DEF Idle
<1>5. (Replacing' <=> Replacing) /\ Todo' = Todo /\ \A b : Shows(b)' <=> Shows(b)
  BY <1>2, <1>3 DEF Replacing, Todo, Shows
<1>6. QED
  <2>1. JobCurrent'
    BY <1>4 DEF JobCurrent
  <2>2. VersionsFresh'
    BY <1>2, <1>3 DEF CalmInv, VersionsFresh
  <2>3. ShownOrQueued'
    BY <1>2, <1>3, <1>4, <1>5 DEF CalmInv, ShownOrQueued
  <2>4. QED
    BY <1>4, <2>1, <2>2, <2>3 DEF CalmInv

\* A worker that reads the original.
LEMMA CalmFetch ==
    ASSUME TypeOK, CalmInv, NEW w \in Worker, Fetch(w)
    PROVE  CalmInv'
<1>1. UNCHANGED <<image, deleted, original, stored, request, spoiled>>
  BY DEF Fetch
<1>2. /\ job[w].at = "claimed" /\ job'[w].at = "making" /\ job'[w].original = original
      /\ job'[w].crops = job[w].crops /\ job'[w].version = job[w].version
      /\ job'[w].todo = job[w].todo
      /\ \A v \in Worker : v # w => job'[v] = job[v]
  BY FetchJob
<1>3. \A v \in Worker : Idle(v)' <=> Idle(v)
  BY <1>2 DEF Idle
<1>4. job[w].todo = Todo /\ image.status = "processing"
  BY <1>2 DEF CalmInv, JobCurrent, Idle
<1>5. (Replacing' <=> Replacing) /\ Todo' = Todo /\ \A b : Shows(b)' <=> Shows(b)
  BY <1>1 DEF Replacing, Todo, Shows
<1>6. JobCurrent'
  <2> SUFFICES ASSUME NEW v \in Worker, ~Idle(v)
               PROVE  /\ image.status = "processing"
                      /\ job'[v].crops = image.crops /\ job'[v].version = image.version
                      /\ job'[v].at = "claimed" => job'[v].todo = Todo
    BY <1>1, <1>3, <1>5 DEF JobCurrent
  <2>1. CASE v = w
    BY <1>2, <2>1 DEF CalmInv, JobCurrent
  <2>2. CASE v # w
    BY <1>2, <2>2 DEF CalmInv, JobCurrent
  <2>3. QED
    BY <2>1, <2>2
<1>7. VersionsFresh'
  BY <1>1 DEF CalmInv, VersionsFresh
<1>8. ShownOrQueued'
  BY <1>1, <1>2, <1>4, <1>5 DEF CalmInv, ShownOrQueued
<1>9. QED
  BY <1>3, <1>6, <1>7, <1>8 DEF CalmInv

\* A worker that puts a variant, or fails to.
LEMMA CalmPut ==
    ASSUME TypeOK, CalmInv, NEW w \in Worker, NEW b \in Breakpoint, PutVariant(w, b)
    PROVE  CalmInv'
<1>1. job[w] \in Job /\ image.version \in Nat
  BY ImageIsRow DEF TypeOK, Job, Row
<1>2. PICK outcome \in {"ready", "failed"} : Puts(w, b, outcome)
  BY PutJob
<1>3. /\ UNCHANGED <<image, deleted, original, request>>
      /\ spoiled' \in {spoiled, spoiled \cup {image.version}}
  BY DEF PutVariant
<1>4. /\ job[w].at = "making" /\ job'[w].at = "making"
      /\ \A v \in Worker : v # w => job'[v] = job[v]
  BY PutJob
<1>5. /\ job'[w].crops = job[w].crops /\ job'[w].version = job[w].version
      /\ job'[w].original = job[w].original
      /\ job'[w].todo = job[w].todo \ {b}
      /\ job'[w].made[b] = outcome
      /\ \A c \in Breakpoint : c # b => job'[w].made[c] = job[w].made[c]
  <2>1. job[w].made \in [Breakpoint -> {"none", "ready", "failed"}]
    BY <1>1 DEF Job
  <2>2. job'[w].made = [job[w].made EXCEPT ![b] = outcome]
    BY <1>2 DEF Puts
  <2>3. /\ job'[w].made[b] = outcome
        /\ \A c \in Breakpoint : c # b => job'[w].made[c] = job[w].made[c]
    BY <2>1, <2>2
  <2>4. QED
    BY <2>3, PutJob
<1>6. \A v \in Worker : Idle(v)' <=> Idle(v)
  BY <1>4 DEF Idle
<1>7. image.status = "processing" /\ job[w].crops = image.crops
  BY <1>4 DEF CalmInv, JobCurrent, Idle
<1>8. (Replacing' <=> Replacing) /\ Todo' = Todo
  BY <1>3 DEF Replacing, Todo
<1>9. JobCurrent'
  BY <1>3, <1>4, <1>5, <1>6, <1>8 DEF CalmInv, JobCurrent
<1>10. VersionsFresh'
  BY <1>1, <1>3, <1>7 DEF CalmInv, VersionsFresh
<1>11. ShownOrQueued'
  <2> SUFFICES ASSUME ~deleted, ~Replacing
               PROVE  /\ \A c \in Breakpoint \ Todo : Shows(c)'
                      /\ \A v \in Worker : job'[v].at = "making" =>
                            /\ job'[v].original = original
                            /\ \A c \in Breakpoint : \/ c \in job'[v].todo
                                                     \/ job'[v].made[c] = "failed"
                                                     \/ Shows(c)'
    BY <1>3, <1>7, <1>8 DEF ShownOrQueued
  <2>1. /\ \A c \in Breakpoint \ Todo : Shows(c)
        /\ job[w].original = original
        /\ \A c \in Breakpoint : c \in job[w].todo \/ job[w].made[c] = "failed" \/ Shows(c)
    BY <1>4, <1>7 DEF CalmInv, ShownOrQueued
  <2>2. outcome = "ready" => Shows(b)'
    BY <1>2, <1>3, <1>7, <2>1 DEF Shows, Puts, TypeOK
  <2>3. \A c \in Breakpoint : Shows(c) => Shows(c)'
    BY <1>2, <1>3, <2>2 DEF Shows, Puts, TypeOK
  <2>4. \A v \in Worker : job'[v].at = "making" => v = w
    BY <1>4, <1>6 DEF CalmInv, Idle
  <2>5. ASSUME NEW c \in Breakpoint
        PROVE  c \in job'[w].todo \/ job'[w].made[c] = "failed" \/ Shows(c)'
    BY <1>5, <2>1, <2>2, <2>3
  <2>6. QED
    BY <1>5, <2>1, <2>3, <2>4, <2>5
<1>12. QED
  BY <1>6, <1>9, <1>10, <1>11 DEF CalmInv

\* A worker that ends its job: made, failed or killed.
LEMMA CalmRest ==
    ASSUME TypeOK, CalmInv, NEW w \in Worker, Finish(w) \/ Fail(w) \/ Kill(w)
    PROVE  CalmInv'
<1>1. image \in Row /\ job[w] \in Job /\ job \in [Worker -> Job]
  BY ImageIsRow DEF TypeOK, Job
<1>2. /\ job' = [job EXCEPT ![w] = NoJob]
      /\ UNCHANGED <<deleted, original, stored, request, spoiled>>
      /\ ~Idle(w)
  BY DEF Finish, Fail, Kill, Rests, Idle
<1>3. \A v \in Worker : Idle(v)' /\ job'[v].at # "making"
  BY <1>1, <1>2 DEF CalmInv, Idle, NoJob
<1>4. /\ image.status = "processing" /\ job[w].version = image.version
      /\ image.version \in Nat /\ spoiled \subseteq Nat
  BY <1>1, <1>2 DEF CalmInv, JobCurrent, TypeOK, Row
<1>5. (Replacing' <=> Replacing) /\ \A n \in spoiled : n \in Nat /\ n <= image.version
  BY <1>2, <1>4 DEF Replacing, CalmInv, VersionsFresh
<1>6. image'.crops = image.crops /\ image'.pending = image.pending
  BY <1>1 DEF Finish, Fail, Kill, Row
<1>7. Todo' = Todo /\ \A b : Shows(b)' <=> Shows(b)
  BY <1>2, <1>6 DEF Todo, Shows
<1>8. CASE ~deleted /\ Finish(w)
  <2>1. image'.version = image.version + 1 /\ image'.status = Outcome(w)
    BY <1>1, <1>4, <1>8 DEF Finish, Row
  <2>2. image'.status \in {"ready", "failed"}
    BY <2>1 DEF Outcome
  <2>3. ASSUME ~Replacing, image'.status = "ready", NEW b \in Breakpoint
        PROVE  Shows(b)
    <3>1. job[w].at = "making" /\ job[w].todo = {}
      BY <1>8 DEF Finish
    <3>2. job[w].made[b] # "failed"
      BY <2>1, <2>3 DEF Outcome, Variants
    <3>3. QED
      BY <1>8, <2>3, <3>1, <3>2 DEF CalmInv, ShownOrQueued
  <2>4. VersionsFresh'
    BY <1>2, <1>4, <1>5, <2>1 DEF VersionsFresh
  <2>5. ShownOrQueued'
    BY <1>3, <1>5, <1>7, <2>2, <2>3 DEF ShownOrQueued
  <2>6. QED
    BY <1>3, <2>4, <2>5 DEF CalmInv, JobCurrent
<1>9. CASE deleted \/ ~Finish(w)
  <2>1. image'.version = image.version /\ (~deleted => image'.status # "ready")
    BY <1>1, <1>4, <1>9 DEF Finish, Fail, Kill, Row
  <2>2. VersionsFresh'
    BY <1>2, <1>4, <1>5, <2>1 DEF VersionsFresh
  <2>3. ShownOrQueued'
    BY <1>2, <1>3, <1>4, <1>5, <1>7, <2>1 DEF CalmInv, ShownOrQueued
  <2>4. QED
    BY <1>3, <2>2, <2>3 DEF CalmInv, JobCurrent
<1>10. QED
  BY <1>8, <1>9

-----------------------------------------------------------------------------
(***************************************************************************)
(* The theorems                                                            *)
(***************************************************************************)

\* The invariant holds after the upload.
LEMMA InitInv == Init => IInv
<1> SUFFICES ASSUME Init PROVE IInv
  OBVIOUS
<1>1. Uploaded \in Image /\ Uploaded.attempts = 0 /\ NoJob \in Job
  BY UploadedType DEF NoJob, Uploaded, Job, Original, Crop
<1>2. TypeOK
  <2>1. /\ request \in [Request -> [at : {"unsent", "loaded", "replacing", "done"}, image : Image]]
        /\ job \in [Worker -> Job]
        /\ stored \in [Breakpoint -> Content \cup {NoObject}]
    BY <1>1 DEF Init
  <2>2. kills \in 0..MaxKills
    BY ImageAssumption DEF Init
  <2>3. QED
    BY <1>1, <2>1, <2>2 DEF Init, TypeOK, Job, Original
<1>3. AttemptsBounded
  BY <1>1, <1>2, AllowedType DEF Init, AttemptsBounded
<1>4. \A w \in Worker : Idle(w) /\ job[w].at # "making"
  BY DEF Init, NoJob, Idle
<1>5. image.status = "pending" /\ Todo = Breakpoint /\ spoiled = {}
  BY DEF Init, Uploaded, Todo
<1>6. CalmInv
  <2>1. JobCurrent /\ VersionsFresh /\ ShownOrQueued
    BY <1>4, <1>5 DEF JobCurrent, VersionsFresh, ShownOrQueued
  <2>2. QED
    BY <1>4, <2>1 DEF CalmInv
<1>7. QED
  BY <1>2, <1>3, <1>6 DEF IInv, CalmInv, CalmOneWorker

\* The invariant is inductive, action by action.
LEMMA StepInv == IInv /\ [Next]_vars => IInv'
<1> SUFFICES ASSUME IInv, [Next]_vars PROVE IInv'
  OBVIOUS
<1>1. TypeOK' /\ AttemptsBounded'
  BY TypeStep, AttemptsStep DEF IInv
<1>2. ASSUME calm' PROVE CalmInv'
  <2>1. calm
    BY <1>2 DEF Next, vars, Requests, Works, Load, PutOriginal, SaveReplaced, Regenerate, Delete,
                SaveCrop, Claim, Fetch, PutVariant, Finish, Fail, Kill, Rests, Reclaim
  <2>2. TypeOK /\ CalmInv
    BY <2>1 DEF IInv, CalmInv, CalmOneWorker
  <2>3. ASSUME NEW q \in Request, Requests(q) PROVE CalmInv'
    BY <1>2, <2>2, <2>3, CalmRequest, CalmEnd DEF Requests
  <2>4. ASSUME NEW w \in Worker, Claim(w) \/ Works(w) \/ Fail(w) \/ Kill(w) PROVE CalmInv'
    BY <2>2, <2>4, CalmClaim, CalmFetch, CalmPut, CalmRest DEF Works
  <2>5. CASE Reclaim
    BY <2>2, <2>5, CalmReclaim
  <2>6. CASE UNCHANGED vars
    BY <2>2, <2>6 DEF vars, CalmInv, Idle, JobCurrent, VersionsFresh, ShownOrQueued, Todo, Shows,
                      Replacing
  <2>7. QED
    BY <2>3, <2>4, <2>5, <2>6 DEF Next
<1>3. QED
  BY <1>1, <1>2 DEF IInv, CalmInv, CalmOneWorker

\* The invariant holds always.
LEMMA Invariance == Spec => []IInv
  BY InitInv, StepInv, PTL DEF Spec

\* The rows, jobs and requests have their types at all times; in particular the
\* attempts of an image are bounded (try_claim_pending, _handle_failure).
THEOREM ImageTypes == Spec => []TypeOK
<1>1. IInv => TypeOK
  BY DEF IInv
<1>2. QED
  BY <1>1, Invariance, PTL

\* No image is worked on twice at a time in a calm (try_claim_pending,
\* reclaim_stale_processing).
THEOREM ImageOneWorker == Spec => []CalmOneWorker
<1>1. IInv => CalmOneWorker
  BY DEF IInv
<1>2. QED
  BY <1>1, Invariance, PTL

\* A ready image shows its latest original and crops, under a version that has
\* shown nothing else, as long as no request overlaps a generation or another
\* (crop, replace, regenerate, generate_variants_for_breakpoints).
THEOREM ImageShowsLatest == Spec => []CalmShowsLatest
<1>1. IInv => CalmShowsLatest
  BY DEF IInv, VersionsFresh, ShownOrQueued, CalmShowsLatest, Ready, ShowsLatest, Shows, Replacing
<1>2. QED
  BY <1>1, Invariance, PTL
=============================================================================
