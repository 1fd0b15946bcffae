---------------------------- MODULE PreviewWork ----------------------------
(***************************************************************************)
(* Which previews get rendered, and how the administration page counts     *)
(* them: the queue of uploads and the workers that sleep on one signal,    *)
(* the walk over every stored file that requests for it share, and the     *)
(* wave of work the progress bar measures.                                 *)
(***************************************************************************)
EXTENDS Integers, FiniteSets

CONSTANTS
    Uploads,    \* pictures uploaded, each handed to the background once
    Workers,    \* renderQueuedPreviews goroutines
    Walks,      \* requests for a walk: the start-up, and each restore
    MaxFiles    \* bound: files a walk finds

ASSUME PreviewWorkAssumption ==
    MaxFiles \in Nat /\ IsFiniteSet(Uploads) /\ IsFiniteSet(Workers)

VARIABLES
    upload,     \* how far handing over each upload has got
    queue,      \* pictures waiting in uploads.items
    ready,      \* a signal is waiting in uploads.ready
    worker,     \* what each worker is doing
    wanted,     \* backfillWanted
    running,    \* backfillRunning
    request,    \* how far each request for a walk, or its goroutine, has got
    unseen,     \* requests no walk has begun listing the files after
    left,       \* files each walk has counted and not finished yet
    total, done, \* the wave
    down        \* the service stops: workContext is over

queueVars == <<upload, queue, ready, worker>>
walkVars == <<wanted, running, request, unseen, left>>
wave == <<total, done, down>>
workVars == <<upload, queue, ready, worker, wanted, running, request, unseen, left, total, done, down>>

WorkInit ==
    /\ upload = [u \in Uploads |-> "stored"]
    /\ queue = 0
    /\ ready = FALSE
    /\ worker = [w \in Workers |-> "looking"]
    /\ wanted = FALSE /\ running = FALSE
    /\ request = [r \in Walks |-> "none"]
    /\ unseen = {}
    /\ left = [r \in Walks |-> 0]
    /\ total = 0 /\ done = 0
    /\ down = FALSE

NothingDone == 0

(* A finished wave is followed by a new one.                               *)
AddToWave(count) ==
    /\ IF done >= total
       THEN total' = count /\ done' = NothingDone
       ELSE total' = total + count /\ UNCHANGED done
    /\ UNCHANGED down

FinishInWave(count) ==
    /\ done' = IF done + count < total THEN done + count ELSE total
    /\ UNCHANGED <<total, down>>

-----------------------------------------------------------------------------
Handing(u, from, to) == upload[u] = from /\ upload' = [upload EXCEPT ![u] = to]

Counts(u) == Handing(u, "stored", "counted") /\ AddToWave(1)

(* push, and the signal after the queue's lock has been let go.            *)
Pushes(u) ==
    \/ Handing(u, "counted", "pushed") /\ queue' = queue + 1 /\ UNCHANGED ready
    \/ Handing(u, "pushed", "handed") /\ ready' = TRUE /\ UNCHANGED queue

QueuePreviews(u) ==
    \/ Counts(u) /\ UNCHANGED <<queue, ready, worker, walkVars>>
    \/ Pushes(u) /\ UNCHANGED <<worker, walkVars, wave>>

Works(w, at) == worker' = [worker EXCEPT ![w] = at]

NeverPassesOn == FALSE

PassesOn == queue > 1

(* pop: an item, and whether it left more behind; or nothing, and sleep.   *)
Pop(w) ==
    /\ worker[w] = "looking"
    /\ \/ ~down /\ queue > 0 /\ queue' = queue - 1 /\ Works(w, IF PassesOn THEN "passing" ELSE "rendering")
       \/ ~down /\ queue = 0 /\ Works(w, "sleeping") /\ UNCHANGED queue
       \/ down /\ Works(w, "gone") /\ UNCHANGED queue
    /\ UNCHANGED <<upload, ready, walkVars, wave>>

SignalPop(w) ==
    /\ worker[w] = "passing"
    /\ ready' = TRUE
    /\ Works(w, "rendering")
    /\ UNCHANGED <<upload, queue, walkVars, wave>>

Wake(w) ==
    /\ worker[w] = "sleeping"
    /\ \/ ready /\ ready' = FALSE /\ Works(w, "looking")
       \/ down /\ Works(w, "gone") /\ UNCHANGED ready
    /\ UNCHANGED <<upload, queue, walkVars, wave>>

(* Whatever came of the rendering, the file is finished in the wave.       *)
Render(w) ==
    /\ worker[w] = "rendering"
    /\ FinishInWave(1)
    /\ Works(w, "looking")
    /\ UNCHANGED <<upload, queue, ready, walkVars>>

-----------------------------------------------------------------------------
Moves(r, at) == request' = [request EXCEPT ![r] = at]

(* requestPreviewBackfill: the wish, then the race for who walks.          *)
Wish(r) ==
    /\ request[r] = "none"
    /\ wanted' = TRUE
    /\ unseen' = unseen \cup {r}
    /\ Moves(r, "wished")
    /\ UNCHANGED <<queueVars, running, left, wave>>

NoneRunning == ~running

StartWalking(r) ==
    /\ request[r] = "wished"
    /\ \/ NoneRunning /\ running' = TRUE /\ Moves(r, "looping")
       \/ ~NoneRunning /\ Moves(r, "done") /\ UNCHANGED running
    /\ UNCHANGED <<queueVars, wanted, unseen, left, wave>>

(* for backfillWanted.Swap(false)                                          *)
TakeWish(r) ==
    /\ request[r] = "looping"
    /\ wanted' = FALSE
    /\ Moves(r, IF wanted THEN "listing" ELSE "stopping")
    /\ UNCHANGED <<queueVars, running, unseen, left, wave>>

(* The files are listed; the listing may be called off or fail, which ends *)
(* this walk and leaves the sweep.                                         *)
ListFiles(r) ==
    /\ request[r] = "listing"
    /\ unseen' = {}
    /\ \/ /\ \E n \in 0..MaxFiles : left' = [left EXCEPT ![r] = n]
          /\ Moves(r, "counting")
       \/ Moves(r, "sweeping") /\ UNCHANGED left
    /\ UNCHANGED <<queueVars, wanted, running, wave>>

CountFiles(r) ==
    /\ request[r] = "counting"
    /\ AddToWave(left[r])
    /\ Moves(r, "walking")
    /\ UNCHANGED <<queueVars, wanted, running, unseen, left>>

(* A walk cut short by the end of the service finishes what it counted.    *)
ClosesItsPart(r) ==
    /\ FinishInWave(left[r])
    /\ left' = [left EXCEPT ![r] = 0]
    /\ Moves(r, "sweeping")

WalkFile(r) ==
    /\ request[r] = "walking"
    /\ IF ~down /\ left[r] > 0
       THEN /\ left' = [left EXCEPT ![r] = @ - 1]
            /\ FinishInWave(1)
            /\ UNCHANGED request
       ELSE ClosesItsPart(r)
    /\ UNCHANGED <<queueVars, wanted, running, unseen>>

SweepStore(r) ==
    /\ request[r] = "sweeping"
    /\ Moves(r, "looping")
    /\ UNCHANGED <<queueVars, wanted, running, unseen, left, wave>>

StopWalking(r) ==
    /\ request[r] = "stopping"
    /\ running' = FALSE
    /\ Moves(r, "rechecking")
    /\ UNCHANGED <<queueVars, wanted, unseen, left, wave>>

NeverLooksAgain == FALSE

WantedMeanwhile == wanted

(* A wish made between the last swap and the line above found the walk     *)
(* still running and was left to this one.                                 *)
Recheck(r) ==
    /\ request[r] = "rechecking"
    /\ Moves(r, IF WantedMeanwhile THEN "contending" ELSE "done")
    /\ UNCHANGED <<queueVars, wanted, running, unseen, left, wave>>

Contend(r) ==
    /\ request[r] = "contending"
    /\ running' = TRUE
    /\ Moves(r, IF running THEN "done" ELSE "looping")
    /\ UNCHANGED <<queueVars, wanted, unseen, left, wave>>

Stop == ~down /\ down' = TRUE /\ UNCHANGED <<queueVars, walkVars, total, done>>

WorkerGoes(w) == Pop(w) \/ SignalPop(w) \/ Wake(w) \/ Render(w)

WalkGoes(r) ==
    \/ StartWalking(r) \/ TakeWish(r) \/ ListFiles(r) \/ CountFiles(r) \/ WalkFile(r)
    \/ SweepStore(r) \/ StopWalking(r) \/ Recheck(r) \/ Contend(r)

WorkNext ==
    \/ \E u \in Uploads : QueuePreviews(u)
    \/ \E w \in Workers : WorkerGoes(w)
    \/ \E r \in Walks : Wish(r) \/ WalkGoes(r)
    \/ Stop

WorkSpec == WorkInit /\ [][WorkNext]_workVars

(* An upload that has begun is handed over, and every goroutine goes on.   *)
FairWorkSpec ==
    /\ WorkSpec
    /\ \A u \in Uploads : WF_workVars(upload[u] # "stored" /\ QueuePreviews(u))
    /\ \A w \in Workers : WF_workVars(WorkerGoes(w))
    /\ \A r \in Walks : WF_workVars(WalkGoes(r))

-----------------------------------------------------------------------------
(* A picture waits beside a sleeping worker only while a signal for it is  *)
(* left or about to be sent: every worker that is free lends a hand.       *)
NobodySleepsOnWork ==
    queue > 0 /\ ~down /\ (\E w \in Workers : worker[w] = "sleeping") =>
        \/ ready
        \/ \E w \in Workers : worker[w] \in {"looking", "passing"}
        \/ \E u \in Uploads : upload[u] = "pushed"

(* Uploads handed to the background and not finished with yet.             *)
Outstanding ==
    Cardinality({u \in Uploads : upload[u] = "counted"}) + queue
    + Cardinality({w \in Workers : worker[w] \in {"passing", "rendering"}})

(* The progress bar is exact: what is left of the wave is what is left to  *)
(* do of the uploads and of the walk, through all the waves they begin.    *)
WaveIsExact ==
    /\ \A r \in Walks : request[r] = "walking" => total - done = Outstanding + left[r]
    /\ (\A r \in Walks : request[r] # "walking") => total - done = Outstanding

(* Only one goroutine walks the store at a time.                           *)
Walking(r) == request[r] \in {"looping", "listing", "counting", "walking", "sweeping", "stopping"}
OneWalk == \A q, r \in Walks : Walking(q) /\ Walking(r) => q = r

(* The flag is up exactly while one does: left up, it would keep every     *)
(* later request from walking; down too early, it would let in a second.   *)
FlagTellsOfWalk == running <=> \E r \in Walks : Walking(r)

(* The workers, the walk and the progress bar share the work exactly.      *)
WorkIsSharedOut == NobodySleepsOnWork /\ WaveIsExact /\ OneWalk /\ FlagTellsOfWalk

(* A request for a walk is never lost: a walk lists the files after it.    *)
EveryWishIsSeen == \A r \in Walks : r \in unseen ~> r \notin unseen
=============================================================================
