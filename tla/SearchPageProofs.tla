-------------------------- MODULE SearchPageProofs --------------------------
(***************************************************************************)
(* Proofs about SearchPage, for every set of paths and queries and any     *)
(* number of workers.                                                      *)
(***************************************************************************)
EXTENDS SearchPage, SequenceTheorems, FiniteSetTheorems, TLAPS

-----------------------------------------------------------------------------
(* What one step of a worker does *)

Deleting == {"trash", "batch", "execute"}

(* A worker that goes on posts none.                                         *)
LEMMA GoOnShape ==
    ASSUME TypeOK, NEW i \in DOMAIN workers, NEW w \in Worker,
           workers' = [workers EXCEPT ![i] = w]
    PROVE  /\ workers' \in Seq(Worker) /\ Len(workers') = Len(workers)
           /\ DOMAIN workers' = DOMAIN workers
           /\ \A j \in DOMAIN workers \ {i} : workers'[j] = workers[j]
           /\ workers'[i] = w
<1>1. workers \in Seq(Worker)
  BY DEF TypeOK
<1> QED
  BY <1>1

(* A worker that ends keeps what it is, and posts one signal.                *)
LEMMA FinishShape ==
    ASSUME TypeOK, NEW i \in DOMAIN workers, NEW out \in SUBSET Path, NEW ok \in BOOLEAN,
           Finish(i, out, ok)
    PROVE  /\ workers' \in Seq(Worker) /\ Len(workers') = Len(workers)
           /\ DOMAIN workers' = DOMAIN workers
           /\ \A j \in DOMAIN workers \ {i} : workers'[j] = workers[j]
           /\ workers'[i].kind = workers[i].kind
           /\ workers'[i].generation = workers[i].generation
           /\ workers'[i].query = workers[i].query
           /\ workers'[i].at = "finished" /\ workers'[i].todo = {} /\ workers'[i].out = out
           /\ queue' = Append(queue, i) /\ queue' \in Seq(1 .. Len(workers))
<1>1. /\ workers \in Seq(Worker) /\ workers[i] \in Worker
      /\ queue \in Seq(1 .. Len(workers)) /\ i \in 1 .. Len(workers)
  BY DEF TypeOK
<1> DEFINE w == [workers[i] EXCEPT !.at = "finished", !.todo = {}, !.out = out, !.ok = ok]
<1>2. /\ w \in Worker /\ w.kind = workers[i].kind /\ w.generation = workers[i].generation
      /\ w.query = workers[i].query
      /\ w.at = "finished" /\ w.todo = {} /\ w.out = out
  BY <1>1 DEF Worker
<1>3. workers' = [workers EXCEPT ![i] = w]
  BY <1>1 DEF Finish
<1> HIDE DEF w
<1>4. /\ workers' \in Seq(Worker) /\ Len(workers') = Len(workers)
      /\ DOMAIN workers' = DOMAIN workers
      /\ \A j \in DOMAIN workers \ {i} : workers'[j] = workers[j]
      /\ workers'[i] = w
  BY <1>2, <1>3, GoOnShape
<1>5. queue' = Append(queue, i) /\ queue' \in Seq(1 .. Len(workers))
  BY <1>1 DEF Finish
<1> QED
  BY <1>2, <1>4, <1>5

OneWorkerChanges(i) ==
    /\ workers' \in Seq(Worker) /\ Len(workers') = Len(workers)
    /\ DOMAIN workers' = DOMAIN workers
    /\ \A j \in DOMAIN workers \ {i} : workers'[j] = workers[j]
    /\ workers'[i].kind = workers[i].kind
    /\ workers'[i].generation = workers[i].generation
    /\ workers'[i].query = workers[i].query
    /\ workers'[i].todo \subseteq workers[i].todo
    /\ workers[i].at # "finished"
    /\ \/ queue' = queue /\ workers'[i].at # "finished"
       \/ queue' = Append(queue, i)
    /\ queue' \in Seq(1 .. Len(workers))
    /\ UNCHANGED <<engine, pageVars>>

\* Who holds the lock of the engine is in the DLL, and nobody else.
LockMoves(i) ==
    \/ lock' = lock /\ workers[i].at # "calling" /\ workers'[i].at # "calling"
    \/ lock = 0 /\ lock' = i /\ workers'[i].at = "calling" /\ engine = "open"
    \/ workers[i].at = "calling" /\ lock' = 0 /\ workers'[i].at # "calling"

\* What the worker of a search has found.
OutMoves(i) ==
    workers[i].kind = "search" =>
        \/ workers'[i].out = workers[i].out
        \/ workers'[i].out = {} /\ engine # "none"
        \/ workers'[i].out = Hits[workers[i].query] \cap known /\ workers[i].at = "calling"

\* What disappears from the disk, and what the engine comes to know.
DiskMoves(i) ==
    /\ disk' \subseteq disk /\ known' \in SUBSET Path
    /\ disk \ disk' \subseteq (IF workers[i].kind \in Deleting THEN Below(workers[i].todo)
                                                               ELSE {})

WorkerMoves(i) == OneWorkerChanges(i) /\ LockMoves(i) /\ OutMoves(i) /\ DiskMoves(i)

(* A worker that ends without touching the disk or the engine.               *)
LEMMA PlainFinish ==
    ASSUME TypeOK, NEW i \in DOMAIN workers, NEW out \in SUBSET Path, NEW ok \in BOOLEAN,
           Finish(i, out, ok), UNCHANGED <<diskVars, engineVars, pageVars>>,
           workers[i].at \in {"running", "counting"},
           \/ out = workers[i].out
           \/ workers[i].kind # "search"
           \/ out = {} /\ engine # "none"
    PROVE  WorkerMoves(i)
<1>1. OneWorkerChanges(i)
  BY FinishShape DEF OneWorkerChanges, engineVars
<1>2. LockMoves(i) /\ OutMoves(i)
  BY FinishShape DEF LockMoves, OutMoves, engineVars
<1>3. DiskMoves(i)
  BY DEF DiskMoves, diskVars, TypeOK
<1> QED
  BY <1>1, <1>2, <1>3 DEF WorkerMoves

LEMMA WorkerTypes ==
    ASSUME TypeOK, NEW i \in DOMAIN workers
    PROVE  /\ workers[i] \in Worker /\ i \in 1 .. Len(workers)
           /\ workers[i].out \in SUBSET Path /\ workers[i].todo \in SUBSET Path
           /\ workers[i].ok \in BOOLEAN /\ workers[i].query \in Query
           /\ queue \in Seq(1 .. Len(workers))
<1>1. workers[i] \in Worker /\ i \in 1 .. Len(workers) /\ queue \in Seq(1 .. Len(workers))
  BY DEF TypeOK
<1> QED
  BY <1>1 DEF Worker

(* A worker that takes one path off its list.                                *)
LEMMA PathDone ==
    ASSUME TypeOK, NEW i \in DOMAIN workers, workers[i].at = "running",
           workers[i].kind \in {"index", "trash", "batch"},
           NEW p \in workers[i].todo, NEW out \in SUBSET Path, NEW ok \in BOOLEAN,
           workers' = [workers EXCEPT ![i] = [workers[i] EXCEPT
                          !.todo = @ \ {p}, !.ok = ok, !.out = out]],
           UNCHANGED <<known, engineVars, queue, pageVars>>
    PROVE  OneWorkerChanges(i) /\ LockMoves(i) /\ OutMoves(i) /\ known' \in SUBSET Path
<1> DEFINE w == [workers[i] EXCEPT !.todo = @ \ {p}, !.ok = ok, !.out = out]
<1>1. workers[i] \in Worker /\ queue \in Seq(1 .. Len(workers))
  BY WorkerTypes
<1>2. /\ w \in Worker /\ w.kind = workers[i].kind /\ w.generation = workers[i].generation
      /\ w.query = workers[i].query /\ w.todo \subseteq workers[i].todo /\ w.at = "running"
  BY <1>1 DEF Worker
<1>3. workers' = [workers EXCEPT ![i] = w]
  OBVIOUS
<1> HIDE DEF w
<1>4. /\ workers' \in Seq(Worker) /\ Len(workers') = Len(workers)
      /\ DOMAIN workers' = DOMAIN workers
      /\ \A j \in DOMAIN workers \ {i} : workers'[j] = workers[j]
      /\ workers'[i] = w
  BY <1>2, <1>3, GoOnShape
<1>5. OneWorkerChanges(i)
  BY <1>1, <1>2, <1>4 DEF OneWorkerChanges, engineVars
<1>6. LockMoves(i) /\ OutMoves(i)
  BY <1>2, <1>4 DEF LockMoves, OutMoves, engineVars
<1> QED
  BY <1>5, <1>6 DEF TypeOK

LEMMA WorkerShape ==
    ASSUME TypeOK, NEW i \in DOMAIN workers, WorkerStep(i)
    PROVE  WorkerMoves(i)
<1> USE DEF Running
<1>0. /\ workers[i] \in Worker /\ i \in 1 .. Len(workers)
      /\ workers[i].out \in SUBSET Path /\ workers[i].todo \in SUBSET Path
      /\ workers[i].ok \in BOOLEAN /\ workers[i].query \in Query
      /\ queue \in Seq(1 .. Len(workers))
  BY WorkerTypes
<1>1. CASE WalkVisit(i)
  <2>1. PICK p \in workers[i].todo :
            workers' = [workers EXCEPT ![i].todo = @ \ {p}, ![i].out = @ \cup ({p} \cap disk)]
    BY <1>1 DEF WalkVisit
  <2> DEFINE out == workers[i].out \cup ({p} \cap disk)
             w == [workers[i] EXCEPT !.todo = @ \ {p}, !.ok = workers[i].ok, !.out = out]
  <2>2. out \in SUBSET Path
    BY <1>0
  <2>3. workers' = [workers EXCEPT ![i] = w]
    <3>1. [workers[i] EXCEPT !.todo = @ \ {p}, !.out = out] = w
      BY <1>0 DEF Worker
    <3>2. workers' = [workers EXCEPT ![i] = [workers[i] EXCEPT !.todo = @ \ {p}, !.out = out]]
      BY <2>1
    <3> QED
      BY <3>1, <3>2, Zenon
  <2>4. OneWorkerChanges(i) /\ LockMoves(i) /\ OutMoves(i) /\ known' \in SUBSET Path
    BY <1>0, <1>1, <2>2, <2>3, PathDone DEF WalkVisit, diskVars
  <2>5. DiskMoves(i)
    BY <1>1, <2>4 DEF DiskMoves, WalkVisit, diskVars
  <2> QED
    BY <2>4, <2>5 DEF WorkerMoves
<1>2. CASE WalkEnd(i)
  BY <1>0, <1>2, PlainFinish DEF WalkEnd
<1>3. CASE SlowSearch(i)
  BY <1>0, <1>3, PlainFinish DEF SlowSearch
<1>4. CASE EngineCall(i)
  <2>1. CASE engine = "freed"
    BY <1>4, <2>1, PlainFinish DEF EngineCall, engineVars
  <2>2. CASE engine # "freed"
    <3> DEFINE w == [workers[i] EXCEPT !.at = "calling"]
    <3>1. /\ w \in Worker /\ w.kind = workers[i].kind /\ w.generation = workers[i].generation
          /\ w.query = workers[i].query /\ w.todo = workers[i].todo /\ w.at = "calling"
          /\ w.out = workers[i].out
      BY <1>0 DEF Worker
    <3>2. workers' = [workers EXCEPT ![i] = w] /\ engine = "open"
      BY <1>4, <2>2 DEF EngineCall, TypeOK
    <3> HIDE DEF w
    <3>3. /\ workers' \in Seq(Worker) /\ Len(workers') = Len(workers)
          /\ DOMAIN workers' = DOMAIN workers
          /\ \A j \in DOMAIN workers \ {i} : workers'[j] = workers[j]
          /\ workers'[i] = w
      BY <3>1, <3>2, GoOnShape
    <3>4. OneWorkerChanges(i)
      BY <1>0, <1>4, <2>2, <3>1, <3>3 DEF OneWorkerChanges, EngineCall
    <3>5. LockMoves(i) /\ OutMoves(i)
      BY <1>4, <2>2, <3>1, <3>2, <3>3 DEF LockMoves, OutMoves, EngineCall
    <3>6. DiskMoves(i)
      BY <1>4 DEF DiskMoves, EngineCall, diskVars, TypeOK
    <3> QED
      BY <3>4, <3>5, <3>6 DEF WorkerMoves
  <2> QED
    BY <2>1, <2>2
<1>5. CASE EngineReturn(i)
  <2>1. CASE workers[i].kind = "search"
    <3> DEFINE w == [workers[i] EXCEPT !.at = "counting",
                                       !.out = Hits[workers[i].query] \cap known]
    <3>1. /\ w \in Worker /\ w.kind = workers[i].kind /\ w.generation = workers[i].generation
          /\ w.query = workers[i].query /\ w.todo = workers[i].todo /\ w.at = "counting"
          /\ w.out = Hits[workers[i].query] \cap known
      BY <1>0, SearchPageAssumption DEF Worker, TypeOK
    <3>2. workers' = [workers EXCEPT ![i] = w]
      BY <1>5, <2>1 DEF EngineReturn
    <3> HIDE DEF w
    <3>3. /\ workers' \in Seq(Worker) /\ Len(workers') = Len(workers)
          /\ DOMAIN workers' = DOMAIN workers
          /\ \A j \in DOMAIN workers \ {i} : workers'[j] = workers[j]
          /\ workers'[i] = w
      BY <3>1, <3>2, GoOnShape
    <3>4. OneWorkerChanges(i)
      BY <1>0, <1>5, <2>1, <3>1, <3>3 DEF OneWorkerChanges, EngineReturn
    <3>5. LockMoves(i) /\ OutMoves(i)
      BY <1>5, <2>1, <3>1, <3>2, <3>3 DEF LockMoves, OutMoves, EngineReturn
    <3>6. DiskMoves(i)
      BY <1>5, <2>1 DEF DiskMoves, EngineReturn, TypeOK
    <3> QED
      BY <3>4, <3>5, <3>6 DEF WorkerMoves
  <2>2. CASE workers[i].kind # "search"
    <3>1. PICK ok \in BOOLEAN : Finish(i, {}, ok) /\ known' = IF ok THEN disk ELSE known
      BY <1>5, <2>2 DEF EngineReturn
    <3>2. {} \in SUBSET Path
      OBVIOUS
    <3>3. OneWorkerChanges(i)
      BY <1>5, <3>1, <3>2, FinishShape DEF OneWorkerChanges, EngineReturn
    <3>4. workers'[i].at = "finished"
      BY <3>1, <3>2, FinishShape
    <3>5. LockMoves(i) /\ OutMoves(i)
      BY <1>5, <2>2, <3>4 DEF LockMoves, OutMoves, EngineReturn
    <3>6. DiskMoves(i)
      BY <1>5, <3>1 DEF DiskMoves, EngineReturn, TypeOK
    <3> QED
      BY <3>3, <3>5, <3>6 DEF WorkerMoves
  <2> QED
    BY <2>1, <2>2
<1>6. CASE EngineCount(i)
  BY <1>0, <1>6, PlainFinish DEF EngineCount
<1>7. CASE TrashNext(i)
  <2>1. PICK p \in workers[i].todo, ok \in BOOLEAN :
            /\ disk' = IF ok THEN disk \ Inside[p] ELSE disk
            /\ workers' = [workers EXCEPT
                  ![i].todo = @ \ {p}, ![i].ok = @ /\ ok,
                  ![i].out = IF ok THEN @ \cup {p} ELSE @]
    BY <1>7 DEF TrashNext
  <2> DEFINE out == IF ok THEN workers[i].out \cup {p} ELSE workers[i].out
             good == workers[i].ok /\ ok
  <2>2. out \in SUBSET Path /\ good \in BOOLEAN
    BY <1>0
  <2>3. workers' = [workers EXCEPT ![i] = [workers[i] EXCEPT
                        !.todo = @ \ {p}, !.ok = good, !.out = out]]
    BY <2>1
  <2>4. OneWorkerChanges(i) /\ LockMoves(i) /\ OutMoves(i) /\ known' \in SUBSET Path
    <3> HIDE DEF out, good
    <3> QED
      BY <1>7, <2>2, <2>3, PathDone DEF TrashNext
  <2>5. DiskMoves(i)
    BY <1>7, <2>1, <2>4 DEF DiskMoves, Below, Deleting, TrashNext
  <2> QED
    BY <2>4, <2>5 DEF WorkerMoves
<1>8. CASE BatchNext(i)
  <2>1. PICK p \in workers[i].todo : \E gone \in Erasable(p), ok \in BOOLEAN :
            /\ disk' = disk \ gone
            /\ workers' = [workers EXCEPT
                  ![i].todo = @ \ {p}, ![i].ok = @ /\ ok,
                  ![i].out = IF ok THEN @ \cup {p} ELSE @]
    BY <1>8 DEF BatchNext
  <2>2. PICK gone \in Erasable(p), ok \in BOOLEAN :
            /\ disk' = disk \ gone
            /\ workers' = [workers EXCEPT
                  ![i].todo = @ \ {p}, ![i].ok = @ /\ ok,
                  ![i].out = IF ok THEN @ \cup {p} ELSE @]
    BY <2>1
  <2> DEFINE out == IF ok THEN workers[i].out \cup {p} ELSE workers[i].out
             good == workers[i].ok /\ ok
  <2>3. out \in SUBSET Path /\ good \in BOOLEAN
    BY <1>0
  <2>4. workers' = [workers EXCEPT ![i] = [workers[i] EXCEPT
                        !.todo = @ \ {p}, !.ok = good, !.out = out]]
    BY <2>2
  <2>5. OneWorkerChanges(i) /\ LockMoves(i) /\ OutMoves(i) /\ known' \in SUBSET Path
    <3> HIDE DEF out, good
    <3> QED
      BY <1>8, <2>3, <2>4, PathDone DEF BatchNext
  <2>6. gone \subseteq Inside[p]
    BY DEF Erasable
  <2>7. DiskMoves(i)
    BY <1>8, <2>2, <2>5, <2>6 DEF DiskMoves, Below, Deleting, BatchNext
  <2> QED
    BY <2>5, <2>7 DEF WorkerMoves
<1>9. CASE ListEnd(i)
  BY <1>0, <1>9, PlainFinish DEF ListEnd
<1>10. CASE Analyze(i)
  <2>1. PICK ok \in BOOLEAN : Finish(i, workers[i].todo, ok)
    BY <1>10 DEF Analyze
  <2> QED
    BY <1>0, <1>10, <2>1, PlainFinish DEF Analyze
<1>11. CASE Execute(i)
  <2>1. PICK p \in workers[i].todo : \E gone \in Erasable(p) :
            disk' = disk \ gone /\ Finish(i, IF gone # {} THEN {p} ELSE {}, TRUE)
    BY <1>11 DEF Execute
  <2>2. PICK gone \in Erasable(p) :
            disk' = disk \ gone /\ Finish(i, IF gone # {} THEN {p} ELSE {}, TRUE)
    BY <2>1
  <2> DEFINE out == IF gone # {} THEN {p} ELSE {}
  <2>3. out \in SUBSET Path /\ TRUE \in BOOLEAN /\ Finish(i, out, TRUE)
    BY <1>0, <2>2
  <2> HIDE DEF out
  <2>4. OneWorkerChanges(i)
    BY <1>11, <2>3, FinishShape DEF OneWorkerChanges, Execute, engineVars
  <2>5. LockMoves(i) /\ OutMoves(i)
    BY <1>11, <2>3, FinishShape DEF LockMoves, OutMoves, Execute, engineVars
  <2>6. gone \subseteq Inside[p]
    BY DEF Erasable
  <2>7. DiskMoves(i)
    BY <1>11, <2>2, <2>6 DEF DiskMoves, Below, Deleting, Execute, TypeOK
  <2> QED
    BY <2>4, <2>5, <2>7 DEF WorkerMoves
<1> QED
  BY <1>1, <1>2, <1>3, <1>4, <1>5, <1>6, <1>7, <1>8, <1>9, <1>10, <1>11 DEF WorkerStep

-----------------------------------------------------------------------------
(* What the UI thread does to the workers, their signals and the dialogs *)

NewWorker(kind, gen, q, todo, out) ==
    [kind |-> kind, at |-> "running", generation |-> gen, query |-> q,
     todo |-> todo, out |-> out, ok |-> TRUE]

LEMMA LaunchShape ==
    ASSUME TypeOK, NEW kind \in Kinds, NEW gen \in Nat, NEW q \in Query,
           NEW todo \in SUBSET Path, NEW out \in SUBSET Path, Launch(kind, gen, q, todo, out)
    PROVE  /\ workers' \in Seq(Worker) /\ Len(workers') = Len(workers) + 1
           /\ DOMAIN workers' = DOMAIN workers \cup {Len(workers) + 1}
           /\ \A j \in DOMAIN workers : workers'[j] = workers[j]
           /\ workers'[Len(workers) + 1] = NewWorker(kind, gen, q, todo, out)
           /\ Len(workers) + 1 \in Nat
           /\ 0 .. Len(workers) \subseteq 0 .. Len(workers')
           /\ Len(workers) + 1 \in 0 .. Len(workers')
           /\ queue \in Seq(1 .. Len(workers'))
<1> DEFINE w == NewWorker(kind, gen, q, todo, out)
<1>1. w \in Worker
  BY DEF NewWorker, Worker
<1>2. workers \in Seq(Worker) /\ queue \in Seq(1 .. Len(workers))
  BY DEF TypeOK
<1>3. workers' = Append(workers, w)
  BY DEF Launch, NewWorker
<1> HIDE DEF w
<1>4. /\ workers' \in Seq(Worker) /\ Len(workers') = Len(workers) + 1
      /\ DOMAIN workers' = DOMAIN workers \cup {Len(workers) + 1}
      /\ \A j \in DOMAIN workers : workers'[j] = workers[j]
      /\ workers'[Len(workers) + 1] = w
  BY <1>1, <1>2, <1>3
<1>5. Len(workers) \in Nat
  BY <1>2
<1>6. /\ 0 .. Len(workers) \subseteq 0 .. Len(workers')
      /\ Len(workers) + 1 \in 0 .. Len(workers')
      /\ 1 .. Len(workers) \subseteq 1 .. Len(workers')
      /\ Len(workers) + 1 \in Nat
  BY <1>4, <1>5
<1>7. queue \in Seq(1 .. Len(workers'))
  BY <1>2, <1>6
<1> QED
  BY <1>4, <1>6, <1>7 DEF w

(* Starting a worker keeps everything well formed.                           *)
LEMMA LaunchType ==
    ASSUME TypeOK, NEW kind \in Kinds, NEW gen \in Nat, NEW q \in Query,
           NEW todo \in SUBSET Path, NEW out \in SUBSET Path, Launch(kind, gen, q, todo, out),
           lock' = lock, slot' \in {slot, Len(workers) + 1},
           searchSlot' \in {searchSlot, Len(workers) + 1},
           queue' = queue \/ (queue # <<>> /\ queue' = Tail(queue))
    PROVE  /\ workers' \in Seq(Worker) /\ lock' \in 0 .. Len(workers')
           /\ queue' \in Seq(1 .. Len(workers'))
           /\ slot' \in 0 .. Len(workers') /\ searchSlot' \in 0 .. Len(workers')
<1>1. /\ workers' \in Seq(Worker)
      /\ 0 .. Len(workers) \subseteq 0 .. Len(workers')
      /\ Len(workers) + 1 \in 0 .. Len(workers')
      /\ queue \in Seq(1 .. Len(workers'))
  BY LaunchShape
<1>2. queue' \in Seq(1 .. Len(workers'))
  BY <1>1, HeadTailProperties
<1> QED
  BY <1>1, <1>2 DEF TypeOK

(* So does a handler that starts none.                                       *)
LEMMA NoLaunchType ==
    ASSUME TypeOK, UNCHANGED <<workers, slotVars, lock>>,
           queue' = queue \/ (queue # <<>> /\ queue' = Tail(queue))
    PROVE  /\ workers' \in Seq(Worker) /\ lock' \in 0 .. Len(workers')
           /\ queue' \in Seq(1 .. Len(workers'))
           /\ slot' \in 0 .. Len(workers') /\ searchSlot' \in 0 .. Len(workers')
<1>1. queue' \in Seq(1 .. Len(workers'))
  <2>1. queue \in Seq(1 .. Len(workers)) /\ workers' = workers
    BY DEF TypeOK
  <2>2. queue' \in Seq(1 .. Len(workers))
    BY <2>1, HeadTailProperties
  <2> QED
    BY <2>1, <2>2
<1> QED
  BY <1>1 DEF TypeOK, slotVars

LEMMA DialogShape ==
    ASSUME TypeOK, NEW kind \in {"menu", "trash?", "batch?", "force?", "told"},
           NEW paths \in SUBSET Path
    PROVE  /\ Push(kind, paths) \in Seq(Dialog)
           /\ DOMAIN Push(kind, paths) = DOMAIN dialogs \cup {Len(dialogs) + 1}
           /\ \A k \in DOMAIN dialogs : Push(kind, paths)[k] = dialogs[k]
           /\ Push(kind, paths)[Len(dialogs) + 1] = [kind |-> kind, paths |-> paths]
<1>1. dialogs \in Seq(Dialog) /\ [kind |-> kind, paths |-> paths] \in Dialog
  BY DEF TypeOK, Dialog
<1> DEFINE d == [kind |-> kind, paths |-> paths]
<1>2. Push(kind, paths) = Append(dialogs, d) /\ d \in Dialog
  BY <1>1 DEF Push
<1> HIDE DEF d
<1>3. /\ Push(kind, paths) \in Seq(Dialog)
      /\ DOMAIN Push(kind, paths) = DOMAIN dialogs \cup {Len(dialogs) + 1}
      /\ \A k \in DOMAIN dialogs : Push(kind, paths)[k] = dialogs[k]
      /\ Push(kind, paths)[Len(dialogs) + 1] = d
  BY <1>1, <1>2
<1> QED
  BY <1>3 DEF d

LEMMA TopShape ==
    ASSUME TypeOK, dialogs # <<>>
    PROVE  /\ Len(dialogs) \in DOMAIN dialogs /\ Top = dialogs[Len(dialogs)]
           /\ Top \in Dialog /\ Top.paths \in SUBSET Path
           /\ Top.kind \in {"menu", "trash?", "batch?", "force?", "told"}
<1>1. dialogs \in Seq(Dialog)
  BY DEF TypeOK
<1>2. Len(dialogs) \in DOMAIN dialogs
  BY <1>1
<1>3. Top = dialogs[Len(dialogs)] /\ dialogs[Len(dialogs)] \in Dialog
  BY <1>1, <1>2 DEF Top
<1>4. \A d \in Dialog : /\ d.paths \in SUBSET Path
                        /\ d.kind \in {"menu", "trash?", "batch?", "force?", "told"}
  BY DEF Dialog
<1> QED
  BY <1>2, <1>3, <1>4

LEMMA PoppedShape ==
    ASSUME TypeOK, dialogs # <<>>
    PROVE  /\ Popped \in Seq(Dialog) /\ Len(Popped) = Len(dialogs) - 1
           /\ DOMAIN Popped \subseteq DOMAIN dialogs
           /\ \A k \in DOMAIN Popped : Popped[k] = dialogs[k]
<1>1. dialogs \in Seq(Dialog) /\ Len(dialogs) \in Nat \ {0}
  BY DEF TypeOK
<1>2. 1 \in Int /\ Len(dialogs) - 1 \in Int /\ Len(dialogs) - 1 \in 0 .. Len(dialogs)
  BY <1>1
<1>3. \A i \in 1 .. Len(dialogs) - 1 : dialogs[i] \in Dialog
  BY <1>1
<1>4. /\ Popped \in Seq(Dialog)
      /\ Len(Popped) = IF 1 <= Len(dialogs) - 1 THEN Len(dialogs) - 1 - 1 + 1 ELSE 0
      /\ \A i \in 1 .. Len(dialogs) - 1 - 1 + 1 : Popped[i] = dialogs[1 + i - 1]
  BY <1>1, <1>2, <1>3, SubSeqProperties DEF Popped
<1>5. Len(Popped) = Len(dialogs) - 1
  <2> \A n \in Nat \ {0} : (IF 1 <= n - 1 THEN n - 1 - 1 + 1 ELSE 0) = n - 1
    OBVIOUS
  <2> QED
    BY <1>1, <1>4, Zenon
<1>6. \A i \in 1 .. Len(dialogs) - 1 : Popped[i] = dialogs[i]
  BY <1>1, <1>4
<1>7. DOMAIN Popped = 1 .. Len(dialogs) - 1
  BY <1>4, <1>5
<1> QED
  BY <1>1, <1>4, <1>5, <1>6, <1>7

LEMMA SenderType ==
    ASSUME TypeOK, queue # <<>>
    PROVE  /\ Head(queue) \in DOMAIN workers /\ Sender = workers[Head(queue)]
           /\ Sender \in Worker /\ Sender.out \in SUBSET Path
<1>1. queue \in Seq(1 .. Len(workers)) /\ workers \in Seq(Worker)
  BY DEF TypeOK
<1>2. Head(queue) \in 1 .. Len(workers)
  BY <1>1, HeadTailProperties
<1>3. Sender \in Worker /\ Sender = workers[Head(queue)] /\ Head(queue) \in DOMAIN workers
  BY <1>1, <1>2 DEF Sender
<1>4. \A w \in Worker : w.out \in SUBSET Path
  BY DEF Worker
<1> QED
  BY <1>3, <1>4

LEMMA BelowType ==
    ASSUME NEW paths \in SUBSET Path
    PROVE  Below(paths) \in SUBSET Path
  BY SearchPageAssumption DEF Below

-----------------------------------------------------------------------------
(* Type correctness *)

LEMMA TypeInit == Init => TypeOK
<1> SUFFICES ASSUME Init PROVE TypeOK
  OBVIOUS
<1>1. /\ workers \in Seq(Worker) /\ lock \in 0 .. Len(workers)
      /\ queue \in Seq(1 .. Len(workers)) /\ generation \in Nat
      /\ slot \in 0 .. Len(workers) /\ searchSlot \in 0 .. Len(workers)
      /\ dialogs \in Seq(Dialog)
  BY DEF Init
<1>2. timer \in BOOLEAN /\ opened \in BOOLEAN
  BY DEF Init
<1>3. /\ disk \in SUBSET Path /\ known \in SUBSET Path
      /\ engine \in {"none", "open", "freed"}
      /\ index \in SUBSET Path /\ shown \in SUBSET Path /\ query \in Query
      /\ enabled \in SUBSET Widgets
      /\ quit \in {"no", "waiting", "saving", "closing", "ended"}
      /\ removed \in SUBSET Path
  BY DEF Init, Widgets
<1> QED
  BY <1>1, <1>2, <1>3 DEF TypeOK

(* The handlers that only change what is on the page.                        *)
LEMMA PageType ==
    ASSUME TypeOK,
           \/ TypeText \/ DeleteKey \/ ContextMenu \/ MenuTrash \/ Decline \/ CloseMessage
           \/ SearchReady \/ AnalyzeReady \/ ExecuteDone
           \/ DeleteDone("trash") \/ DeleteDone("batch")
    PROVE  TypeOK'
<1> USE DEF deleteRest, diskVars, engineVars, viewVars
<1>1. CASE TypeText
  BY <1>1 DEF TypeOK, TypeText, slotVars
<1>2. CASE DeleteKey \/ ContextMenu
  <2>1. PICK sel \in SUBSET shown : \E k \in {"trash?", "menu"} : dialogs' = Push(k, sel)
    BY <1>2 DEF DeleteKey, ContextMenu
  <2>2. dialogs' \in Seq(Dialog)
    BY <2>1, DialogShape DEF TypeOK
  <2> QED
    BY <1>2, <2>2 DEF TypeOK, DeleteKey, ContextMenu, slotVars
<1>3. CASE MenuTrash
  <2>1. Popped \in Seq(Dialog) /\ Top.paths \in SUBSET Path
    BY <1>3, TopShape, PoppedShape DEF MenuTrash
  <2>2. [kind |-> "trash?", paths |-> Top.paths] \in Dialog
    BY <2>1 DEF Dialog
  <2>3. dialogs' \in Seq(Dialog)
    BY <1>3, <2>1, <2>2 DEF MenuTrash
  <2> QED
    BY <1>3, <2>3 DEF TypeOK, MenuTrash, slotVars
<1>4. CASE Decline
  <2>1. dialogs' \in Seq(Dialog)
    BY <1>4, PoppedShape DEF Decline
  <2> QED
    BY <1>4, <2>1 DEF TypeOK, Decline, slotVars
<1>5. CASE CloseMessage
  <2>1. dialogs' \in Seq(Dialog) /\ Top.paths \in SUBSET Path
    BY <1>5, PoppedShape, TopShape DEF CloseMessage
  <2>2. Below(Top.paths) \in SUBSET Path
    BY <2>1, BelowType
  <2>3. shown' \in SUBSET Path /\ index' \in SUBSET Path /\ removed' \in SUBSET Path
    BY <1>5, <2>2 DEF CloseMessage, RemoveDeletedPaths, Below, TypeOK
  <2> QED
    BY <1>5, <2>1, <2>3 DEF TypeOK, CloseMessage, slotVars
<1>6. queue # <<>> => Sender.out \in SUBSET Path
  BY SenderType
<1>7. CASE SearchReady
  <2>1. shown' \in SUBSET Path
    BY <1>6, <1>7 DEF SearchReady, Handle, TypeOK
  <2>2. /\ workers' \in Seq(Worker) /\ lock' \in 0 .. Len(workers')
        /\ queue' \in Seq(1 .. Len(workers'))
        /\ slot' \in 0 .. Len(workers') /\ searchSlot' \in 0 .. Len(workers')
    BY <1>7, NoLaunchType DEF SearchReady, Handle
  <2> QED
    BY <1>7, <2>1, <2>2 DEF TypeOK, SearchReady, slotVars
<1>8. CASE AnalyzeReady \/ ExecuteDone
  <2>1. \E k \in {"force?", "told"}, ps \in SUBSET Path : dialogs' = Push(k, ps)
    BY <1>6, <1>8 DEF AnalyzeReady, ExecuteDone, Handle
  <2>2. dialogs' \in Seq(Dialog)
    BY <2>1, DialogShape
  <2>3. /\ workers' \in Seq(Worker) /\ lock' \in 0 .. Len(workers')
        /\ queue' \in Seq(1 .. Len(workers'))
        /\ slot' \in 0 .. Len(workers') /\ searchSlot' \in 0 .. Len(workers')
    BY <1>8, NoLaunchType DEF AnalyzeReady, ExecuteDone, Handle
  <2> QED
    BY <1>8, <2>2, <2>3 DEF TypeOK, AnalyzeReady, ExecuteDone, slotVars, SetBusy, Widgets
<1>9. ASSUME NEW k \in {"trash", "batch"}, DeleteDone(k) PROVE TypeOK'
  <2>1. Sender.out \in SUBSET Path
    BY <1>6, <1>9 DEF DeleteDone, Handle
  <2>2. Below(Sender.out) \in SUBSET Path
    BY <2>1, BelowType
  <2>3. shown' \in SUBSET Path /\ index' \in SUBSET Path /\ removed' \in SUBSET Path
    BY <1>9, <2>2 DEF DeleteDone, RemoveDeletedPaths, Below, TypeOK
  <2>4. dialogs' \in Seq(Dialog)
    BY <1>9, <2>1, DialogShape DEF DeleteDone, TypeOK
  <2>5. /\ workers' \in Seq(Worker) /\ lock' \in 0 .. Len(workers')
        /\ queue' \in Seq(1 .. Len(workers'))
        /\ slot' \in 0 .. Len(workers') /\ searchSlot' \in 0 .. Len(workers')
    BY <1>9, NoLaunchType DEF DeleteDone, Handle
  <2> QED
    BY <1>9, <2>3, <2>4, <2>5 DEF TypeOK, DeleteDone, slotVars, SetBusy, Widgets
<1> QED
  BY <1>1, <1>2, <1>3, <1>4, <1>5, <1>7, <1>8, <1>9

(* Starting the search for what the page says.                               *)
LEMMA ApplyType ==
    ASSUME TypeOK, NEW q \in Query, NEW from \in SUBSET Path, ApplySearch(q, from), lock' = lock,
           queue' = queue \/ (queue # <<>> /\ queue' = Tail(queue))
    PROVE  /\ workers' \in Seq(Worker) /\ lock' \in 0 .. Len(workers')
           /\ queue' \in Seq(1 .. Len(workers'))
           /\ slot' \in 0 .. Len(workers') /\ searchSlot' \in 0 .. Len(workers')
           /\ generation' \in Nat
<1> DEFINE out == IF engine = "none" THEN Hits[q] \cap from ELSE {}
<1>1. /\ out \in SUBSET Path /\ {} \in SUBSET Path /\ "search" \in Kinds
      /\ generation + 1 \in Nat
  BY SearchPageAssumption DEF TypeOK, Kinds
<1>2. /\ Launch("search", generation + 1, q, {}, out) /\ generation' = generation + 1
      /\ slot' = slot /\ searchSlot' = Len(workers) + 1
  BY DEF ApplySearch
<1> QED
  BY <1>1, <1>2, LaunchType

(* Starting a worker of the page.                                            *)
LEMMA SlotType ==
    ASSUME TypeOK, NEW kind \in Kinds, NEW todo \in SUBSET Path, LaunchInSlot(kind, todo),
           lock' = lock, queue' = queue
    PROVE  /\ workers' \in Seq(Worker) /\ lock' \in 0 .. Len(workers')
           /\ queue' \in Seq(1 .. Len(workers'))
           /\ slot' \in 0 .. Len(workers') /\ searchSlot' \in 0 .. Len(workers')
           /\ generation' \in Nat
<1>1. 0 \in Nat /\ query \in Query /\ {} \in SUBSET Path /\ generation \in Nat
  BY DEF TypeOK
<1> QED
  BY <1>1, LaunchType DEF LaunchInSlot

(* The handlers that start a worker.                                         *)
LEMMA LaunchingType ==
    ASSUME TypeOK,
           \/ ShowEvent \/ ClickReindex \/ SelectCategory \/ MenuForceDelete \/ Confirm
           \/ TimerFires \/ IndexReady
    PROVE  TypeOK'
<1> USE DEF deleteRest, diskVars, engineVars, Widgets
<1>1. CASE ShowEvent \/ ClickReindex
  <2>1. StartIndexing /\ opened' \in BOOLEAN
    BY <1>1 DEF ShowEvent, ClickReindex, TypeOK
  <2>2. "index" \in Kinds /\ (IF engine = "none" THEN Path ELSE {}) \in SUBSET Path
    BY DEF Kinds
  <2>3. /\ workers' \in Seq(Worker) /\ lock' \in 0 .. Len(workers')
        /\ queue' \in Seq(1 .. Len(workers'))
        /\ slot' \in 0 .. Len(workers') /\ searchSlot' \in 0 .. Len(workers')
        /\ generation' \in Nat
    BY <2>1, <2>2, SlotType DEF StartIndexing
  <2> QED
    BY <2>1, <2>3 DEF TypeOK, StartIndexing
<1>2. CASE SelectCategory
  <2>1. PICK q \in Query : query' = q /\ ApplySearch(q, index)
    BY <1>2 DEF SelectCategory
  <2>2. /\ workers' \in Seq(Worker) /\ lock' \in 0 .. Len(workers')
        /\ queue' \in Seq(1 .. Len(workers'))
        /\ slot' \in 0 .. Len(workers') /\ searchSlot' \in 0 .. Len(workers')
        /\ generation' \in Nat
    BY <1>2, <2>1, ApplyType DEF SelectCategory, TypeOK
  <2> QED
    BY <1>2, <2>1, <2>2 DEF TypeOK, SelectCategory
<1>3. CASE TimerFires
  <2>2. /\ workers' \in Seq(Worker) /\ lock' \in 0 .. Len(workers')
        /\ queue' \in Seq(1 .. Len(workers'))
        /\ slot' \in 0 .. Len(workers') /\ searchSlot' \in 0 .. Len(workers')
        /\ generation' \in Nat
    BY <1>3, ApplyType DEF TimerFires, TypeOK
  <2> QED
    BY <1>3, <2>2 DEF TypeOK, TimerFires
<1>4. CASE MenuForceDelete
  <2>1. /\ dialogs # <<>> /\ Popped \in Seq(Dialog) /\ Top.paths \in SUBSET Path
    BY <1>4, TopShape, PoppedShape DEF MenuForceDelete
  <2>2. CASE Cardinality(Top.paths) = 1
    <3>1. "analyze" \in Kinds
      BY DEF Kinds
    <3>2. /\ workers' \in Seq(Worker) /\ lock' \in 0 .. Len(workers')
          /\ queue' \in Seq(1 .. Len(workers'))
          /\ slot' \in 0 .. Len(workers') /\ searchSlot' \in 0 .. Len(workers')
          /\ generation' \in Nat
      BY <1>4, <2>1, <2>2, <3>1, SlotType DEF MenuForceDelete
    <3> QED
      BY <1>4, <2>1, <2>2, <3>2 DEF TypeOK, MenuForceDelete, SetBusy
  <2>3. CASE Cardinality(Top.paths) # 1
    <3>1. [kind |-> "batch?", paths |-> Top.paths] \in Dialog
      BY <2>1 DEF Dialog
    <3>2. dialogs' \in Seq(Dialog)
      BY <1>4, <2>1, <2>3, <3>1 DEF MenuForceDelete
    <3> QED
      BY <1>4, <2>3, <3>2 DEF TypeOK, MenuForceDelete, slotVars
  <2> QED
    BY <2>2, <2>3
<1>5. CASE Confirm
  <2>1. /\ dialogs # <<>> /\ Popped \in Seq(Dialog) /\ Top.paths \in SUBSET Path
        /\ Top.kind \in Questions
    BY <1>5, TopShape, PoppedShape DEF Confirm
  <2>2. Job(Top.kind) \in Kinds
    BY <2>1 DEF Job, Questions, Kinds
  <2>3. /\ workers' \in Seq(Worker) /\ lock' \in 0 .. Len(workers')
        /\ queue' \in Seq(1 .. Len(workers'))
        /\ slot' \in 0 .. Len(workers') /\ searchSlot' \in 0 .. Len(workers')
        /\ generation' \in Nat
    BY <1>5, <2>1, <2>2, SlotType DEF Confirm
  <2> QED
    BY <1>5, <2>1, <2>3 DEF TypeOK, Confirm, SetBusy
<1>6. CASE IndexReady
  <2>0. queue # <<>> /\ queue' = Tail(queue) /\ lock' = lock
    BY <1>6 DEF IndexReady, Handle
  <2>1. CASE engine # "none" /\ ~Sender.ok
    <3>1. /\ workers' \in Seq(Worker) /\ lock' \in 0 .. Len(workers')
          /\ queue' \in Seq(1 .. Len(workers'))
          /\ slot' \in 0 .. Len(workers') /\ searchSlot' \in 0 .. Len(workers')
      BY <1>6, <2>0, <2>1, NoLaunchType DEF IndexReady
    <3> QED
      BY <1>6, <2>1, <3>1 DEF TypeOK, IndexReady, slotVars
  <2>2. CASE ~(engine # "none" /\ ~Sender.ok)
    <3>1. Sender.out \in SUBSET Path
      BY <2>0, SenderType
    <3>2. index' \in SUBSET Path /\ ApplySearch(query, index') /\ query \in Query
      BY <1>6, <2>2, <3>1 DEF IndexReady, TypeOK
    <3>3. /\ workers' \in Seq(Worker) /\ lock' \in 0 .. Len(workers')
          /\ queue' \in Seq(1 .. Len(workers'))
          /\ slot' \in 0 .. Len(workers') /\ searchSlot' \in 0 .. Len(workers')
          /\ generation' \in Nat
      BY <2>0, <3>2, ApplyType
    <3> QED
      BY <1>6, <2>2, <3>2, <3>3 DEF TypeOK, IndexReady
  <2> QED
    BY <2>1, <2>2
<1> QED
  BY <1>1, <1>2, <1>3, <1>4, <1>5, <1>6

LEMMA WorkerType ==
    ASSUME TypeOK, NEW i \in DOMAIN workers, WorkerMoves(i)
    PROVE  TypeOK'
<1>1. /\ workers' \in Seq(Worker) /\ Len(workers') = Len(workers)
      /\ queue' \in Seq(1 .. Len(workers)) /\ UNCHANGED <<engine, pageVars>>
  BY DEF WorkerMoves, OneWorkerChanges
<1>2. lock' \in 0 .. Len(workers)
  BY DEF WorkerMoves, LockMoves, TypeOK
<1>3. disk' \in SUBSET Path /\ known' \in SUBSET Path
  BY DEF WorkerMoves, DiskMoves, TypeOK
<1> QED
  BY <1>1, <1>2, <1>3 DEF TypeOK, pageVars, slotVars, viewVars

LEMMA StopType ==
    ASSUME TypeOK, StopCancel \/ Stop \/ WatcherHears
    PROVE  TypeOK'
<1> USE DEF stopRest, engineVars, diskVars, slotVars, viewVars, pageVars
<1>1. CASE StopCancel \/ StopWaited \/ StopTimeout
  BY <1>1 DEF TypeOK, StopCancel, StopWaited, StopTimeout
<1>2. CASE StopSave \/ StopClose
  BY <1>2 DEF TypeOK, StopSave, StopClose
<1>3. CASE WatcherHears
  BY <1>3 DEF TypeOK, WatcherHears
<1> QED
  BY <1>1, <1>2, <1>3 DEF Stop

LEMMA TypeStep ==
    ASSUME TypeOK, [Next]_vars
    PROVE  TypeOK'
<1>1. CASE UNCHANGED vars
  BY <1>1 DEF vars, diskVars, engineVars, slotVars, viewVars, TypeOK
<1>2. ASSUME NEW i \in DOMAIN workers, WorkerStep(i) PROVE TypeOK'
  BY <1>2, WorkerShape, WorkerType
<1> QED
  BY <1>1, <1>2, PageType, LaunchingType, StopType DEF Next, UserInput, EventLoop

-----------------------------------------------------------------------------
(* EngineSafe *)

LockInv ==
    /\ \A i \in DOMAIN workers : workers[i].at = "calling" => lock = i
    /\ lock # 0 => lock \in DOMAIN workers /\ workers[lock].at = "calling" /\ engine = "open"

PageStep ==
    \/ ShowEvent \/ ClickReindex \/ TypeText \/ SelectCategory
    \/ DeleteKey \/ ContextMenu \/ MenuTrash \/ MenuForceDelete
    \/ Confirm \/ Decline \/ CloseMessage \/ TimerFires \/ EventLoop

(* The UI thread itself never calls the engine: it at most starts a worker.  *)
LEMMA PageShape ==
    ASSUME TypeOK, PageStep
    PROVE  /\ UNCHANGED <<diskVars, engineVars, quit>>
           /\ \/ workers' = workers
              \/ \E kind \in Kinds, gen \in Nat, q \in Query, todo \in SUBSET Path,
                    out \in SUBSET Path : Launch(kind, gen, q, todo, out)
<1> DEFINE Launches == \E kind \in Kinds, gen \in Nat, q \in Query, todo \in SUBSET Path,
                          out \in SUBSET Path : Launch(kind, gen, q, todo, out)
<1>1. UNCHANGED <<diskVars, engineVars, quit>>
  BY DEF PageStep, EventLoop, ShowEvent, ClickReindex, StartIndexing, TypeText, SelectCategory,
         DeleteKey, ContextMenu, MenuTrash, MenuForceDelete, Confirm, Decline, CloseMessage,
         TimerFires, IndexReady, SearchReady, AnalyzeReady, ExecuteDone, DeleteDone,
         deleteRest
<1>2. ASSUME NEW q \in Query, NEW from \in SUBSET Path, ApplySearch(q, from) PROVE Launches
  <2> DEFINE out == IF engine = "none" THEN Hits[q] \cap from ELSE {}
  <2>1. /\ out \in SUBSET Path /\ {} \in SUBSET Path /\ "search" \in Kinds
        /\ generation + 1 \in Nat /\ Launch("search", generation + 1, q, {}, out)
    BY <1>2 DEF ApplySearch, TypeOK, Kinds
  <2> HIDE DEF out
  <2> QED
    BY <2>1
<1>3. ASSUME NEW kind \in Kinds, NEW todo \in SUBSET Path, LaunchInSlot(kind, todo)
      PROVE  Launches
  <2>1. 0 \in Nat /\ query \in Query /\ {} \in SUBSET Path /\ Launch(kind, 0, query, todo, {})
    BY <1>3 DEF TypeOK, LaunchInSlot
  <2> QED
    BY <2>1
<1>4. CASE ShowEvent \/ ClickReindex
  <2>1. "index" \in Kinds /\ (IF engine = "none" THEN Path ELSE {}) \in SUBSET Path
    BY DEF Kinds
  <2> QED
    BY <1>3, <1>4, <2>1 DEF ShowEvent, ClickReindex, StartIndexing
<1>5. CASE SelectCategory
  BY <1>2, <1>5 DEF SelectCategory, TypeOK
<1>6. CASE TimerFires
  BY <1>2, <1>6 DEF TimerFires, TypeOK
<1>7. CASE MenuForceDelete
  <2>1. "analyze" \in Kinds /\ Top.paths \in SUBSET Path
    BY <1>7, TopShape DEF Kinds, MenuForceDelete
  <2> QED
    BY <1>1, <1>3, <1>7, <2>1 DEF MenuForceDelete
<1>8. CASE Confirm
  <2>1. Top.kind \in Questions /\ Top.paths \in SUBSET Path
    BY <1>8, TopShape DEF Confirm
  <2>2. Job(Top.kind) \in Kinds
    BY <2>1 DEF Kinds, Job, Questions
  <2> QED
    BY <1>1, <1>3, <1>8, <2>1, <2>2 DEF Confirm
<1>9. CASE IndexReady
  <2>1. CASE engine # "none" /\ ~Sender.ok
    BY <1>9, <2>1 DEF IndexReady
  <2>2. CASE ~(engine # "none" /\ ~Sender.ok)
    <3>1. index' \in SUBSET Path /\ query \in Query
      BY <1>9, <2>2, SenderType DEF IndexReady, Handle, TypeOK
    <3> QED
      BY <1>2, <1>9, <2>2, <3>1 DEF IndexReady
  <2> QED
    BY <2>1, <2>2
<1>10. CASE \/ TypeText \/ DeleteKey \/ ContextMenu \/ MenuTrash \/ Decline \/ CloseMessage
            \/ SearchReady \/ AnalyzeReady \/ ExecuteDone
            \/ DeleteDone("trash") \/ DeleteDone("batch")
  BY <1>1, <1>10 DEF TypeText, DeleteKey, ContextMenu, MenuTrash, Decline, CloseMessage, SearchReady,
               AnalyzeReady, ExecuteDone, DeleteDone
<1> QED
  BY <1>1, <1>4, <1>5, <1>6, <1>7, <1>8, <1>9, <1>10 DEF PageStep, EventLoop

LEMMA LockStep ==
    ASSUME TypeOK, LockInv, [Next]_vars
    PROVE  LockInv'
<1>1. CASE PageStep
  <2>1. UNCHANGED engineVars
    BY <1>1, PageShape
  <2>2. CASE workers' = workers
    BY <2>1, <2>2 DEF LockInv, engineVars
  <2>3. ASSUME NEW kind \in Kinds, NEW gen \in Nat, NEW q \in Query, NEW todo \in SUBSET Path,
               NEW out \in SUBSET Path, Launch(kind, gen, q, todo, out)
        PROVE  LockInv'
    <3>1. /\ DOMAIN workers' = DOMAIN workers \cup {Len(workers) + 1}
          /\ \A j \in DOMAIN workers : workers'[j] = workers[j]
          /\ workers'[Len(workers) + 1] = NewWorker(kind, gen, q, todo, out)
      BY <2>3, LaunchShape
    <3>2. NewWorker(kind, gen, q, todo, out).at = "running"
      BY DEF NewWorker
    <3> QED
      BY <2>1, <3>1, <3>2 DEF LockInv, engineVars
  <2> QED
    BY <1>1, <2>2, <2>3, PageShape
<1>2. ASSUME NEW i \in DOMAIN workers, WorkerStep(i) PROVE LockInv'
  <2>1. OneWorkerChanges(i) /\ LockMoves(i)
    BY <1>2, WorkerShape DEF WorkerMoves
  <2>2. i # 0
    BY DEF TypeOK
  <2> QED
    BY <2>1, <2>2 DEF LockInv, OneWorkerChanges, LockMoves
<1>3. CASE StopCancel \/ StopWaited \/ StopTimeout \/ StopSave \/ StopClose \/ WatcherHears
  BY <1>3 DEF LockInv, StopCancel, StopWaited, StopTimeout, StopSave, StopClose, WatcherHears,
              stopRest, engineVars
<1>4. CASE UNCHANGED vars
  BY <1>4 DEF vars, engineVars, LockInv
<1> QED
  BY <1>1, <1>2, <1>3, <1>4 DEF Next, UserInput, PageStep, Stop

LEMMA EngineSafeFromInv ==
    ASSUME TypeOK, LockInv
    PROVE  EngineSafe
<1>1. Calling \subseteq {lock}
  BY DEF LockInv, Calling
<1>2. Cardinality(Calling) <= 1
  <2>1. IsFiniteSet({lock}) /\ Cardinality({lock}) = 1
    BY FS_Singleton
  <2>2. Cardinality(Calling) <= Cardinality({lock})
    BY <1>1, <2>1, FS_Subset
  <2> QED
    BY <2>1, <2>2
<1>3. Calling # {} => engine = "open"
  <2> SUFFICES ASSUME NEW i \in Calling PROVE engine = "open"
    OBVIOUS
  <2>1. lock = i /\ i # 0
    BY DEF LockInv, Calling, TypeOK
  <2> QED
    BY <2>1 DEF LockInv
<1>4. lock # 0 => lock \in Calling
  BY DEF LockInv, Calling
<1> QED
  BY <1>2, <1>3, <1>4 DEF EngineSafe

-----------------------------------------------------------------------------
(* SettledShowsQuery *)

ShowsQuery ==
    /\ shown \subseteq Hits[query]
    /\ engine = "none" => Hits[query] \cap index \subseteq shown

\* A search finds what its own query matches.  The newest one has the query the
\* page shows, unless the timer will start another, and over the slow index it
\* has found all that is still in the index.
SearchInv ==
    /\ \A i \in DOMAIN workers : workers[i].kind = "search" =>
          /\ workers[i].generation <= generation
          /\ workers[i].out \subseteq Hits[workers[i].query]
          /\ workers[i].generation = generation =>
                /\ timer \/ workers[i].query = query
                /\ engine = "none" => Hits[workers[i].query] \cap index \subseteq workers[i].out
    /\ "box" \in enabled /\ Settled => ShowsQuery

SearchFacts(i) ==
    /\ workers[i].generation <= generation
    /\ workers[i].out \subseteq Hits[workers[i].query]
    /\ workers[i].generation = generation =>
          /\ timer \/ workers[i].query = query
          /\ engine = "none" => Hits[workers[i].query] \cap index \subseteq workers[i].out

LEMMA SearchInvDef ==
    SearchInv <=> /\ \A i \in DOMAIN workers : workers[i].kind = "search" => SearchFacts(i)
                  /\ "box" \in enabled /\ Settled => ShowsQuery
  BY DEF SearchInv, SearchFacts

(* A signal that is not handled now is still there.                          *)
LEMMA StillQueued ==
    ASSUME TypeOK, queue # <<>>, queue' = Tail(queue), NEW i, i # Head(queue),
           \E k \in DOMAIN queue : queue[k] = i
    PROVE  \E k \in DOMAIN queue' : queue'[k] = i
<1>1. queue \in Seq(1 .. Len(workers)) /\ queue # <<>>
  BY DEF TypeOK
<1>2. /\ Len(Tail(queue)) = Len(queue) - 1 /\ Tail(queue) \in Seq(1 .. Len(workers))
      /\ \A k \in 1 .. Len(Tail(queue)) : Tail(queue)[k] = queue[k + 1]
  BY <1>1, HeadTailProperties
<1>3. PICK k \in 1 .. Len(queue) : queue[k] = i
  BY <1>1
<1>4. k # 1
  BY <1>1, <1>3
<1>5. k - 1 \in 1 .. Len(Tail(queue)) /\ k - 1 + 1 = k
  BY <1>1, <1>2, <1>3, <1>4
<1>6. k - 1 \in DOMAIN queue' /\ queue'[k - 1] = i
  BY <1>2, <1>3, <1>5
<1> QED
  BY <1>6

\* The workers' part of a step that neither starts a search nor handles the
\* newest one.
SearchesStay ==
    /\ DOMAIN workers \subseteq DOMAIN workers'
    /\ \A j \in DOMAIN workers : workers'[j] = workers[j]
    /\ \A j \in DOMAIN workers' \ DOMAIN workers : workers'[j].kind # "search"
    /\ generation' = generation
    /\ \A j \in Pending("search") : workers[j].generation = generation => j \in Pending("search")'

(* Starting another kind of worker, or handling another signal, leaves the   *)
(* searches where they are.                                                  *)
LEMMA SearchesKept ==
    ASSUME TypeOK, generation' = generation,
           \/ workers' = workers
           \/ \E kind \in Kinds \ {"search"}, gen \in Nat, q \in Query, todo \in SUBSET Path,
                 out \in SUBSET Path : Launch(kind, gen, q, todo, out),
           \/ queue' = queue
           \/ /\ queue # <<>> /\ queue' = Tail(queue)
              /\ ~(Sender.kind = "search" /\ Sender.generation = generation)
    PROVE  SearchesStay
<1>1. /\ DOMAIN workers \subseteq DOMAIN workers'
      /\ \A j \in DOMAIN workers : workers'[j] = workers[j]
      /\ \A j \in DOMAIN workers' \ DOMAIN workers : workers'[j].kind # "search"
  <2>1. CASE workers' = workers
    BY <2>1
  <2>2. CASE workers' # workers
    <3>0. PICK kind \in Kinds \ {"search"}, gen \in Nat, q \in Query, todo \in SUBSET Path,
               out \in SUBSET Path : Launch(kind, gen, q, todo, out)
      BY <2>2
    <3>1. /\ DOMAIN workers' = DOMAIN workers \cup {Len(workers) + 1}
          /\ \A j \in DOMAIN workers : workers'[j] = workers[j]
          /\ workers'[Len(workers) + 1] = NewWorker(kind, gen, q, todo, out)
      BY <3>0, LaunchShape
    <3>2. NewWorker(kind, gen, q, todo, out).kind = kind /\ kind # "search"
      BY DEF NewWorker
    <3> QED
      BY <3>1, <3>2
  <2> QED
    BY <2>1, <2>2
<1>2. ASSUME NEW j \in Pending("search"), workers[j].generation = generation
      PROVE  j \in Pending("search")'
  <2>1. j \in DOMAIN workers /\ workers[j].kind = "search"
    BY DEF Pending
  <2>2. CASE workers[j].at # "finished"
    BY <1>1, <2>1, <2>2 DEF Pending
  <2>3. CASE \E k \in DOMAIN queue : queue[k] = j
    <3>1. queue' = queue \/ (queue # <<>> /\ queue' = Tail(queue) /\ j # Head(queue))
      BY <1>2, <2>1 DEF Sender
    <3>2. \E k \in DOMAIN queue' : queue'[k] = j
      BY <2>3, <3>1, StillQueued
    <3> QED
      BY <1>1, <2>1, <3>2 DEF Pending
  <2> QED
    BY <2>2, <2>3 DEF Pending
<1> QED
  BY <1>1, <1>2 DEF SearchesStay

LEMMA StaySettled ==
    ASSUME SearchesStay, timer' = timer, Settled'
    PROVE  Settled
<1> SUFFICES ASSUME NEW j \in Pending("search"), workers[j].generation = generation
             PROVE  FALSE
  BY DEF Settled
<1>1. /\ j \in DOMAIN workers /\ workers'[j] = workers[j] /\ generation' = generation
      /\ j \in Pending("search")'
  BY DEF SearchesStay, Pending
<1> QED
  BY <1>1 DEF Settled

(* What is taken out of the table goes out of the slow index, too; and while *)
(* an indexing runs, the box says nothing.                                   *)
LEMMA StayStep ==
    ASSUME TypeOK, SearchInv, SearchesStay, UNCHANGED <<query, timer>>,
           engine' = engine \/ engine' = "freed",
           "box" \in enabled' => "box" \in enabled,
           NEW gone,
           index' = IF engine = "none" THEN index \ gone ELSE index,
           shown' = shown \ gone \/ "box" \notin enabled'
    PROVE  SearchInv'
<1>1. ASSUME NEW i \in DOMAIN workers', workers'[i].kind = "search" PROVE SearchFacts(i)'
  <2>1. i \in DOMAIN workers /\ workers'[i] = workers[i] /\ generation' = generation
    BY <1>1 DEF SearchesStay
  <2>2. SearchFacts(i)
    BY <1>1, <2>1, SearchInvDef
  <2> QED
    BY <2>1, <2>2 DEF SearchFacts
<1>2. ASSUME "box" \in enabled', Settled' PROVE ShowsQuery'
  <2>1. ShowsQuery
    BY <1>2, StaySettled DEF SearchInv
  <2> QED
    BY <1>2, <2>1 DEF ShowsQuery
<1>3. SearchInv' <=> /\ \A i \in DOMAIN workers' : workers'[i].kind = "search" => SearchFacts(i)'
                     /\ "box" \in enabled' /\ Settled' => ShowsQuery'
  BY DEF SearchInv, SearchFacts
<1> QED
  BY <1>1, <1>2, <1>3

(* A new search is the newest, and is still to come.                         *)
LEMMA ApplyStep ==
    ASSUME TypeOK, SearchInv, NEW q \in Query, NEW from \in SUBSET Path, ApplySearch(q, from),
           query' = q, index' = from, engine' = engine
    PROVE  SearchInv'
<1> DEFINE out == IF engine = "none" THEN Hits[q] \cap from ELSE {}
<1> PICK n : n = Len(workers) + 1
  OBVIOUS
<1>0. /\ out \in SUBSET Path /\ {} \in SUBSET Path /\ "search" \in Kinds
      /\ generation \in Nat /\ generation + 1 \in Nat
      /\ Launch("search", generation + 1, q, {}, out)
      /\ generation' = generation + 1
  BY DEF ApplySearch, TypeOK, Kinds
<1>1. /\ DOMAIN workers' = DOMAIN workers \cup {n}
      /\ \A j \in DOMAIN workers : workers'[j] = workers[j]
      /\ workers'[n] = NewWorker("search", generation + 1, q, {}, out)
  BY <1>0, LaunchShape
<1>2. /\ workers'[n].kind = "search" /\ workers'[n].generation = generation'
      /\ workers'[n].at = "running" /\ workers'[n].query = q /\ workers'[n].out = out
  BY <1>0, <1>1 DEF NewWorker
<1>3. ASSUME NEW i \in DOMAIN workers, workers[i].kind = "search" PROVE SearchFacts(i)'
  <2>1. SearchFacts(i) /\ workers'[i] = workers[i]
    BY <1>1, <1>3, SearchInvDef
  <2>2. workers[i].generation \in Nat
    BY WorkerTypes DEF Worker
  <2>3. workers[i].generation < generation'
    BY <1>0, <2>1, <2>2 DEF SearchFacts
  <2> QED
    BY <1>0, <2>1, <2>2, <2>3 DEF SearchFacts
<1>4. SearchFacts(n)'
  <2>1. /\ workers'[n].generation <= generation'
        /\ workers'[n].out \subseteq Hits[workers'[n].query]
        /\ workers'[n].query = query'
    BY <1>0, <1>2
  <2>2. engine' = "none" => Hits[workers'[n].query] \cap index' \subseteq workers'[n].out
    BY <1>2
  <2> QED
    BY <2>1, <2>2 DEF SearchFacts
<1>5. ~Settled'
  <2>1. n \in Pending("search")'
    BY <1>1, <1>2 DEF Pending
  <2> QED
    BY <1>2, <2>1 DEF Settled
<1>6. SearchInv' <=> /\ \A i \in DOMAIN workers' : workers'[i].kind = "search" => SearchFacts(i)'
                     /\ "box" \in enabled' /\ Settled' => ShowsQuery'
  BY DEF SearchInv, SearchFacts
<1>7. ASSUME NEW i \in DOMAIN workers', workers'[i].kind = "search" PROVE SearchFacts(i)'
  <2>1. CASE i \in DOMAIN workers
    BY <1>1, <1>3, <1>7, <2>1
  <2>2. CASE i = n
    BY <1>4, <2>2
  <2> QED
    BY <1>1, <2>1, <2>2
<1> QED
  BY <1>5, <1>6, <1>7

(* The result of the newest search becomes what is shown.                    *)
LEMMA ReadyStep ==
    ASSUME TypeOK, SearchInv, SearchReady
    PROVE  SearchInv'
<1>0. /\ queue # <<>> /\ Sender.kind = "search" /\ queue' = Tail(queue)
      /\ UNCHANGED <<engine, workers, generation, index, query, timer, enabled>>
      /\ shown' = IF Sender.generation = generation THEN Sender.out ELSE shown
  BY DEF SearchReady, Handle, engineVars, slotVars
<1>1. CASE Sender.generation # generation
  <2>1. SearchesStay
    BY <1>0, <1>1, SearchesKept
  <2>2. shown' = shown \ {} /\ index' = IF engine = "none" THEN index \ {} ELSE index
    BY <1>0, <1>1
  <2> QED
    BY <1>0, <2>1, <2>2, StayStep
<1>2. CASE Sender.generation = generation
  <2>1. SearchFacts(Head(queue))
    BY <1>0, SenderType, SearchInvDef
  <2>2. ASSUME NEW i \in DOMAIN workers, workers[i].kind = "search" PROVE SearchFacts(i)'
    BY <1>0, <2>2, SearchInvDef DEF SearchFacts
  <2>3. ASSUME Settled' PROVE ShowsQuery'
    <3>1. ~timer
      BY <1>0, <2>3 DEF Settled
    <3> QED
      BY <1>0, <1>2, <2>1, <3>1 DEF SearchFacts, ShowsQuery, Sender
  <2>4. SearchInv' <=> /\ \A i \in DOMAIN workers' : workers'[i].kind = "search" => SearchFacts(i)'
                       /\ "box" \in enabled' /\ Settled' => ShowsQuery'
    BY DEF SearchInv, SearchFacts
  <2> QED
    BY <1>0, <2>2, <2>3, <2>4
<1> QED
  BY <1>1, <1>2

(* After a key the timer runs: nothing is settled.                           *)
LEMMA TypeTextStep ==
    ASSUME TypeOK, SearchInv, TypeText
    PROVE  SearchInv'
<1>1. /\ timer' = TRUE /\ UNCHANGED <<engine, workers, generation, index>>
  BY DEF TypeText, engineVars, slotVars
<1>2. ~Settled'
  BY <1>1 DEF Settled
<1>3. ASSUME NEW i \in DOMAIN workers, workers[i].kind = "search" PROVE SearchFacts(i)'
  BY <1>1, <1>3, SearchInvDef DEF SearchFacts
<1>4. SearchInv' <=> /\ \A i \in DOMAIN workers' : workers'[i].kind = "search" => SearchFacts(i)'
                     /\ "box" \in enabled' /\ Settled' => ShowsQuery'
  BY DEF SearchInv, SearchFacts
<1> QED
  BY <1>1, <1>2, <1>3, <1>4

(* A worker's step: a search gets its result, and stays pending.             *)
LEMMA WorkerSearch ==
    ASSUME TypeOK, LockInv, SearchInv, NEW i \in DOMAIN workers, WorkerMoves(i)
    PROVE  SearchInv'
<1>1. /\ DOMAIN workers' = DOMAIN workers
      /\ \A j \in DOMAIN workers \ {i} : workers'[j] = workers[j]
      /\ workers'[i].kind = workers[i].kind
      /\ workers'[i].generation = workers[i].generation
      /\ workers'[i].query = workers[i].query
      /\ \/ queue' = queue /\ workers'[i].at # "finished"
         \/ queue' = Append(queue, i)
      /\ UNCHANGED <<engine, generation, index, shown, query, timer, enabled>>
  BY DEF WorkerMoves, OneWorkerChanges, pageVars, slotVars, viewVars
<1>2. ASSUME NEW j \in DOMAIN workers', workers'[j].kind = "search" PROVE SearchFacts(j)'
  <2>1. SearchFacts(j)
    BY <1>1, <1>2, SearchInvDef
  <2>2. CASE workers'[j].out = workers[j].out
    BY <1>1, <2>1, <2>2 DEF SearchFacts
  <2>3. CASE workers'[j].out # workers[j].out
    <3>1. j = i
      BY <1>1, <1>2, <2>3
    <3>2. \/ workers'[i].out = {} /\ engine # "none"
          \/ workers'[i].out = Hits[workers[i].query] \cap known /\ workers[i].at = "calling"
      BY <1>1, <1>2, <2>3, <3>1 DEF WorkerMoves, OutMoves
    <3>3. workers[i].at = "calling" => engine # "none"
      BY DEF LockInv, TypeOK
    <3>4. workers'[i].out \subseteq Hits[workers[i].query] /\ engine' # "none"
      BY <1>1, <3>2, <3>3
    <3> QED
      BY <1>1, <2>1, <3>1, <3>4 DEF SearchFacts
  <2> QED
    BY <2>2, <2>3
<1>3. ASSUME NEW j \in Pending("search") PROVE j \in Pending("search")'
  <2>1. /\ j \in DOMAIN workers' /\ workers'[j].kind = "search"
    BY <1>1 DEF Pending
  <2>2. (\E k \in DOMAIN queue : queue[k] = j) => \E k \in DOMAIN queue' : queue'[k] = j
    <3>1. CASE queue' = queue
      BY <3>1
    <3>2. CASE queue' = Append(queue, i)
      <4>1. queue \in Seq(1 .. Len(workers))
        BY DEF TypeOK
      <4>2. \A k \in DOMAIN queue : k \in DOMAIN queue' /\ queue'[k] = queue[k]
        BY <3>2, <4>1
      <4> QED
        BY <4>2
    <3> QED
      BY <1>1, <3>1, <3>2
  <2>3. CASE j # i
    BY <1>1, <2>1, <2>2, <2>3 DEF Pending
  <2>4. CASE j = i
    <3>1. CASE queue' = Append(queue, i)
      <4>1. Len(queue) + 1 \in DOMAIN queue' /\ queue'[Len(queue) + 1] = i
        BY <3>1 DEF TypeOK
      <4> QED
        BY <2>1, <2>4, <4>1 DEF Pending
    <3>2. CASE workers'[i].at # "finished"
      BY <2>1, <2>4, <3>2 DEF Pending
    <3> QED
      BY <1>1, <3>1, <3>2
  <2> QED
    BY <2>3, <2>4
<1>4. Settled' => Settled
  <2> SUFFICES ASSUME Settled', NEW j \in Pending("search"), workers[j].generation = generation
               PROVE  FALSE
    BY <1>1 DEF Settled
  <2>1. j \in Pending("search")' /\ workers'[j].generation = generation'
    BY <1>1, <1>3 DEF Pending
  <2> QED
    BY <2>1 DEF Settled
<1>5. "box" \in enabled' /\ Settled' => ShowsQuery'
  BY <1>1, <1>4 DEF SearchInv, ShowsQuery
<1>6. SearchInv' <=> /\ \A j \in DOMAIN workers' : workers'[j].kind = "search" => SearchFacts(j)'
                     /\ "box" \in enabled' /\ Settled' => ShowsQuery'
  BY DEF SearchInv, SearchFacts
<1> QED
  BY <1>2, <1>5, <1>6

LEMMA PageSearch ==
    ASSUME TypeOK, SearchInv, PageStep
    PROVE  SearchInv'
<1> USE DEF deleteRest, engineVars, slotVars
<1>1. CASE TypeText
  BY <1>1, TypeTextStep
<1>2. CASE SearchReady
  BY <1>2, ReadyStep
<1>3. CASE SelectCategory
  <2>1. PICK q \in Query : query' = q /\ ApplySearch(q, index)
    BY <1>3 DEF SelectCategory
  <2>2. index \in SUBSET Path /\ index' = index /\ engine' = engine
    BY <1>3 DEF SelectCategory, TypeOK
  <2> QED
    BY <2>1, <2>2, ApplyStep
<1>4. CASE TimerFires
  <2>1. /\ query \in Query /\ index \in SUBSET Path /\ ApplySearch(query, index)
        /\ query' = query /\ index' = index /\ engine' = engine
    BY <1>4 DEF TimerFires, TypeOK
  <2> QED
    BY <2>1, ApplyStep
<1>5. CASE IndexReady
  <2>0. queue # <<>> /\ Sender.kind = "index" /\ queue' = Tail(queue)
    BY <1>5 DEF IndexReady, Handle
  <2>1. CASE engine # "none" /\ ~Sender.ok
    <3>1. SearchesStay
      BY <1>5, <2>0, <2>1, SearchesKept DEF IndexReady
    <3>2. shown' = shown \ {} /\ index' = IF engine = "none" THEN index \ {} ELSE index
      BY <1>5, <2>1 DEF IndexReady
    <3>3. /\ UNCHANGED <<query, timer>> /\ engine' = engine
          /\ "box" \in enabled' => "box" \in enabled
      BY <1>5, <2>1 DEF IndexReady
    <3> QED
      BY <3>1, <3>2, <3>3, StayStep
  <2>2. CASE ~(engine # "none" /\ ~Sender.ok)
    <3>1. /\ query \in Query /\ index' \in SUBSET Path /\ ApplySearch(query, index')
          /\ query' = query /\ engine' = engine
      BY <1>5, <2>0, <2>2, SenderType DEF IndexReady, TypeOK
    <3> QED
      BY <3>1, ApplyStep
  <2> QED
    BY <2>1, <2>2
<1>6. ASSUME NEW kind \in Kinds \ {"search"}, NEW todo \in SUBSET Path, LaunchInSlot(kind, todo),
             queue' = queue
      PROVE  SearchesStay
  <2>1. /\ 0 \in Nat /\ query \in Query /\ {} \in SUBSET Path
        /\ Launch(kind, 0, query, todo, {}) /\ generation' = generation
    BY <1>6 DEF TypeOK, LaunchInSlot
  <2> QED
    BY <1>6, <2>1, SearchesKept
<1>7. CASE ShowEvent \/ ClickReindex
  <2>1. /\ "index" \in Kinds \ {"search"} /\ (IF engine = "none" THEN Path ELSE {}) \in SUBSET Path
        /\ LaunchInSlot("index", IF engine = "none" THEN Path ELSE {}) /\ queue' = queue
    BY <1>7 DEF Kinds, ShowEvent, ClickReindex, StartIndexing
  <2>2. SearchesStay
    BY <1>6, <2>1
  <2>3. /\ index' = IF engine = "none" THEN index \ {} ELSE index
        /\ "box" \notin enabled' /\ UNCHANGED <<query, timer, engine>>
    BY <1>7 DEF ShowEvent, ClickReindex, StartIndexing
  <2> QED
    BY <2>2, <2>3, StayStep
<1>8. CASE MenuForceDelete \/ Confirm
  <2>1. /\ shown' = shown \ {} /\ index' = IF engine = "none" THEN index \ {} ELSE index
        /\ UNCHANGED <<query, timer, engine, queue>>
        /\ "box" \in enabled' => "box" \in enabled
    BY <1>8 DEF MenuForceDelete, Confirm, SetBusy
  <2>2. Top.kind \in Questions \cup {"menu"} /\ Top.paths \in SUBSET Path
    BY <1>8, TopShape DEF MenuForceDelete, Confirm
  <2>3. "analyze" \in Kinds \ {"search"}
    BY DEF Kinds
  <2>4. Top.kind \in Questions => Job(Top.kind) \in Kinds \ {"search"}
    BY DEF Kinds, Job, Questions
  <2>5. CASE UNCHANGED <<workers, generation>>
    BY <2>1, <2>5, SearchesKept, StayStep
  <2>6. CASE LaunchInSlot("analyze", Top.paths)
    BY <1>6, <2>1, <2>2, <2>3, <2>6, StayStep
  <2>7. CASE LaunchInSlot(Job(Top.kind), Top.paths) /\ Top.kind \in Questions
    BY <1>6, <2>1, <2>2, <2>4, <2>7, StayStep
  <2> QED
    BY <1>8, <2>5, <2>6, <2>7 DEF MenuForceDelete, Confirm
<1>9. CASE DeleteKey \/ ContextMenu \/ MenuTrash \/ Decline
  <2>1. /\ shown' = shown \ {} /\ index' = IF engine = "none" THEN index \ {} ELSE index
        /\ UNCHANGED <<query, timer, engine, queue, workers, generation, enabled>>
    BY <1>9 DEF DeleteKey, ContextMenu, MenuTrash, Decline
  <2> QED
    BY <2>1, SearchesKept, StayStep
<1>10. CASE CloseMessage
  <2>1. /\ shown' = shown \ Below(Top.paths)
        /\ index' = IF engine = "none" THEN index \ Below(Top.paths) ELSE index
        /\ UNCHANGED <<query, timer, engine, queue, workers, generation, enabled>>
    BY <1>10 DEF CloseMessage, RemoveDeletedPaths, Below
  <2> QED
    BY <2>1, SearchesKept, StayStep
<1>11. CASE AnalyzeReady \/ ExecuteDone
  <2>1. /\ shown' = shown \ {} /\ index' = IF engine = "none" THEN index \ {} ELSE index
        /\ UNCHANGED <<query, timer, engine, workers, generation>>
        /\ "box" \in enabled' => "box" \in enabled
    BY <1>11 DEF AnalyzeReady, ExecuteDone, SetBusy
  <2>2. queue # <<>> /\ Sender.kind # "search" /\ queue' = Tail(queue)
    BY <1>11 DEF AnalyzeReady, ExecuteDone, Handle
  <2> QED
    BY <2>1, <2>2, SearchesKept, StayStep
<1>12. ASSUME NEW kind \in {"trash", "batch"}, DeleteDone(kind) PROVE SearchInv'
  <2>1. PICK gone \in {{}, Below(Sender.out)} :
            /\ shown' = shown \ gone
            /\ index' = IF engine = "none" THEN index \ gone ELSE index
    BY <1>12 DEF DeleteDone, RemoveDeletedPaths, Below
  <2>2. /\ UNCHANGED <<query, timer, engine, workers, generation>>
        /\ "box" \in enabled' => "box" \in enabled
    BY <1>12 DEF DeleteDone, SetBusy
  <2>3. queue # <<>> /\ Sender.kind # "search" /\ queue' = Tail(queue)
    BY <1>12 DEF DeleteDone, Handle
  <2> QED
    BY <2>1, <2>2, <2>3, SearchesKept, StayStep
<1> QED
  BY <1>1, <1>2, <1>3, <1>4, <1>5, <1>7, <1>8, <1>9, <1>10, <1>11, <1>12
  DEF PageStep, EventLoop

LEMMA SearchStep ==
    ASSUME TypeOK, LockInv, SearchInv, [Next]_vars
    PROVE  SearchInv'
<1>1. CASE PageStep
  BY <1>1, PageSearch
<1>2. ASSUME NEW i \in DOMAIN workers, WorkerStep(i) PROVE SearchInv'
  BY <1>2, WorkerShape, WorkerSearch
<1>3. CASE StopCancel \/ Stop \/ WatcherHears \/ UNCHANGED vars
  <2>1. /\ shown' = shown \ {} /\ index' = IF engine = "none" THEN index \ {} ELSE index
        /\ UNCHANGED <<query, timer, queue, workers, generation, enabled>>
        /\ engine' = engine \/ engine' = "freed"
    BY <1>3 DEF StopCancel, Stop, StopWaited, StopTimeout, StopSave, StopClose, WatcherHears,
                stopRest, pageVars, slotVars, viewVars, engineVars, vars
  <2> QED
    BY <2>1, SearchesKept, StayStep
<1> QED
  BY <1>1, <1>2, <1>3 DEF Next, UserInput, PageStep

LEMMA SearchInit == Init => SearchInv
  BY DEF Init, SearchInv

Inv == TypeOK /\ LockInv /\ SearchInv

LEMMA Invariance == Spec => []Inv
<1>1. Init => Inv
  BY TypeInit, SearchInit DEF Inv, Init, LockInv
<1>2. Inv /\ [Next]_vars => Inv'
  BY TypeStep, LockStep, SearchStep DEF Inv
<1> QED
  BY <1>1, <1>2, PTL DEF Spec

-----------------------------------------------------------------------------
(* What disappears is what was asked about and confirmed *)

Asking == {e \in ToSet(dialogs) : e.kind \in Questions}
Jobs == {v \in ToSet(workers) : v.kind \in {"trash", "batch", "execute"}}
Asked == Below(UNION {d.paths : d \in Asking})
Approved == Below(UNION {w.todo : w \in Jobs})

LEMMA DeletionIs ==
    /\ Deletion!Init <=> disk \subseteq Path /\ Asked = {} /\ Approved = {}
    /\ Deletion!Ask <=> Asked' \subseteq Path /\ disk' = disk /\ Approved' = Approved
    /\ Deletion!Approve <=>
          /\ Approved \subseteq Approved'
          /\ Approved' \subseteq Approved \cup Asked
          /\ Asked' \subseteq Asked
          /\ disk' = disk
    /\ Deletion!Remove <=>
          /\ disk' \subseteq disk
          /\ disk \ disk' \subseteq Approved
          /\ Approved' \subseteq Approved
          /\ Asked' \subseteq Asked
    /\ Deletion!vars = <<disk, Asked, Approved>>
  BY DEF Deletion!Init, Deletion!Ask, Deletion!Approve, Deletion!Remove, Deletion!vars,
         Asked, Approved, Asking, Jobs, Below

(* A path is asked about when it is below one that an open question names.   *)
LEMMA AskedIs ==
    ASSUME NEW r
    PROVE  r \in Asked <=> \E k \in DOMAIN dialogs : /\ dialogs[k].kind \in Questions
                                                     /\ r \in Below(dialogs[k].paths)
  BY DEF Asked, Asking, Below, ToSet

LEMMA ApprovedIs ==
    ASSUME NEW r
    PROVE  r \in Approved <=> \E i \in DOMAIN workers : /\ workers[i].kind \in Deleting
                                                        /\ r \in Below(workers[i].todo)
  BY DEF Approved, Jobs, Deleting, Below, ToSet

LEMMA AskedIsNext ==
    ASSUME NEW r
    PROVE  r \in Asked' <=> \E k \in DOMAIN dialogs' : /\ dialogs'[k].kind \in Questions
                                                       /\ r \in Below(dialogs'[k].paths)
  BY DEF Asked, Asking, Below, ToSet, Questions

LEMMA ApprovedIsNext ==
    ASSUME NEW r
    PROVE  r \in Approved' <=> \E i \in DOMAIN workers' : /\ workers'[i].kind \in Deleting
                                                          /\ r \in Below(workers'[i].todo)
  BY DEF Approved, Jobs, Deleting, Below, ToSet

LEMMA NamedType ==
    ASSUME NEW d \in Seq(Dialog), NEW k \in DOMAIN d
    PROVE  Below(d[k].paths) \subseteq Path
<1>1. d[k] \in Dialog
  OBVIOUS
<1>2. d[k].paths \in SUBSET Path
  BY <1>1 DEF Dialog
<1> QED
  BY <1>2, BelowType

(* Closing the innermost dialog takes back at most what it asks.             *)
LEMMA PoppedAsked ==
    ASSUME TypeOK, dialogs # <<>>, dialogs' = Popped
    PROVE  Asked' \subseteq Asked
<1> SUFFICES ASSUME NEW r \in Asked' PROVE r \in Asked
  OBVIOUS
<1>1. PICK k \in DOMAIN dialogs' : /\ dialogs'[k].kind \in Questions
                                   /\ r \in Below(dialogs'[k].paths)
  BY AskedIsNext
<1>2. k \in DOMAIN dialogs /\ dialogs'[k] = dialogs[k]
  BY <1>1, PoppedShape
<1> QED
  BY <1>1, <1>2, AskedIs

(* A step that starts no deletion, and in which no worker goes on, at most   *)
(* asks something else.                                                      *)
LEMMA AskStep ==
    ASSUME TypeOK, TypeOK', disk' = disk,
           \/ workers' = workers
           \/ \E kind \in Kinds, gen \in Nat, q \in Query, todo \in SUBSET Path,
                 out \in SUBSET Path : /\ kind \in Deleting => todo = {}
                                       /\ Launch(kind, gen, q, todo, out)
    PROVE  Deletion!Ask
<1>1. Asked' \subseteq Path
  <2> SUFFICES ASSUME NEW r \in Asked' PROVE r \in Path
    OBVIOUS
  <2>1. PICK k \in DOMAIN dialogs' : r \in Below(dialogs'[k].paths)
    BY AskedIsNext
  <2>2. dialogs' \in Seq(Dialog)
    BY DEF TypeOK
  <2> QED
    BY <2>1, <2>2, NamedType
<1>2. Approved' = Approved
  <2>1. CASE workers' = workers
    BY <2>1 DEF Approved, Jobs, Below
  <2>2. CASE workers' # workers
    <3>1. PICK kind \in Kinds, gen \in Nat, q \in Query, todo \in SUBSET Path,
               out \in SUBSET Path : /\ kind \in Deleting => todo = {}
                                     /\ Launch(kind, gen, q, todo, out)
      BY <2>2
    <3>2. /\ DOMAIN workers' = DOMAIN workers \cup {Len(workers) + 1}
          /\ \A j \in DOMAIN workers : workers'[j] = workers[j]
          /\ workers'[Len(workers) + 1] = NewWorker(kind, gen, q, todo, out)
      BY <3>1, LaunchShape
    <3>3. /\ NewWorker(kind, gen, q, todo, out).kind = kind
          /\ NewWorker(kind, gen, q, todo, out).todo = todo
      BY DEF NewWorker
    <3>4. \A r : r \in Approved' <=> r \in Approved
      <4> TAKE r
      <4>1. kind \in Deleting => r \notin Below(todo)
        BY <3>1 DEF Below
      <4> QED
        BY <3>2, <3>3, <4>1, ApprovedIs, ApprovedIsNext
    <3> QED
      BY <3>4
  <2> QED
    BY <2>1, <2>2
<1> QED
  BY <1>1, <1>2, DeletionIs

(* What the user confirms is what the innermost question has asked.          *)
LEMMA ConfirmStep ==
    ASSUME TypeOK, Confirm
    PROVE  Deletion!Approve
<1>0. /\ dialogs # <<>> /\ Top.kind \in Questions /\ dialogs' = Popped /\ disk' = disk
      /\ LaunchInSlot(Job(Top.kind), Top.paths)
  BY DEF Confirm, deleteRest, diskVars
<1>1. /\ Len(dialogs) \in DOMAIN dialogs /\ Top = dialogs[Len(dialogs)]
      /\ Top.paths \in SUBSET Path
  BY <1>0, TopShape
<1>2. Job(Top.kind) \in Deleting /\ Job(Top.kind) \in Kinds
  BY <1>0 DEF Job, Questions, Deleting, Kinds
<1>3. /\ 0 \in Nat /\ query \in Query /\ {} \in SUBSET Path
      /\ Launch(Job(Top.kind), 0, query, Top.paths, {})
  BY <1>0 DEF TypeOK, LaunchInSlot
<1>4. PICK kind \in Kinds, ps \in SUBSET Path : kind = Job(Top.kind) /\ ps = Top.paths
  BY <1>1, <1>2
<1>5. /\ DOMAIN workers' = DOMAIN workers \cup {Len(workers) + 1}
      /\ \A j \in DOMAIN workers : workers'[j] = workers[j]
      /\ workers'[Len(workers) + 1] = NewWorker(kind, 0, query, ps, {})
  BY <1>3, <1>4, LaunchShape
<1>6. /\ NewWorker(kind, 0, query, ps, {}).kind = kind
      /\ NewWorker(kind, 0, query, ps, {}).todo = ps
  BY DEF NewWorker
<1>7. \A r : r \in Approved' <=> r \in Approved \/ r \in Below(ps)
  <2> TAKE r
  <2>1. kind \in Deleting
    BY <1>2, <1>4
  <2> QED
    BY <1>5, <1>6, <2>1, ApprovedIs, ApprovedIsNext
<1>8. Below(ps) \subseteq Asked
  <2>1. \A r \in Below(ps) : r \in Asked
    BY <1>0, <1>1, <1>4, AskedIs
  <2> QED
    BY <2>1
<1>9. Asked' \subseteq Asked
  BY <1>0, PoppedAsked
<1> QED
  BY <1>0, <1>7, <1>8, <1>9, DeletionIs

(* A worker takes away what it was told to, and what it has passed is no     *)
(* longer approved.                                                          *)
LEMMA RemoveStep ==
    ASSUME TypeOK, NEW i \in DOMAIN workers, WorkerMoves(i)
    PROVE  Deletion!Remove
<1>1. /\ DOMAIN workers' = DOMAIN workers
      /\ \A j \in DOMAIN workers \ {i} : workers'[j] = workers[j]
      /\ workers'[i].kind = workers[i].kind
      /\ workers'[i].todo \subseteq workers[i].todo
      /\ dialogs' = dialogs
  BY DEF WorkerMoves, OneWorkerChanges, pageVars
<1>2. /\ disk' \subseteq disk
      /\ disk \ disk' \subseteq (IF workers[i].kind \in Deleting THEN Below(workers[i].todo)
                                                                 ELSE {})
  BY DEF WorkerMoves, DiskMoves
<1>3. disk \ disk' \subseteq Approved
  BY <1>2, ApprovedIs
<1>4. Approved' \subseteq Approved
  <2> SUFFICES ASSUME NEW r \in Approved' PROVE r \in Approved
    OBVIOUS
  <2>1. PICK j \in DOMAIN workers' : /\ workers'[j].kind \in Deleting
                                     /\ r \in Below(workers'[j].todo)
    BY ApprovedIsNext
  <2>2. j \in DOMAIN workers /\ workers[j].kind \in Deleting /\ r \in Below(workers[j].todo)
    BY <1>1, <2>1 DEF Below
  <2> QED
    BY <2>2, ApprovedIs
<1>5. Asked' = Asked
  BY <1>1 DEF Asked, Asking, Below, Questions
<1> QED
  BY <1>2, <1>3, <1>4, <1>5, DeletionIs

LEMMA DeletionStep ==
    ASSUME TypeOK, TypeOK', [Next]_vars
    PROVE  [Deletion!Next]_(Deletion!vars)
<1> USE DEF Deletion!Next
<1>1. CASE Confirm
  BY <1>1, ConfirmStep
<1>2. ASSUME NEW i \in DOMAIN workers, WorkerStep(i) PROVE Deletion!Remove
  BY <1>2, WorkerShape, RemoveStep
<1>3. ASSUME NEW q \in Query, NEW from \in SUBSET Path, ApplySearch(q, from), disk' = disk
      PROVE  Deletion!Ask
  <2> DEFINE out == IF engine = "none" THEN Hits[q] \cap from ELSE {}
  <2>1. /\ out \in SUBSET Path /\ {} \in SUBSET Path /\ "search" \in Kinds
        /\ generation + 1 \in Nat /\ Launch("search", generation + 1, q, {}, out)
        /\ "search" \notin Deleting
    BY <1>3 DEF ApplySearch, TypeOK, Kinds, Deleting
  <2> HIDE DEF out
  <2> QED
    BY <1>3, <2>1, AskStep
<1>4. ASSUME NEW kind \in Kinds \ Deleting, NEW todo \in SUBSET Path, LaunchInSlot(kind, todo),
             disk' = disk
      PROVE  Deletion!Ask
  <2>1. 0 \in Nat /\ query \in Query /\ {} \in SUBSET Path /\ Launch(kind, 0, query, todo, {})
    BY <1>4 DEF TypeOK, LaunchInSlot
  <2> QED
    BY <1>4, <2>1, AskStep
<1>5. CASE PageStep /\ ~Confirm
  <2>0. disk' = disk
    BY <1>5, PageShape DEF diskVars
  <2>1. CASE workers' = workers
    BY <2>0, <2>1, AskStep
  <2>2. CASE ShowEvent \/ ClickReindex
    <3>1. /\ "index" \in Kinds \ Deleting
          /\ (IF engine = "none" THEN Path ELSE {}) \in SUBSET Path
      BY DEF Kinds, Deleting
    <3> QED
      BY <1>4, <2>0, <2>2, <3>1 DEF ShowEvent, ClickReindex, StartIndexing
  <2>3. CASE SelectCategory
    BY <1>3, <2>0, <2>3 DEF SelectCategory, TypeOK
  <2>4. CASE TimerFires
    BY <1>3, <2>0, <2>4 DEF TimerFires, TypeOK
  <2>5. CASE MenuForceDelete
    <3>1. "analyze" \in Kinds \ Deleting /\ Top.paths \in SUBSET Path
      BY <2>5, TopShape DEF Kinds, Deleting, MenuForceDelete
    <3>2. workers' = workers \/ LaunchInSlot("analyze", Top.paths)
      BY <2>5 DEF MenuForceDelete
    <3> QED
      BY <1>4, <2>0, <2>1, <3>1, <3>2
  <2>6. CASE IndexReady
    <3>1. CASE engine # "none" /\ ~Sender.ok
      BY <2>1, <2>6, <3>1 DEF IndexReady
    <3>2. CASE ~(engine # "none" /\ ~Sender.ok)
      <4>1. index' \in SUBSET Path /\ query \in Query
        BY DEF TypeOK
      <4> QED
        BY <1>3, <2>0, <2>6, <3>2, <4>1 DEF IndexReady
    <3> QED
      BY <3>1, <3>2
  <2>7. CASE \/ TypeText \/ DeleteKey \/ ContextMenu \/ MenuTrash \/ Decline \/ CloseMessage
             \/ SearchReady \/ AnalyzeReady \/ ExecuteDone
             \/ DeleteDone("trash") \/ DeleteDone("batch")
    <3>1. workers' = workers
      BY <2>7 DEF TypeText, DeleteKey, ContextMenu, MenuTrash, Decline, CloseMessage,
                  SearchReady, AnalyzeReady, ExecuteDone, DeleteDone, deleteRest
    <3> QED
      BY <2>1, <3>1
  <2> QED
    BY <1>5, <2>2, <2>3, <2>4, <2>5, <2>6, <2>7 DEF PageStep, EventLoop
<1>6. CASE StopCancel \/ Stop \/ WatcherHears \/ UNCHANGED vars
  <2>1. workers' = workers /\ disk' = disk
    BY <1>6 DEF StopCancel, Stop, StopWaited, StopTimeout, StopSave, StopClose, WatcherHears,
                stopRest, diskVars, vars
  <2> QED
    BY <2>1, AskStep
<1> QED
  BY <1>1, <1>2, <1>5, <1>6 DEF Next, UserInput, PageStep

LEMMA DeletionInit ==
    ASSUME Init
    PROVE  Deletion!Init
<1>1. disk \subseteq Path /\ DOMAIN dialogs = {} /\ DOMAIN workers = {}
  BY DEF Init
<1>2. Asked = {} /\ Approved = {}
  BY <1>1, AskedIs, ApprovedIs
<1> QED
  BY <1>1, <1>2, DeletionIs

-----------------------------------------------------------------------------
(* The theorems *)

(* The state of search_page.py has the values it is documented to have,      *)
(* through any number of workers, signals and dialogs.                       *)
THEOREM PageTyped == Spec => []TypeOK
<1>1. Inv => TypeOK
  BY DEF Inv
<1> QED
  BY <1>1, Invariance, PTL

(* fast_search.py: at most one thread is in the DLL, none after the handle   *)
(* has been freed, and the lock is held by the one that is.                  *)
THEOREM EngineAlwaysSafe == Spec => []EngineSafe
<1>1. Inv => EngineSafe
  BY EngineSafeFromInv DEF Inv
<1> QED
  BY <1>1, Invariance, PTL

(* search_page.py: the generation number makes late results harmless.  When  *)
(* no search is to come, the table shows the text and the category the page  *)
(* shows, however many searches overlapped.                                  *)
THEOREM SettledAlwaysShowsQuery == Spec => []SettledShowsQuery
<1>1. Inv => SettledShowsQuery
  BY DEF Inv, SearchInv, ShowsQuery, SettledShowsQuery
<1> QED
  BY <1>1, Invariance, PTL

(* search_page.py deletes what the user was asked about and confirmed, once, *)
(* whatever is replaced, searched or deleted meanwhile: the page implements  *)
(* ConfirmedDeletion.                                                        *)
THEOREM PageImplementsDeletion == Spec => OnlyConfirmedGone
<1>1. Init => Deletion!Init
  BY DeletionInit
<1>2. Inv /\ Inv' /\ [Next]_vars => [Deletion!Next]_(Deletion!vars)
  BY DeletionStep DEF Inv
<1> QED
  BY <1>1, <1>2, Invariance, PTL DEF Spec, OnlyConfirmedGone, Deletion!Spec
=============================================================================
