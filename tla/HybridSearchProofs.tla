------------------------- MODULE HybridSearchProofs -------------------------
(***************************************************************************)
(* The embedding job for every scope, number of sections and checkpoint,   *)
(* beside any builds: what it keeps, covers and pays for.  And what a      *)
(* reply cites, keeps and leaves out, whatever the vectors, the rankings,  *)
(* the weights of their fusion and the builds are.                         *)
(***************************************************************************)
EXTENDS HybridSearch, FiniteSetTheorems, SequenceTheorems, TLAPS

\* The sections of a job that are to come, or whose answers wait to be saved.
Open == job.todo \cup job.pending

JobShape ==
  job.pc \in Running =>
    /\ job.model \in Models
    /\ Open \subseteq job.first
    /\ job.first \subseteq job.rows
    /\ job.todo \cap job.pending = {}
    /\ \A s \in Open : vectors[s] # job.model

\* Where a running job is.
JobProgress ==
  /\ job.pc = "request" => job.todo # {}
  /\ job.pc = "last" /\ job.failed = 0 => job.todo = {}
  /\ job.pc = "save" => job.ok > 0
  /\ job.pc \notin Running => job.failed = 0

\* Without a failure every row is covered or still open.
JobCovers ==
  job.pc \in Running /\ job.whole /\ job.failed = 0 =>
    \A s \in job.rows : s \in Open \/ vectors[s] = job.model

\* No request begins after the last failure that a hopeless job is allowed.
JobPatience ==
  /\ HopelessJobStops
  /\ job.pc = "request" /\ job.ok = 0 => job.failed < MaxFail

JobCounts ==
  job.pc \in Running =>
    /\ job.ok = Cardinality(job.pending) + Cardinality(job.first \cap Existing(job.model))
    /\ Cardinality(job.pending) <= SaveEvery
    /\ job.pc = "request" => Cardinality(job.pending) < SaveEvery

JobInv ==
  /\ EmbedTypeOK
  /\ JobShape
  /\ JobProgress
  /\ JobCovers
  /\ JobPatience
  /\ JobCounts
  /\ DoneIsCovered
-----------------------------------------------------------------------------
(* Every set of sections is finite. *)
LEMMA SectionsFinite ==
  ASSUME NEW S \in SUBSET Sections
  PROVE  IsFiniteSet(S) /\ Cardinality(S) \in Nat
<1>1. IsFiniteSet(Sections)
  BY EmbedAssumption
<1>2. IsFiniteSet(S)
  BY <1>1, FS_Subset
<1> QED BY <1>2, FS_CardinalityType

LEMMA CurrentIsOpen ==
  ASSUME job.todo # {}
  PROVE  Current \in job.todo
BY DEF Current

(***************************************************************************)
(* What each step of the job does to it, field by field.                   *)
(***************************************************************************)
LEMMA AnsweredFields ==
  ASSUME EmbedTypeOK, Answered
  PROVE  /\ UNCHANGED <<database, builds, vectors>>
         /\ job'.pc = IF SaveDue(job.pending \cup {Current}) THEN "save" ELSE AfterThis
         /\ job'.todo = job.todo \ {Current}
         /\ job'.pending = job.pending \cup {Current}
         /\ job'.ok = job.ok + 1
         /\ job'.tries = 0
         /\ job'.failed = job.failed /\ job'.first = job.first /\ job'.rows = job.rows
         /\ job'.whole = job.whole /\ job'.model = job.model /\ job'.jobs = job.jobs
BY DEF EmbedTypeOK, Answered

LEMMA GiveUpFields ==
  ASSUME EmbedTypeOK, NEW marks, GiveUp(marks)
  PROVE  /\ UNCHANGED <<database, builds, vectors>>
         /\ job'.pc = IF Hopeless(job.failed + 1) THEN "last" ELSE AfterThis
         /\ job'.todo = job.todo \ {Current}
         /\ job'.pending = job.pending
         /\ job'.ok = job.ok
         /\ job'.tries = 0
         /\ job'.failed = job.failed + 1 /\ job'.first = job.first /\ job'.rows = job.rows
         /\ job'.whole = job.whole /\ job'.model = job.model /\ job'.jobs = job.jobs
BY DEF EmbedTypeOK, GiveUp

LEMMA RetryFields ==
  ASSUME EmbedTypeOK, NEW marks, Retry(marks)
  PROVE  /\ UNCHANGED <<database, builds, vectors>>
         /\ job'.pc = job.pc
         /\ job'.todo = job.todo
         /\ job'.pending = job.pending
         /\ job'.ok = job.ok
         /\ job'.tries = job.tries + 1
         /\ job'.failed = job.failed /\ job'.first = job.first /\ job'.rows = job.rows
         /\ job'.whole = job.whole /\ job'.model = job.model /\ job'.jobs = job.jobs
BY DEF EmbedTypeOK, Retry

LEMMA SaveFields ==
  ASSUME EmbedTypeOK, Save
  PROVE  /\ UNCHANGED <<database, builds>>
         /\ vectors' = Saved(job.model, job.pending)
         /\ job'.pc = IF job.todo = {} THEN "last" ELSE "request"
         /\ job'.todo = job.todo
         /\ job'.pending = {}
         /\ job'.ok = job.ok
         /\ job'.tries = job.tries
         /\ job'.failed = job.failed /\ job'.first = job.first /\ job'.rows = job.rows
         /\ job'.whole = job.whole /\ job'.model = job.model /\ job'.jobs = job.jobs
BY DEF EmbedTypeOK, Save

LEMMA OverFields ==
  ASSUME EmbedTypeOK, NEW how \in {"done", "failed", "dead"}, job' = Over(how)
  PROVE  /\ job'.pc = how
         /\ job'.todo = {} /\ job'.pending = {} /\ job'.first = {}
         /\ job'.ok = 0 /\ job'.failed = 0 /\ job'.tries = 0
         /\ job'.jobs = job.jobs
         /\ how = "done" => /\ job'.rows = job.rows /\ job'.whole = job.whole
                            /\ job'.model = job.model
         /\ how # "done" => job'.rows = {} /\ job'.whole = FALSE /\ job'.model = None
BY DEF EmbedTypeOK, Over, NoJob

(***************************************************************************)
(* save_vectors() gives the sections it saves the job's model, and leaves  *)
(* the others.                                                             *)
(***************************************************************************)
LEMMA SavedVectors ==
  ASSUME EmbedTypeOK, vectors' = Saved(job.model, job.pending), job.model \in Models
  PROVE  /\ vectors' \in [Sections -> Models \cup {None}]
         /\ \A s \in job.pending : vectors'[s] = job.model
         /\ \A s \in Sections \ job.pending : vectors'[s] = vectors[s]
         /\ Existing(job.model)' \subseteq Sections
         /\ {s \in Sections : vectors'[s] = job.model} = Existing(job.model) \cup job.pending
BY DEF EmbedTypeOK, Saved, Existing

-----------------------------------------------------------------------------
(* The rest of the program: what leaves the job and the store alone. *)
LEMMA JobUntouched ==
  ASSUME JobInv, UNCHANGED <<vectors, job>>, EmbedTypeOK'
  PROVE  JobInv'
<1>1. (Open = Open') /\ (\A m : Existing(m)' = Existing(m))
  BY DEF Open, Existing
<1> QED BY <1>1 DEF JobInv, JobShape, JobProgress, JobCovers, JobPatience, HopelessJobStops,
                    JobCounts, DoneIsCovered

LEMMA StartFields ==
  ASSUME EmbedTypeOK, NEW scope, NEW model, NEW limit, StartJob(scope, model, limit)
  PROVE  /\ UNCHANGED <<database, builds, vectors>>
         /\ job.jobs < MaxJobs /\ job'.jobs = job.jobs + 1
         /\ job'.model = model /\ job'.rows = Rows(database, scope)
         /\ job'.first \subseteq job'.rows \ Existing(model)
         /\ job'.todo = job'.first /\ job'.pending = {}
         /\ job'.pc = IF job'.first = {} THEN "done" ELSE "request"
         /\ job'.whole = (job'.first = job'.rows \ Existing(model))
         /\ job'.ok = 0 /\ job'.failed = 0 /\ job'.tries = 0
<1> DEFINE rows == Rows(database, scope)
           left == rows \ Existing(model)
<1>1. PICK first \in SUBSET left :
        job' = [pc |-> IF first = {} THEN "done" ELSE "request", jobs |-> job.jobs + 1,
                model |-> model, rows |-> rows, first |-> first, todo |-> first,
                whole |-> first = left, pending |-> {}, ok |-> 0, failed |-> 0, tries |-> 0]
  BY DEF StartJob
<1> QED BY <1>1 DEF StartJob

(***************************************************************************)
(* A new job fulfils the invariant.                                        *)
(***************************************************************************)
LEMMA StartKeeps ==
  ASSUME JobInv, NEW scope, NEW model \in Models, NEW limit, StartJob(scope, model, limit)
  PROVE  JobInv'
<1> USE DEF JobInv, Running
<1>1. EmbedTypeOK
  OBVIOUS
<1> DEFINE old == Existing(model)
<1>2. /\ UNCHANGED <<database, builds, vectors>>
      /\ job.jobs < MaxJobs /\ job'.jobs = job.jobs + 1
      /\ job'.model = model /\ job'.rows = Rows(database, scope)
      /\ job'.first \subseteq job'.rows \ old
      /\ job'.todo = job'.first /\ job'.pending = {}
      /\ job'.pc = IF job'.first = {} THEN "done" ELSE "request"
      /\ job'.whole = (job'.first = job'.rows \ old)
      /\ job'.ok = 0 /\ job'.failed = 0 /\ job'.tries = 0
  BY <1>1, StartFields
<1>3. old = {s \in Sections : vectors[s] = model}
  BY DEF Existing
<1>4. job'.rows \subseteq Sections
  BY <1>2 DEF Rows, Present
<1>5. EmbedTypeOK'
  <2>1. job' \in [pc : Running \cup {"none", "done", "failed", "dead"}, jobs : 0..MaxJobs,
                  model : Models \cup {None}, rows : SUBSET Sections, first : SUBSET Sections,
                  todo : SUBSET Sections, whole : BOOLEAN, pending : SUBSET Sections,
                  ok : Nat, failed : Nat, tries : 0..(Attempts - 1)]
    <3>1. job.jobs \in 0..MaxJobs
      BY <1>1 DEF EmbedTypeOK
    <3>a. MaxJobs \in Nat /\ Attempts \in Nat \ {0}
      BY EmbedAssumption
    <3>2. PICK first \in SUBSET (Rows(database, scope) \ old) :
        job' = [pc |-> IF first = {} THEN "done" ELSE "request", jobs |-> job.jobs + 1,
                model |-> model, rows |-> Rows(database, scope), first |-> first, todo |-> first,
                whole |-> first = Rows(database, scope) \ old, pending |-> {}, ok |-> 0,
                failed |-> 0, tries |-> 0]
      BY DEF StartJob
    <3>3. job.jobs + 1 \in 0..MaxJobs /\ 0 \in 0..(Attempts - 1)
      BY <3>1, <3>a, <1>2
    <3>4. Rows(database, scope) \subseteq Sections
      BY <1>2, <1>4
    <3> HIDE DEF old
    <3> QED BY <3>2, <3>3, <3>4
  <2> QED BY <2>1, <1>1, <1>2 DEF EmbedTypeOK
<1>6. JobShape'
  BY <1>2, <1>3, <1>4 DEF JobShape, Open
<1>7. JobProgress' /\ JobPatience'
  BY <1>2, EmbedAssumption DEF JobProgress, JobPatience, HopelessJobStops
<1>8. JobCovers' /\ DoneIsCovered'
  BY <1>2, <1>3, <1>4 DEF JobCovers, DoneIsCovered, Open
<1>9. JobCounts'
  <2>1. job'.first \cap old = {}
    BY <1>2
  <2>2. Cardinality({}) = 0
    BY FS_EmptySet
  <2>3. SaveEvery \in Nat \ {0}
    BY EmbedAssumption
  <2>4. Existing(job.model)' = old
    BY <1>2 DEF Existing
  <2>5. Cardinality(job'.first \cap Existing(job.model)') = 0
    BY <2>4, <2>1, <2>2
  <2> QED BY <1>2, <2>2, <2>3, <2>5 DEF JobCounts
<1> QED BY <1>5, <1>6, <1>7, <1>8, <1>9

(***************************************************************************)
(* An answer moves a section from todo to pending.                         *)
(***************************************************************************)
LEMMA AnsweredKeeps ==
  ASSUME JobInv, Answered
  PROVE  JobInv'
<1> USE DEF JobInv, Running
<1>1. EmbedTypeOK /\ job.pc = "request"
  BY DEF Answered
<1>2. /\ UNCHANGED <<database, builds, vectors>>
      /\ job'.pc = IF SaveDue(job.pending \cup {Current}) THEN "save" ELSE AfterThis
      /\ job'.todo = job.todo \ {Current}
      /\ job'.pending = job.pending \cup {Current}
      /\ job'.ok = job.ok + 1
      /\ job'.tries = 0
      /\ job'.failed = job.failed /\ job'.first = job.first /\ job'.rows = job.rows
      /\ job'.whole = job.whole /\ job'.model = job.model /\ job'.jobs = job.jobs
  BY <1>1, AnsweredFields
<1>3. Current \in job.todo /\ job.ok \in Nat /\ job.failed \in Nat
  BY <1>1, CurrentIsOpen DEF JobProgress, EmbedTypeOK
<1>4. Open' = Open /\ Existing(job.model)' = Existing(job.model)
  BY <1>2, <1>3 DEF Open, Existing
<1>5. job'.pc \in Running
  BY <1>2 DEF AfterThis
<1>6. EmbedTypeOK'
  <2>1. 0 \in 0..(Attempts - 1)
    BY EmbedAssumption
  <2>2. Current \in Sections
    BY <1>1, <1>3 DEF EmbedTypeOK
  <2>3. job' = [job EXCEPT !.pc = job'.pc, !.todo = job'.todo, !.pending = job'.pending,
                           !.ok = job'.ok, !.tries = 0]
    BY <1>1, <1>2 DEF Answered, EmbedTypeOK
  <2> QED BY <1>1, <1>2, <1>3, <1>5, <2>1, <2>2, <2>3 DEF EmbedTypeOK
<1>7. JobShape'
  BY <1>1, <1>2, <1>3, <1>4 DEF JobShape, Open
<1>8. JobProgress'
  BY <1>1, <1>2, <1>3 DEF JobProgress, AfterThis
<1>9. JobCovers' /\ DoneIsCovered'
  BY <1>1, <1>2, <1>4, <1>5 DEF JobCovers, DoneIsCovered
<1>10. JobPatience'
  BY <1>1, <1>2, <1>3 DEF JobPatience, HopelessJobStops
<1>11. JobCounts'
  <2>1. Current \notin job.pending /\ job.pending \in SUBSET Sections
    BY <1>1, <1>3 DEF JobShape, EmbedTypeOK
  <2>2. IsFiniteSet(job.pending) /\ Cardinality(job.pending) \in Nat
    BY <2>1, SectionsFinite
  <2>3. Cardinality(job'.pending) = Cardinality(job.pending) + 1
    BY <1>2, <2>1, <2>2, FS_AddElement
  <2>4. Cardinality(job.first \cap Existing(job.model)) \in Nat
    BY SectionsFinite DEF Existing
  <2>5. SaveEvery \in Nat \ {0}
    BY EmbedAssumption
  <2>6. job'.ok = Cardinality(job'.pending) + Cardinality(job'.first \cap Existing(job.model)')
    BY <1>1, <1>2, <1>3, <1>4, <2>2, <2>3, <2>4 DEF JobCounts
  <2>7. Cardinality(job'.pending) <= SaveEvery
    BY <1>1, <2>2, <2>3, <2>5 DEF JobCounts
  <2>8. job'.pc = "request" => Cardinality(job'.pending) < SaveEvery
    BY <1>2, <2>2, <2>3, <2>5, <2>7 DEF SaveDue
  <2> QED BY <2>6, <2>7, <2>8 DEF JobCounts
<1> QED BY <1>6, <1>7, <1>8, <1>9, <1>10, <1>11

(***************************************************************************)
(* A section that is given up leaves todo, and the job has a failure.      *)
(***************************************************************************)
LEMMA GiveUpKeeps ==
  ASSUME JobInv, NEW marks, GiveUp(marks)
  PROVE  JobInv'
<1> USE DEF JobInv, Running
<1>1. EmbedTypeOK /\ job.pc = "request"
  BY DEF GiveUp
<1>2. /\ UNCHANGED <<database, builds, vectors>>
      /\ job'.pc = IF Hopeless(job.failed + 1) THEN "last" ELSE AfterThis
      /\ job'.todo = job.todo \ {Current}
      /\ job'.pending = job.pending
      /\ job'.ok = job.ok
      /\ job'.tries = 0
      /\ job'.failed = job.failed + 1 /\ job'.first = job.first /\ job'.rows = job.rows
      /\ job'.whole = job.whole /\ job'.model = job.model /\ job'.jobs = job.jobs
  BY <1>1, GiveUpFields
<1>3. Current \in job.todo /\ job.ok \in Nat /\ job.failed \in Nat
  BY <1>1, CurrentIsOpen DEF JobProgress, EmbedTypeOK
<1>4. Open' \subseteq Open /\ Existing(job.model)' = Existing(job.model)
  BY <1>2, <1>3 DEF Open, Existing
<1>5. job'.pc \in {"request", "last"}
  BY <1>2 DEF AfterThis
<1>6. EmbedTypeOK'
  <2>1. 0 \in 0..(Attempts - 1)
    BY EmbedAssumption
  <2>3. job' = [job EXCEPT !.pc = job'.pc, !.todo = job'.todo, !.failed = job'.failed,
                           !.tries = 0]
    BY <1>1, <1>2 DEF GiveUp, EmbedTypeOK
  <2> QED BY <1>1, <1>2, <1>3, <1>5, <2>1, <2>3 DEF EmbedTypeOK
<1>7. JobShape'
  BY <1>1, <1>2, <1>3, <1>4 DEF JobShape, Open
<1>8. JobProgress' /\ JobCovers' /\ DoneIsCovered'
  BY <1>1, <1>2, <1>3, <1>5 DEF JobProgress, JobCovers, DoneIsCovered, AfterThis
<1>9. JobPatience'
  <2>1. MaxFail \in Nat \ {0}
    BY EmbedAssumption
  <2> QED BY <1>1, <1>2, <1>3, <2>1 DEF JobPatience, HopelessJobStops, Hopeless
<1>10. JobCounts'
  BY <1>1, <1>2, <1>4 DEF JobCounts
<1> QED BY <1>6, <1>7, <1>8, <1>9, <1>10

LEMMA RetryKeeps ==
  ASSUME JobInv, NEW marks, Retry(marks)
  PROVE  JobInv'
<1> USE DEF JobInv, Running
<1>1. EmbedTypeOK /\ job.pc = "request" /\ MoreAttempts
  BY DEF Retry
<1>2. /\ UNCHANGED <<database, builds, vectors>>
      /\ job'.pc = job.pc
      /\ job'.todo = job.todo
      /\ job'.pending = job.pending
      /\ job'.ok = job.ok
      /\ job'.tries = job.tries + 1
      /\ job'.failed = job.failed /\ job'.first = job.first /\ job'.rows = job.rows
      /\ job'.whole = job.whole /\ job'.model = job.model /\ job'.jobs = job.jobs
  BY <1>1, RetryFields
<1>3. Open' = Open /\ Existing(job.model)' = Existing(job.model)
  BY <1>2 DEF Open, Existing
<1>4. EmbedTypeOK'
  <2>1. job.tries + 1 \in 0..(Attempts - 1)
    <3>1. Attempts \in Nat \ {0}
      BY EmbedAssumption
    <3> QED BY <1>1, <3>1 DEF MoreAttempts, EmbedTypeOK
  <2>2. job' = [job EXCEPT !.tries = job'.tries]
    BY <1>1, <1>2 DEF Retry, EmbedTypeOK
  <2> QED BY <1>1, <1>2, <2>1, <2>2 DEF EmbedTypeOK
<1>5. JobShape' /\ JobCovers' /\ JobCounts'
  BY <1>2, <1>3 DEF JobShape, JobCovers, JobCounts
<1>6. JobProgress' /\ JobPatience' /\ DoneIsCovered'
  BY <1>2 DEF JobProgress, JobPatience, HopelessJobStops, DoneIsCovered
<1> QED BY <1>4, <1>5, <1>6

(***************************************************************************)
(* A checkpoint moves the pending sections to the store.                   *)
(***************************************************************************)
LEMMA SaveKeeps ==
  ASSUME JobInv, Save
  PROVE  JobInv'
<1> USE DEF JobInv, Running
<1>1. EmbedTypeOK /\ job.pc = "save" /\ job.model \in Models
  BY DEF Save, JobShape
<1>2. /\ UNCHANGED <<database, builds>>
      /\ vectors' = Saved(job.model, job.pending)
      /\ job'.pc = IF job.todo = {} THEN "last" ELSE "request"
      /\ job'.todo = job.todo
      /\ job'.pending = {}
      /\ job'.ok = job.ok
      /\ job'.tries = job.tries
      /\ job'.failed = job.failed /\ job'.first = job.first /\ job'.rows = job.rows
      /\ job'.whole = job.whole /\ job'.model = job.model /\ job'.jobs = job.jobs
  BY <1>1, SaveFields
<1>3. /\ vectors' \in [Sections -> Models \cup {None}]
      /\ \A s \in job.pending : vectors'[s] = job.model
      /\ \A s \in Sections \ job.pending : vectors'[s] = vectors[s]
      /\ {s \in Sections : vectors'[s] = job.model} = Existing(job.model) \cup job.pending
  BY <1>1, <1>2, SavedVectors
<1>4. /\ job.todo \subseteq Sections /\ job.rows \subseteq Sections
      /\ job.pending \subseteq Sections /\ job.first \subseteq Sections
      /\ job.ok \in Nat /\ job.failed \in Nat
  BY <1>1 DEF EmbedTypeOK
<1>5. EmbedTypeOK'
  <2>1. job' = [job EXCEPT !.pc = job'.pc, !.pending = {}]
    BY <1>1, <1>2 DEF Save, EmbedTypeOK
  <2>2. job'.pc \in Running
    BY <1>2
  <2> QED BY <1>1, <1>2, <1>3, <2>1, <2>2 DEF EmbedTypeOK
<1>6. JobShape'
  BY <1>1, <1>2, <1>3, <1>4 DEF JobShape, Open
<1>7. JobProgress'
  BY <1>1, <1>2 DEF JobProgress
<1>8. JobCovers' /\ DoneIsCovered'
  BY <1>1, <1>2, <1>3, <1>4 DEF JobCovers, DoneIsCovered, Open
<1>9. JobPatience'
  BY <1>1, <1>2, <1>4 DEF JobPatience, JobProgress, HopelessJobStops
<1>10. JobCounts'
  <2> DEFINE kept == job.first \cap Existing(job.model)
  <2>1. job'.first \cap Existing(job.model)' = kept \cup job.pending
    BY <1>1, <1>2, <1>3 DEF Existing, JobShape, Open
  <2>2. kept \cap job.pending = {}
    BY <1>1 DEF JobShape, Open, Existing
  <2>3. IsFiniteSet(kept) /\ IsFiniteSet(job.pending)
    BY <1>4, SectionsFinite
  <2>4. Cardinality(kept) \in Nat /\ Cardinality(job.pending) \in Nat /\ Cardinality({}) = 0
    BY <2>3, FS_CardinalityType, FS_EmptySet
  <2>5. Cardinality(kept \cup job.pending) = Cardinality(kept) + Cardinality(job.pending)
    <3>1. Cardinality(kept \cup job.pending)
            = Cardinality(kept) + Cardinality(job.pending) - Cardinality(kept \cap job.pending)
      BY <2>3, FS_Union
    <3> QED BY <3>1, <2>2, <2>4
  <2>6. job.ok = Cardinality(job.pending) + Cardinality(kept)
    BY <1>1 DEF JobCounts
  <2>7. SaveEvery \in Nat \ {0}
    BY EmbedAssumption
  <2>8. Cardinality(job'.first \cap Existing(job.model)')
          = Cardinality(kept) + Cardinality(job.pending)
    BY <2>1, <2>5
  <2>9. Cardinality(job'.pending) = 0
    BY <1>2, <2>4
  <2>10. job'.ok = Cardinality(job'.pending) + Cardinality(job'.first \cap Existing(job.model)')
    <3> HIDE DEF kept
    <3> QED BY <1>2, <2>4, <2>6, <2>8, <2>9
  <2> HIDE DEF kept
  <2> QED BY <2>7, <2>9, <2>10 DEF JobCounts
<1> QED BY <1>5, <1>6, <1>7, <1>8, <1>9, <1>10

(***************************************************************************)
(* A job that ends well has saved all of its rows.                         *)
(***************************************************************************)
LEMMA OverShape ==
  ASSUME JobInv, EmbedTypeOK', NEW how \in {"done", "failed", "dead"}, job' = Over(how)
  PROVE  JobShape' /\ JobProgress' /\ JobCovers' /\ JobPatience' /\ JobCounts'
<1> USE DEF JobInv, Running
<1>1. job'.pc = how /\ job'.ok = 0 /\ job'.failed = 0
  BY OverFields
<1>2. MaxFail \in Nat \ {0}
  BY EmbedAssumption
<1>3. JobShape' /\ JobCovers' /\ JobCounts'
  BY <1>1 DEF JobShape, JobCovers, JobCounts
<1>4. JobProgress' /\ JobPatience'
  BY <1>1, <1>2 DEF JobProgress, JobPatience, HopelessJobStops
<1> QED BY <1>3, <1>4

LEMMA OverTyped ==
  ASSUME EmbedTypeOK, NEW how \in {"done", "failed", "dead"}, job' = Over(how)
  PROVE  job' \in [pc : Running \cup {"none", "done", "failed", "dead"}, jobs : 0..MaxJobs,
                   model : Models \cup {None}, rows : SUBSET Sections, first : SUBSET Sections,
                   todo : SUBSET Sections, whole : BOOLEAN, pending : SUBSET Sections,
                   ok : Nat, failed : Nat, tries : 0..(Attempts - 1)]
<1>1. 0 \in 0..(Attempts - 1)
  BY EmbedAssumption
<1>2. job'.whole \in BOOLEAN /\ job'.rows \subseteq Sections /\ job'.model \in Models \cup {None}
  BY DEF Over, NoJob, EmbedTypeOK
<1>3. job' = [pc |-> how, jobs |-> job.jobs, model |-> job'.model, rows |-> job'.rows,
              first |-> {}, todo |-> {}, whole |-> job'.whole, pending |-> {}, ok |-> 0,
              failed |-> 0, tries |-> 0]
  BY DEF Over, NoJob
<1> QED BY <1>1, <1>2, <1>3 DEF EmbedTypeOK

LEMMA FinishKeeps ==
  ASSUME JobInv, Finish
  PROVE  JobInv'
<1> USE DEF JobInv, Running
<1> DEFINE how == IF job.failed = 0 THEN "done" ELSE "failed"
<1>1. /\ EmbedTypeOK /\ job.pc = "last" /\ job.model \in Models
      /\ how \in {"done", "failed", "dead"} /\ job' = Over(how)
      /\ UNCHANGED <<database, builds>> /\ vectors' = Saved(job.model, job.pending)
  BY DEF Finish, JobShape
<1>2. /\ vectors' \in [Sections -> Models \cup {None}]
      /\ \A s \in job.pending : vectors'[s] = job.model
      /\ \A s \in Sections \ job.pending : vectors'[s] = vectors[s]
  BY <1>1, SavedVectors
<1>3. EmbedTypeOK'
  <2>1. job' \in [pc : Running \cup {"none", "done", "failed", "dead"}, jobs : 0..MaxJobs,
                  model : Models \cup {None}, rows : SUBSET Sections, first : SUBSET Sections,
                  todo : SUBSET Sections, whole : BOOLEAN, pending : SUBSET Sections,
                  ok : Nat, failed : Nat, tries : 0..(Attempts - 1)]
    BY <1>1, OverTyped
  <2> QED BY <1>1, <1>2, <2>1 DEF EmbedTypeOK
<1>4. JobShape' /\ JobProgress' /\ JobCovers' /\ JobPatience' /\ JobCounts'
  BY <1>1, <1>3, OverShape
<1>5. DoneIsCovered'
  <2>1. SUFFICES ASSUME job'.pc = "done", job'.whole, NEW s \in job'.rows
                 PROVE  vectors'[s] = job'.model
    BY DEF DoneIsCovered
  <2>2. /\ job'.pc = how
        /\ how = "done" => /\ job'.rows = job.rows /\ job'.whole = job.whole
                           /\ job'.model = job.model
    BY <1>1, OverFields
  <2>3. job.failed = 0 /\ job.whole /\ job'.model = job.model /\ s \in job.rows
    BY <2>1, <2>2
  <2>4. s \in job.pending \/ vectors[s] = job.model
    BY <1>1, <2>3 DEF JobCovers, JobProgress, Open
  <2>5. s \in Sections
    BY <1>1, <2>3 DEF EmbedTypeOK
  <2> QED BY <1>2, <2>3, <2>4, <2>5
<1> QED BY <1>3, <1>4, <1>5

LEMMA KillKeeps ==
  ASSUME JobInv, KillJob
  PROVE  JobInv'
<1> USE DEF JobInv
<1>1. EmbedTypeOK /\ job' = Over("dead") /\ UNCHANGED <<database, builds, vectors>>
  BY DEF KillJob
<1>2. job' \in [pc : Running \cup {"none", "done", "failed", "dead"}, jobs : 0..MaxJobs,
                model : Models \cup {None}, rows : SUBSET Sections, first : SUBSET Sections,
                todo : SUBSET Sections, whole : BOOLEAN, pending : SUBSET Sections,
                ok : Nat, failed : Nat, tries : 0..(Attempts - 1)]
  BY <1>1, OverTyped
<1>3. EmbedTypeOK'
  BY <1>1, <1>2 DEF EmbedTypeOK
<1>4. JobShape' /\ JobProgress' /\ JobCovers' /\ JobPatience' /\ JobCounts'
  BY <1>1, <1>3, OverShape
<1>5. job'.pc = "dead"
  BY <1>1, OverFields
<1> QED BY <1>3, <1>4, <1>5 DEF DoneIsCovered

LEMMA RebuildTyped ==
  ASSUME EmbedTypeOK, NEW new \in Databases, Rebuild(new)
  PROVE  EmbedTypeOK'
<1>1. MaxBuilds \in Nat
  BY EmbedAssumption
<1>2. builds' \in 0..MaxBuilds
  BY <1>1 DEF Rebuild, EmbedTypeOK
<1> QED BY <1>2 DEF Rebuild, EmbedTypeOK
-----------------------------------------------------------------------------
LEMMA InitJob ==
  ASSUME Init
  PROVE  JobInv
<1> USE DEF Init, EmbedInit, NoJob
<1>1. /\ database \in Databases /\ builds = 0 /\ vectors = [s \in Sections |-> None]
      /\ job.pc = "none" /\ job.ok = 0 /\ job.failed = 0 /\ job.pc \notin Running
  BY DEF Running
<1>2. /\ MaxJobs \in Nat /\ MaxBuilds \in Nat /\ Attempts \in Nat \ {0}
      /\ MaxFail \in Nat \ {0}
  BY EmbedAssumption
<1>3. 0 \in 0..MaxJobs /\ 0 \in 0..MaxBuilds /\ 0 \in 0..(Attempts - 1)
  BY <1>2
<1>4. EmbedTypeOK
  BY <1>3 DEF EmbedTypeOK, Running
<1>5. JobShape /\ JobProgress /\ JobCovers /\ JobCounts /\ DoneIsCovered
  BY <1>1 DEF JobShape, JobProgress, JobCovers, JobCounts, DoneIsCovered
<1>6. JobPatience
  BY <1>1, <1>2 DEF JobPatience, HopelessJobStops
<1> QED BY <1>4, <1>5, <1>6 DEF JobInv

LEMMA NextJob ==
  ASSUME JobInv, [Next]_vars
  PROVE  JobInv'
<1>1. CASE Jobs
  <2>1. CASE Answered
    BY <2>1, AnsweredKeeps
  <2>2. CASE \E marks \in Errors : Retry(marks) \/ GiveUp(marks)
    BY <2>2, RetryKeeps, GiveUpKeeps
  <2>3. CASE Save
    BY <2>3, SaveKeeps
  <2>4. CASE Finish
    BY <2>4, FinishKeeps
  <2>5. CASE KillJob
    BY <2>5, KillKeeps
  <2>6. CASE \E scope \in Scopes, model \in Models, limit \in Limits :
               StartJob(scope, model, limit)
    BY <2>6, StartKeeps
  <2> QED BY <1>1, <2>1, <2>2, <2>3, <2>4, <2>5, <2>6 DEF Jobs, EmbedNext, JobStep
<1>2. CASE \E new \in Databases : Build(new)
  <2>1. PICK new \in Databases : Rebuild(new)
    BY <1>2 DEF Build
  <2>2. EmbedTypeOK'
    BY <2>1, RebuildTyped DEF JobInv
  <2> QED BY <2>1, <2>2, JobUntouched DEF Rebuild
<1>3. CASE UNCHANGED embedVars
  <2>1. EmbedTypeOK'
    BY <1>3 DEF embedVars, EmbedTypeOK, JobInv
  <2> QED BY <1>3, <2>1, JobUntouched DEF embedVars
<1>4. Jobs \/ (\E new \in Databases : Build(new)) \/ UNCHANGED embedVars
  BY DEF Next, AskStep, StartServer, Search, Degrade, Fuse, Fetch, Reply, vars
<1> QED BY <1>1, <1>2, <1>3, <1>4

THEOREM JobInvariant == Spec => []JobInv
<1>1. Init => JobInv
  BY InitJob
<1>2. JobInv /\ [Next]_vars => JobInv'
  BY NextJob
<1> QED BY <1>1, <1>2, PTL DEF Spec

(***************************************************************************)
(* A whole job that ended well has covered its scope, whatever was killed  *)
(* before it.                                                              *)
(***************************************************************************)
THEOREM JobsCover == Spec => []DoneIsCovered
<1>1. JobInv => DoneIsCovered
  BY DEF JobInv
<1> QED BY <1>1, JobInvariant, PTL

(***************************************************************************)
(* All answers but those since the last checkpoint are in the store.       *)
(***************************************************************************)
THEOREM JobsKeepAnswers == Spec => []AnswersKept
<1>1. JobInv => AnswersKept
  BY DEF JobInv, JobCounts, AnswersKept
<1> QED BY <1>1, JobInvariant, PTL

(***************************************************************************)
(* A job without a success has at most MaxFail failures.                   *)
(***************************************************************************)
THEOREM HopelessJobsStop == Spec => []HopelessJobStops
<1>1. JobInv => HopelessJobStops
  BY DEF JobInv, JobPatience
<1> QED BY <1>1, JobInvariant, PTL

(***************************************************************************)
(* What is asked for has no vector of the job's model.                     *)
(***************************************************************************)
THEOREM NothingIsPaidTwice == Spec => NothingPaidTwice
<1> DEFINE Unpaid == \A s \in Sections : s \in job'.pending \ job.pending => vectors[s] # job.model
<1>1. ASSUME JobInv, [Next]_vars
      PROVE  [Unpaid]_embedVars
  <2>1. CASE Answered
    <3>1. EmbedTypeOK /\ job.pc = "request"
      BY <1>1, <2>1 DEF JobInv, Answered
    <3>2. Current \in Open
      BY <1>1, <3>1, CurrentIsOpen DEF JobInv, JobProgress, Open
    <3>3. vectors[Current] # job.model
      BY <1>1, <3>1, <3>2 DEF JobInv, JobShape, Running
    <3>4. job'.pending = job.pending \cup {Current}
      BY <2>1, <3>1, AnsweredFields
    <3> QED BY <3>3, <3>4
  <2>2. CASE job'.pending \subseteq job.pending
    BY <2>2
  <2>3. Answered \/ job'.pending \subseteq job.pending
    <3>1. EmbedTypeOK
      BY <1>1 DEF JobInv
    <3>2. CASE Jobs
      <4>1. ASSUME NEW marks \in Errors, Retry(marks) \/ GiveUp(marks)
            PROVE  job'.pending = job.pending
        BY <3>1, <4>1, RetryFields, GiveUpFields
      <4>2. ASSUME Save
            PROVE  job'.pending = {}
        BY <3>1, <4>2, SaveFields
      <4>3. ASSUME Finish \/ KillJob
            PROVE  job'.pending = {}
        BY <3>1, <4>3, OverFields DEF Finish, KillJob
      <4>4. ASSUME NEW scope \in Scopes, NEW model \in Models, NEW limit \in Limits,
                   StartJob(scope, model, limit)
            PROVE  job'.pending = {}
        BY <3>1, <4>4, StartFields
      <4> QED BY <3>2, <4>1, <4>2, <4>3, <4>4 DEF Jobs, EmbedNext, JobStep
    <3>3. CASE ~ Jobs
      BY <1>1, <3>3 DEF Next, AskStep, StartServer, Search, Degrade, Fuse, Fetch, Reply, vars,
                        embedVars, Build, Rebuild
    <3> QED BY <3>2, <3>3
  <2> QED BY <2>1, <2>2, <2>3
<1>2. JobInv /\ [Next]_vars => [Unpaid]_embedVars
  BY <1>1
<1> QED BY <1>2, JobInvariant, PTL DEF Spec, NothingPaidTwice
-----------------------------------------------------------------------------
(***************************************************************************)
(* The request.  A hit is grounded if a database of the request's time     *)
(* serves its section with its text.                                       *)
(***************************************************************************)
Grounded(hit, seen) ==
  \E db \in seen : Served(db, hit.section) /\ db.text[hit.section] = hit.text

AskShape ==
  /\ DOMAIN ask = {"pc", "began", "question", "bm25", "texts", "left", "out", "seen"}
  /\ server.pc = "off" => ask.pc = "none"
  /\ ask.pc \in {"none", "embed"} => ask.out = <<>>
  /\ ask.out \in Seq(ToSet(ask.out))
  /\ ask.bm25 \in Seq(Sections)

\* What the full-text index found, it found in one database of that time.
AskSources ==
  server.index = "fts" /\ ask.pc \in {"embed", "fetch"} =>
    /\ database \in ask.seen
    /\ \E db \in ask.seen :
         ask.texts = db.text /\ \A s \in ToSet(ask.bm25) : Served(db, s)

AskInv ==
  /\ AskShape
  /\ AskSources
  /\ RepliesCurrent

(* What is a function on 1..n is a sequence of its own elements. *)
LEMMA OwnSequence ==
  ASSUME NEW S, NEW r \in Seq(S)
  PROVE  r \in Seq(ToSet(r)) /\ DOMAIN r = 1..Len(r) /\ Len(r) \in Nat
<1>1. Len(r) \in Nat /\ DOMAIN r = 1..Len(r) /\ r \in [1..Len(r) -> S]
  BY LenProperties
<1>2. r \in [1..Len(r) -> ToSet(r)]
  BY <1>1 DEF ToSet
<1> QED BY <1>1, <1>2, SeqDef

LEMMA RankingsAreSequences ==
  ASSUME NEW C \in SUBSET Sections, NEW n, NEW r \in Rankings(C, n)
  PROVE  r \in Seq(C) /\ r \in Seq(Sections) /\ ToSet(r) \subseteq C
<1>1. PICK i \in 0..n : r \in [1..i -> C]
  BY DEF Rankings
<1>2. i \in Nat
  BY <1>1
<1>3. r \in Seq(C)
  BY <1>1, <1>2, SeqDef
<1>4. r \in Seq(Sections)
  BY <1>3, SeqMonotonic
<1>5. ToSet(r) \subseteq C
  BY <1>1 DEF ToSet
<1> QED BY <1>3, <1>4, <1>5

(* The cut of a ranking has only elements of it. *)
LEMMA CutKeeps ==
  ASSUME NEW S, NEW r \in Seq(S)
  PROVE  Cut(r, TopK) \in Seq(S) /\ ToSet(Cut(r, TopK)) \subseteq ToSet(r)
<1> DEFINE n == IF Len(r) <= TopK THEN Len(r) ELSE TopK
<1>1. TopK \in Nat
  BY RetrievalAssumption
<1>2. Len(r) \in Nat /\ DOMAIN r = 1..Len(r) /\ \A i \in 1..Len(r) : r[i] \in ToSet(r)
  BY OwnSequence DEF ToSet
<1>3. n \in Int /\ n \in Nat /\ n <= Len(r)
  BY <1>1, <1>2
<1>4. \A i \in 1..n : r[i] \in ToSet(r) /\ r[i] \in S
  <2>1. \A i \in 1..n : i \in 1..Len(r)
    BY <1>2, <1>3
  <2> QED BY <2>1, <1>2, ElementOfSeq
<1> HIDE DEF n
<1>5. SubSeq(r, 1, n) \in Seq(S) /\ SubSeq(r, 1, n) \in Seq(ToSet(r))
  BY <1>3, <1>4, SubSeqProperties
<1>6. ToSet(SubSeq(r, 1, n)) \subseteq ToSet(r)
  <2> DEFINE c == SubSeq(r, 1, n)
  <2>1. c \in [1..Len(c) -> ToSet(r)] /\ DOMAIN c = 1..Len(c)
    BY <1>5, LenProperties
  <2> HIDE DEF c
  <2>2. \A i \in DOMAIN c : c[i] \in ToSet(r)
    BY <2>1
  <2>3. {c[i] : i \in DOMAIN c} \subseteq ToSet(r)
    BY <2>2
  <2> QED BY <2>3 DEF ToSet, c
<1>7. Cut(r, TopK) = SubSeq(r, 1, n)
  BY DEF Cut, n
<1> QED BY <1>5, <1>6, <1>7

(* Hits that are looked up in one database that serves them are grounded. *)
LEMMA PlainlyGrounded ==
  ASSUME NEW r \in Seq(Sections), NEW texts
  PROVE  /\ Plainly(r, texts) \in Seq(ToSet(Plainly(r, texts)))
         /\ \A seen : \A db \in seen :
              texts = db.text /\ (\A s \in ToSet(r) : Served(db, s)) =>
                \A i \in DOMAIN Plainly(r, texts) : Grounded(Plainly(r, texts)[i], seen)
<1> DEFINE p == Plainly(r, texts)
<1>1. DOMAIN r = 1..Len(r) /\ Len(r) \in Nat
  BY OwnSequence
<1>2. DOMAIN p = 1..Len(r) /\ \A i \in 1..Len(r) : p[i] = [section |-> r[i], text |-> texts[r[i]]]
  BY <1>1 DEF Plainly
<1>3. p \in [1..Len(r) -> ToSet(p)]
  BY <1>1, <1>2 DEF Plainly, ToSet
<1>4. p \in Seq(ToSet(p))
  BY <1>1, <1>3, SeqDef
<1>5. ASSUME NEW seen, NEW db \in seen, texts = db.text, \A s \in ToSet(r) : Served(db, s),
             NEW i \in DOMAIN p
      PROVE  Grounded(p[i], seen)
  <2>1. r[i] \in ToSet(r) /\ p[i] = [section |-> r[i], text |-> texts[r[i]]]
    BY <1>1, <1>2, <1>5 DEF ToSet
  <2> QED BY <2>1, <1>5 DEF Grounded
<1> HIDE DEF p
<1> QED BY <1>4, <1>5 DEF p

LEMMA InitAsk ==
  ASSUME Init
  PROVE  AskInv
<1>1. /\ ask = NoAsk /\ server.pc = "off"
  BY DEF Init
<1>2. DOMAIN ask = {"pc", "began", "question", "bm25", "texts", "left", "out", "seen"}
  BY <1>1 DEF NoAsk
<1>3. ask.pc = "none" /\ ask.out = <<>> /\ ask.bm25 = <<>>
  BY <1>1 DEF NoAsk
<1>4. <<>> \in Seq(Sections) /\ <<>> \in Seq(ToSet(<<>>)) /\ DOMAIN ask.out = {}
  BY <1>3, EmptySeq
<1> QED BY <1>2, <1>3, <1>4 DEF AskInv, AskShape, AskSources, RepliesCurrent

\* Only the databases of the request grow, and only one that is read.
LEMMA AskUntouched ==
  ASSUME AskInv, UNCHANGED <<server, ask, database>>
  PROVE  AskInv'
BY DEF AskInv, AskShape, AskSources, RepliesCurrent

LEMMA BuildKeepsAsk ==
  ASSUME AskInv, NEW new \in Databases, Build(new)
  PROVE  AskInv'
<1> USE DEF AskInv
<1>1. UNCHANGED server /\ database' = new
  BY DEF Build, Rebuild
<1>2. CASE ask.pc \in {"embed", "fetch"}
  <2>1. ask' = [ask EXCEPT !.seen = @ \cup {new}]
    BY <1>2 DEF Build
  <2>2. /\ DOMAIN ask' = DOMAIN ask /\ ask'.pc = ask.pc /\ ask'.out = ask.out
        /\ ask'.bm25 = ask.bm25 /\ ask'.texts = ask.texts /\ ask'.seen = ask.seen \cup {new}
    BY <2>1 DEF AskShape
  <2>3. AskShape'
    BY <1>1, <2>2 DEF AskShape
  <2>4. AskSources'
    BY <1>1, <2>2 DEF AskSources
  <2>5. RepliesCurrent'
    BY <1>1, <2>2 DEF RepliesCurrent
  <2> QED BY <2>3, <2>4, <2>5
<1>3. CASE ask.pc \notin {"embed", "fetch"}
  <2>1. ask' = ask
    BY <1>3 DEF Build
  <2> QED BY <1>1, <1>3, <2>1 DEF AskShape, AskSources, RepliesCurrent
<1> QED BY <1>2, <1>3

LEMMA StartServerKeepsAsk ==
  ASSUME AskInv, NEW setup, StartServer(setup)
  PROVE  AskInv'
<1> USE DEF AskInv
<1>1. UNCHANGED <<embedVars, ask>> /\ server.pc = "off"
  BY DEF StartServer
<1>2. ask.pc = "none" /\ ask.out = <<>>
  BY <1>1 DEF AskShape
<1>3. DOMAIN ask.out = {}
  BY <1>2
<1> QED BY <1>1, <1>2, <1>3 DEF AskShape, AskSources, RepliesCurrent

LEMMA SearchKeepsAsk ==
  ASSUME AskInv, NEW question, NEW bm25, Search(question, bm25)
  PROVE  AskInv'
<1> USE DEF AskInv
<1> DEFINE ends == server.index = None \/ server.memory = {}
           p == Plainly(bm25, Source.text)
<1>1. /\ server.pc = "up" /\ UNCHANGED <<database, server>>
      /\ bm25 \in Rankings(Candidates(question), IF server.memory = {} THEN TopK ELSE ArmK)
      /\ ask' = [pc |-> IF ends THEN "replied" ELSE "embed", began |-> builds,
                question |-> question, bm25 |-> bm25, texts |-> Source.text, left |-> <<>>,
                out |-> IF ends THEN p ELSE <<>>,
                seen |-> {database}]
  BY DEF Search, embedVars
<1>2. bm25 \in Seq(Sections) /\ ToSet(bm25) \subseteq Candidates(question)
  <2>1. Candidates(question) \subseteq Sections
    BY DEF Candidates
  <2> QED BY <1>1, <2>1, RankingsAreSequences
<1>3. /\ ask'.pc = (IF ends THEN "replied" ELSE "embed") /\ ask'.bm25 = bm25
      /\ ask'.texts = Source.text /\ ask'.out = (IF ends THEN p ELSE <<>>)
      /\ ask'.seen = {database}
      /\ DOMAIN ask' = {"pc", "began", "question", "bm25", "texts", "left", "out", "seen"}
  BY <1>1
<1>4. p \in Seq(ToSet(p))
  BY <1>2, PlainlyGrounded
<1>5. <<>> \in Seq(ToSet(<<>>)) /\ DOMAIN <<>> = {}
  BY EmptySeq
<1>6. AskShape'
  <2> HIDE DEF p
  <2> QED BY <1>1, <1>2, <1>3, <1>4, <1>5 DEF AskShape
<1>7. ASSUME server.index = "fts"
      PROVE  Source = database /\ \A s \in ToSet(bm25) : Served(database, s)
  BY <1>2, <1>7 DEF Source, Candidates
<1>8. AskSources'
  BY <1>1, <1>3, <1>7 DEF AskSources
<1>9. RepliesCurrent'
  <2>1. SUFFICES ASSUME server.index = "fts", NEW i \in DOMAIN ask'.out
                 PROVE  Grounded(ask'.out[i], {database})
    BY <1>1, <1>3 DEF RepliesCurrent, Grounded
  <2>2. ends /\ ask'.out = p
    BY <2>1, <1>3, <1>5
  <2>3. \A k \in DOMAIN p : Grounded(p[k], {database})
    BY <1>2, <1>7, <2>1, PlainlyGrounded
  <2> QED BY <2>1, <2>2, <2>3
<1> QED BY <1>6, <1>8, <1>9

LEMMA DegradeKeepsAsk ==
  ASSUME AskInv, Degrade
  PROVE  AskInv'
<1> USE DEF AskInv
<1> DEFINE cut == Cut(ask.bm25, TopK)
           p == Plainly(cut, ask.texts)
<1>1. /\ ask.pc = "embed" /\ UNCHANGED <<database, server>>
      /\ ask' = [ask EXCEPT !.pc = "replied", !.texts = None, !.out = p]
  BY DEF Degrade, embedVars
<1>2. /\ ask'.pc = "replied" /\ ask'.out = p /\ ask'.bm25 = ask.bm25 /\ ask'.seen = ask.seen
      /\ DOMAIN ask' = DOMAIN ask
  BY <1>1 DEF AskShape
<1>3. cut \in Seq(Sections) /\ ToSet(cut) \subseteq ToSet(ask.bm25)
  BY CutKeeps DEF AskShape
<1>4. p \in Seq(ToSet(p))
  BY <1>3, PlainlyGrounded
<1>5. AskShape'
  <2> HIDE DEF p
  <2> QED BY <1>1, <1>2, <1>4 DEF AskShape
<1>6. AskSources'
  BY <1>2 DEF AskSources
<1>7. RepliesCurrent'
  <2>1. SUFFICES ASSUME server.index = "fts"
                 PROVE  \A i \in DOMAIN p : Grounded(p[i], ask.seen)
    BY <1>1, <1>2 DEF RepliesCurrent, Grounded
  <2>2. PICK db \in ask.seen :
          ask.texts = db.text /\ \A s \in ToSet(ask.bm25) : Served(db, s)
    BY <1>1, <2>1 DEF AskSources
  <2>3. \A s \in ToSet(cut) : Served(db, s)
    BY <1>3, <2>2
  <2> QED BY <1>3, <2>2, <2>3, PlainlyGrounded
<1> QED BY <1>5, <1>6, <1>7

LEMMA FuseKeepsAsk ==
  ASSUME AskInv, NEW vec, Fuse(vec)
  PROVE  AskInv'
<1> USE DEF AskInv
<1>1. /\ ask.pc = "embed" /\ UNCHANGED <<database, server>>
      /\ ask' = [ask EXCEPT !.pc = "fetch", !.left = Chosen(ask.bm25, vec)]
  BY DEF Fuse, embedVars
<1>2. /\ ask'.pc = "fetch" /\ ask'.out = ask.out /\ ask'.bm25 = ask.bm25
      /\ ask'.seen = ask.seen /\ ask'.texts = ask.texts /\ DOMAIN ask' = DOMAIN ask
  BY <1>1 DEF AskShape
<1> QED BY <1>1, <1>2 DEF AskShape, AskSources, RepliesCurrent

LEMMA FetchKeepsAsk ==
  ASSUME AskInv, Fetch
  PROVE  AskInv'
<1> USE DEF AskInv
<1> DEFINE s == Head(ask.left)
           text == IF HasText(s) THEN ask.texts[s] ELSE database.text[s]
           hit == [section |-> s, text |-> text]
<1>1. /\ ask.pc = "fetch" /\ UNCHANGED <<database, server>>
      /\ ask' = [ask EXCEPT !.left = Tail(@),
                            !.out = IF HasText(s) \/ Fetched(s) THEN Append(@, hit) ELSE @]
  BY DEF Fetch, embedVars
<1>2. /\ ask'.pc = "fetch" /\ ask'.bm25 = ask.bm25 /\ ask'.seen = ask.seen
      /\ ask'.texts = ask.texts /\ DOMAIN ask' = DOMAIN ask
      /\ ask'.out = IF HasText(s) \/ Fetched(s) THEN Append(ask.out, hit) ELSE ask.out
  BY <1>1 DEF AskShape
<1>3. CASE ~ (HasText(s) \/ Fetched(s))
  BY <1>1, <1>2, <1>3 DEF AskShape, AskSources, RepliesCurrent
<1>4. CASE HasText(s) \/ Fetched(s)
  <2> DEFINE old == ask.out
             new == Append(old, hit)
  <2>1. old \in Seq(ToSet(old)) /\ DOMAIN old = 1..Len(old) /\ Len(old) \in Nat
    BY OwnSequence DEF AskShape
  <2>2. old \in Seq(ToSet(old) \cup {hit}) /\ hit \in ToSet(old) \cup {hit}
    BY <2>1, SeqMonotonic
  <2>a. ask'.out = new
    BY <1>2, <1>4
  <2>3. /\ new \in Seq(ToSet(old) \cup {hit})
        /\ DOMAIN new = 1..(Len(old) + 1)
        /\ \A i \in 1..Len(old) : new[i] = old[i]
        /\ new[Len(old) + 1] = hit
    <3> HIDE DEF old, hit
    <3> QED BY <2>1, <2>2
  <2>4. new \in Seq(ToSet(new))
    BY <2>3, OwnSequence
  <2>5. AskShape'
    <3> HIDE DEF new
    <3> QED BY <1>1, <1>2, <2>a, <2>4 DEF AskShape
  <2>6. AskSources'
    BY <1>1, <1>2 DEF AskSources
  <2>7. RepliesCurrent'
    <3>1. SUFFICES ASSUME server.index = "fts", NEW i \in DOMAIN new
                   PROVE  Grounded(new[i], ask.seen)
      BY <1>1, <1>2, <2>a DEF RepliesCurrent, Grounded
    <3>2. CASE i \in 1..Len(old)
      BY <2>1, <2>3, <3>1, <3>2 DEF RepliesCurrent, Grounded
    <3>3. CASE i = Len(old) + 1
      <4>1. database \in ask.seen
        BY <1>1, <3>1 DEF AskSources
      <4>2. PICK db \in ask.seen :
              ask.texts = db.text /\ \A t \in ToSet(ask.bm25) : Served(db, t)
        BY <1>1, <3>1 DEF AskSources
      <4>3. hit.section = s /\ hit.text = text
        OBVIOUS
      <4>4. CASE HasText(s)
        <5>1. s \in ToSet(ask.bm25)
          <6>1. DOMAIN ask.bm25 = 1..Len(ask.bm25)
            BY OwnSequence DEF AskShape
          <6> QED BY <4>4, <6>1 DEF HasText, Contains, ToSet
        <5>2. Served(db, s) /\ text = db.text[s]
          BY <4>2, <4>4, <5>1
        <5>3. Grounded(hit, ask.seen)
          BY <4>2, <4>3, <5>2 DEF Grounded
        <5> QED BY <5>3, <2>3, <3>3
      <4>5. CASE ~ HasText(s)
        <5>1. Served(database, s) /\ text = database.text[s]
          BY <1>4, <4>5 DEF Fetched
        <5>2. Grounded(hit, ask.seen)
          BY <4>1, <4>3, <5>1 DEF Grounded
        <5> QED BY <5>2, <2>3, <3>3
      <4> QED BY <4>4, <4>5
    <3> QED BY <2>1, <2>3, <3>1, <3>2, <3>3
  <2> QED BY <2>5, <2>6, <2>7
<1> QED BY <1>3, <1>4

LEMMA ReplyKeepsAsk ==
  ASSUME AskInv, Reply
  PROVE  AskInv'
<1> USE DEF AskInv
<1>1. /\ ask.pc = "fetch" /\ UNCHANGED <<database, server>>
      /\ ask' = [ask EXCEPT !.pc = "replied", !.texts = None]
  BY DEF Reply, embedVars
<1>2. /\ ask'.pc = "replied" /\ ask'.out = ask.out /\ ask'.bm25 = ask.bm25
      /\ ask'.seen = ask.seen /\ DOMAIN ask' = DOMAIN ask
  BY <1>1 DEF AskShape
<1> QED BY <1>1, <1>2 DEF AskShape, AskSources, RepliesCurrent

LEMMA NextAsk ==
  ASSUME AskInv, [Next]_vars
  PROVE  AskInv'
<1>1. CASE Jobs
  <2>1. UNCHANGED <<server, ask, database>>
    BY <1>1 DEF Jobs, EmbedNext, JobStep, Answered, Retry, GiveUp, Save, Finish, KillJob,
                StartJob
  <2> QED BY <2>1, AskUntouched
<1>2. CASE \E new \in Databases : Build(new)
  BY <1>2, BuildKeepsAsk
<1>3. CASE \E setup \in Setups : StartServer(setup)
  BY <1>3, StartServerKeepsAsk
<1>4. CASE \E question \in Questions : \E bm25 \in Rankings(Sections, ArmK) :
             Search(question, bm25)
  BY <1>4, SearchKeepsAsk
<1>5. CASE AskStep
  BY <1>5, DegradeKeepsAsk, FuseKeepsAsk, FetchKeepsAsk, ReplyKeepsAsk DEF AskStep
<1>6. CASE UNCHANGED vars
  BY <1>6, AskUntouched DEF vars, embedVars
<1> QED BY <1>1, <1>2, <1>3, <1>4, <1>5, <1>6 DEF Next

(***************************************************************************)
(* With the full-text index a reply cites what was current at some time of *)
(* the request, whatever is rebuilt and embedded meanwhile.                *)
(***************************************************************************)
THEOREM RepliesAreCurrent == Spec => []RepliesCurrent
<1>1. Init => AskInv
  BY InitAsk
<1>2. AskInv /\ [Next]_vars => AskInv'
  BY NextAsk
<1>3. AskInv => RepliesCurrent
  BY DEF AskInv
<1> QED BY <1>1, <1>2, <1>3, PTL DEF Spec
-----------------------------------------------------------------------------
(***************************************************************************)
(* The fusion.  Fractions are ordered by multiplying out, so that what is  *)
(* before what is a strict order of the sections of both rankings.         *)
(***************************************************************************)
Fractions == [num : Nat, den : Nat \ {0}]

LEMMA ProductOrder ==
  ASSUME NEW m1 \in Nat, NEW m2 \in Nat, NEW k \in Nat \ {0}
  PROVE  /\ m1 < m2 => m1 * k < m2 * k
         /\ m1 <= m2 => m1 * k <= m2 * k
         /\ m1 * k \in Nat /\ m2 * k \in Nat
OBVIOUS

LEMMA FractionOrder ==
  ASSUME NEW x \in Fractions, NEW y \in Fractions, NEW z \in Fractions
  PROVE  /\ ~ Exceeds(x, x)
         /\ Exceeds(x, y) => ~ Exceeds(y, x)
         /\ ~ Exceeds(y, x) /\ ~ Exceeds(z, y) => ~ Exceeds(z, x)
         /\ ~ Exceeds(y, x) /\ Exceeds(y, z) => Exceeds(x, z)
         /\ Exceeds(x, y) /\ ~ Exceeds(z, y) => Exceeds(x, z)
<1> DEFINE a == x.num
           b == x.den
           c == y.num
           d == y.den
           e == z.num
           f == z.den
<1>1. a \in Nat /\ c \in Nat /\ e \in Nat /\ b \in Nat \ {0} /\ d \in Nat \ {0} /\ f \in Nat \ {0}
  BY DEF Fractions
<1>2. /\ Exceeds(x, y) <=> a * d > c * b
      /\ Exceeds(y, x) <=> c * b > a * d
      /\ Exceeds(y, z) <=> c * f > e * d
      /\ Exceeds(z, y) <=> e * d > c * f
      /\ Exceeds(x, z) <=> a * f > e * b
      /\ Exceeds(z, x) <=> e * b > a * f
      /\ Exceeds(x, x) <=> a * b > a * b
  BY DEF Exceeds
<1> HIDE DEF a, b, c, d, e, f
<1>3. /\ a * d \in Nat /\ c * b \in Nat /\ c * f \in Nat /\ e * d \in Nat
      /\ a * f \in Nat /\ e * b \in Nat /\ a * b \in Nat
  BY <1>1
<1>4. /\ (a * d) * f = (a * f) * d
      /\ (c * b) * f = (c * f) * b
      /\ (e * d) * b = (e * b) * d
  BY <1>1
<1>5. ASSUME a * d >= c * b, c * f >= e * d, a * f < e * b
      PROVE  FALSE
  <2>1. (a * f) * d < (e * b) * d
    BY <1>1, <1>3, <1>5, ProductOrder
  <2>2. (c * b) * f <= (a * d) * f
    BY <1>1, <1>3, <1>5, ProductOrder
  <2>3. (e * d) * b <= (c * f) * b
    BY <1>1, <1>3, <1>5, ProductOrder
  <2>4. /\ (a * f) * d \in Nat /\ (e * b) * d \in Nat /\ (c * b) * f \in Nat
    BY <1>1, <1>3, ProductOrder
  <2> QED BY <2>1, <2>2, <2>3, <2>4, <1>4
<1>6. ASSUME a * d >= c * b, c * f > e * d, a * f <= e * b
      PROVE  FALSE
  <2>1. (a * f) * d <= (e * b) * d
    BY <1>1, <1>3, <1>6, ProductOrder
  <2>2. (c * b) * f <= (a * d) * f
    BY <1>1, <1>3, <1>6, ProductOrder
  <2>3. (e * d) * b < (c * f) * b
    BY <1>1, <1>3, <1>6, ProductOrder
  <2>4. /\ (a * f) * d \in Nat /\ (e * b) * d \in Nat /\ (c * b) * f \in Nat
    BY <1>1, <1>3, ProductOrder
  <2> QED BY <2>1, <2>2, <2>3, <2>4, <1>4
<1>7. ASSUME a * d > c * b, c * f >= e * d, a * f <= e * b
      PROVE  FALSE
  <2>1. (a * f) * d <= (e * b) * d
    BY <1>1, <1>3, <1>7, ProductOrder
  <2>2. (c * b) * f < (a * d) * f
    BY <1>1, <1>3, <1>7, ProductOrder
  <2>3. (e * d) * b <= (c * f) * b
    BY <1>1, <1>3, <1>7, ProductOrder
  <2>4. /\ (a * f) * d \in Nat /\ (e * b) * d \in Nat /\ (c * b) * f \in Nat
    BY <1>1, <1>3, ProductOrder
  <2> QED BY <2>1, <2>2, <2>3, <2>4, <1>4
<1> QED BY <1>2, <1>3, <1>5, <1>6, <1>7

LEMMA PlaceIs ==
  ASSUME NEW r \in Seq(Sections), NEW s, Contains(r, s)
  PROVE  PlaceOf(r, s) \in 1..Len(r) /\ r[PlaceOf(r, s)] = s
<1>1. DOMAIN r = 1..Len(r)
  BY LenProperties
<1> QED BY <1>1 DEF PlaceOf, Contains

LEMMA ContainsIs ==
  ASSUME NEW r \in Seq(Sections), NEW s
  PROVE  Contains(r, s) <=> s \in ToSet(r)
<1>1. DOMAIN r = 1..Len(r)
  BY LenProperties
<1> QED BY <1>1 DEF Contains, ToSet

LEMMA ShareIs ==
  ASSUME NEW r \in Seq(Sections), NEW s, NEW weight \in Nat
  PROVE  Share(r, s, weight) \in Fractions
<1>1. CASE Contains(r, s)
  <2>1. PlaceOf(r, s) \in 1..Len(r) /\ Len(r) \in Nat
    BY <1>1, PlaceIs, LenProperties
  <2>2. RrfK \in Nat
    BY RetrievalAssumption
  <2>3. RrfK + PlaceOf(r, s) \in Nat \ {0}
    BY <2>1, <2>2
  <2> QED BY <1>1, <2>3 DEF Share, Fractions
<1>2. CASE ~ Contains(r, s)
  BY <1>2 DEF Share, Fractions
<1> QED BY <1>1, <1>2

LEMMA ScoreIs ==
  ASSUME NEW bm25 \in Seq(Sections), NEW vec \in Seq(Sections), NEW s
  PROVE  RrfScore(bm25, vec, s) \in Fractions
<1> DEFINE one == Share(bm25, s, 1)
           two == Share(vec, s, VecWeight)
<1>1. one \in Fractions /\ two \in Fractions
  <2>1. VecWeight \in Nat
    BY RetrievalAssumption
  <2> QED BY <2>1, ShareIs
<1>2. RrfScore(bm25, vec, s)
        = [num |-> one.num * two.den + two.num * one.den, den |-> one.den * two.den]
  BY DEF RrfScore
<1> HIDE DEF one, two
<1>3. /\ one.num \in Nat /\ two.num \in Nat
      /\ one.den \in Nat \ {0} /\ two.den \in Nat \ {0}
  BY <1>1 DEF Fractions
<1>4. \A a, c \in Nat : \A b, d \in Nat \ {0} : a * d + c * b \in Nat /\ b * d \in Nat \ {0}
  OBVIOUS
<1>5. one.num * two.den + two.num * one.den \in Nat /\ one.den * two.den \in Nat \ {0}
  BY <1>3, <1>4, Zenon
<1> QED BY <1>2, <1>5 DEF Fractions

LEMMA FirstSeenIs ==
  ASSUME NEW bm25 \in Seq(Sections), NEW vec \in Seq(Sections),
         NEW s \in ToSet(bm25) \cup ToSet(vec), NEW t \in ToSet(bm25) \cup ToSet(vec)
  PROVE  /\ FirstSeen(bm25, vec, s) \in Nat
         /\ FirstSeen(bm25, vec, s) = FirstSeen(bm25, vec, t) => s = t
<1>1. Len(bm25) \in Nat /\ Len(vec) \in Nat
  BY LenProperties
<1>2. \A x \in ToSet(bm25) \cup ToSet(vec) :
        IF Contains(bm25, x)
        THEN /\ FirstSeen(bm25, vec, x) \in 1..Len(bm25)
             /\ bm25[FirstSeen(bm25, vec, x)] = x
        ELSE \E i \in 1..Len(vec) : FirstSeen(bm25, vec, x) = Len(bm25) + i /\ vec[i] = x
  <2> TAKE x \in ToSet(bm25) \cup ToSet(vec)
  <2>1. CASE Contains(bm25, x)
    BY <2>1, PlaceIs DEF FirstSeen
  <2>2. CASE ~ Contains(bm25, x)
    <3>1. Contains(vec, x)
      BY <2>2, ContainsIs
    <3>2. PlaceOf(vec, x) \in 1..Len(vec) /\ vec[PlaceOf(vec, x)] = x
      BY <3>1, PlaceIs
    <3> QED BY <2>2, <3>2 DEF FirstSeen
  <2> QED BY <2>1, <2>2
<1>3. FirstSeen(bm25, vec, s) \in Nat
  BY <1>1, <1>2
<1>4. ASSUME FirstSeen(bm25, vec, s) = FirstSeen(bm25, vec, t)
      PROVE  s = t
  <2>1. CASE Contains(bm25, s) /\ Contains(bm25, t)
    BY <1>2, <1>4, <2>1
  <2>2. CASE Contains(bm25, s) /\ ~ Contains(bm25, t)
    BY <1>1, <1>2, <1>4, <2>2
  <2>3. CASE ~ Contains(bm25, s) /\ Contains(bm25, t)
    BY <1>1, <1>2, <1>4, <2>3
  <2>4. CASE ~ Contains(bm25, s) /\ ~ Contains(bm25, t)
    <3>1. PICK i \in 1..Len(vec) : FirstSeen(bm25, vec, s) = Len(bm25) + i /\ vec[i] = s
      BY <1>2, <2>4
    <3>2. PICK j \in 1..Len(vec) : FirstSeen(bm25, vec, t) = Len(bm25) + j /\ vec[j] = t
      BY <1>2, <2>4
    <3>3. Len(bm25) + i = Len(bm25) + j
      BY <1>4, <3>1, <3>2, Zenon
    <3>4. i = j
      BY <1>1, <3>3
    <3> QED BY <3>1, <3>2, <3>4
  <2> QED BY <2>1, <2>2, <2>3, <2>4
<1> QED BY <1>3, <1>4

(* What is before what is a strict total order. *)
LEMMA BeforeOrder ==
  ASSUME NEW bm25 \in Seq(Sections), NEW vec \in Seq(Sections),
         NEW s \in ToSet(bm25) \cup ToSet(vec), NEW t \in ToSet(bm25) \cup ToSet(vec),
         NEW u \in ToSet(bm25) \cup ToSet(vec)
  PROVE  /\ ~ Before(bm25, vec, s, s)
         /\ s # t => Before(bm25, vec, s, t) \/ Before(bm25, vec, t, s)
         /\ Before(bm25, vec, s, t) /\ Before(bm25, vec, t, u) => Before(bm25, vec, s, u)
<1> DEFINE x == RrfScore(bm25, vec, s)
           y == RrfScore(bm25, vec, t)
           z == RrfScore(bm25, vec, u)
           p == FirstSeen(bm25, vec, s)
           q == FirstSeen(bm25, vec, t)
           r == FirstSeen(bm25, vec, u)
<1>1. x \in Fractions /\ y \in Fractions /\ z \in Fractions
  BY ScoreIs
<1>2. p \in Nat /\ q \in Nat /\ r \in Nat /\ (p = q => s = t)
  BY FirstSeenIs
<1>3. /\ Before(bm25, vec, s, s) <=> Exceeds(x, x) \/ (~ Exceeds(x, x) /\ p < p)
      /\ Before(bm25, vec, s, t) <=> Exceeds(x, y) \/ (~ Exceeds(y, x) /\ p < q)
      /\ Before(bm25, vec, t, s) <=> Exceeds(y, x) \/ (~ Exceeds(x, y) /\ q < p)
      /\ Before(bm25, vec, t, u) <=> Exceeds(y, z) \/ (~ Exceeds(z, y) /\ q < r)
      /\ Before(bm25, vec, s, u) <=> Exceeds(x, z) \/ (~ Exceeds(z, x) /\ p < r)
  BY DEF Before
<1> HIDE DEF x, y, z, p, q, r
<1>4. ~ (p < p) /\ (p < q /\ q < r => p < r) /\ (p # q => p < q \/ q < p)
  BY <1>2
<1>5. /\ ~ Exceeds(x, x)
      /\ Exceeds(x, y) => ~ Exceeds(y, x)
      /\ Exceeds(y, z) => ~ Exceeds(z, y)
      /\ ~ Exceeds(y, x) /\ ~ Exceeds(z, y) => ~ Exceeds(z, x)
      /\ ~ Exceeds(y, x) /\ Exceeds(y, z) => Exceeds(x, z)
      /\ Exceeds(x, y) /\ ~ Exceeds(z, y) => Exceeds(x, z)
  BY <1>1, FractionOrder
<1> QED BY <1>2, <1>3, <1>4, <1>5

(***************************************************************************)
(* Where each element comes after as many as are ahead of it, every        *)
(* element has one place, and every place one element.                     *)
(***************************************************************************)
ByCounting(S, ahead) ==
  [i \in 1..Cardinality(S) |-> CHOOSE s \in S : Cardinality(ahead[s]) = i - 1]

LEMMA PlacesByCounting ==
  ASSUME NEW S, IsFiniteSet(S), NEW ahead \in [S -> SUBSET S],
         \A s \in S : s \notin ahead[s],
         \A s, t \in S : s # t => s \in ahead[t] \/ t \in ahead[s],
         \A s, t \in S : s \in ahead[t] => ahead[s] \subseteq ahead[t]
  PROVE  /\ ByCounting(S, ahead) \in [1..Cardinality(S) -> S]
         /\ IsInjective(ByCounting(S, ahead))
         /\ \A s \in S : \E i \in 1..Cardinality(S) : ByCounting(S, ahead)[i] = s
<1> USE DEF ByCounting
<1> DEFINE n == Cardinality(S)
           ranking == ByCounting(S, ahead)
           place == [s \in S |-> Cardinality(ahead[s]) + 1]
<1>1. n \in Nat
  BY FS_CardinalityType
<1>2. \A s \in S : /\ IsFiniteSet(ahead[s]) /\ Cardinality(ahead[s]) \in Nat
                   /\ Cardinality(ahead[s]) < n
  <2> TAKE s \in S
  <2>1. ahead[s] \in SUBSET S
    OBVIOUS
  <2>2. IsFiniteSet(ahead[s]) /\ Cardinality(ahead[s]) <= n /\ (n = Cardinality(ahead[s]) => S = ahead[s])
    BY <2>1, FS_Subset
  <2>3. Cardinality(ahead[s]) \in Nat
    BY <2>2, FS_CardinalityType
  <2>4. S # ahead[s]
    OBVIOUS
  <2> QED BY <1>1, <2>2, <2>3, <2>4
<1>3. place \in [S -> 1..n]
  <2>1. \A s \in S : Cardinality(ahead[s]) + 1 \in 1..n
    BY <1>1, <1>2
  <2> QED BY <2>1
<1>4. \A s, t \in S : s \in ahead[t] => Cardinality(ahead[s]) < Cardinality(ahead[t])
  <2> SUFFICES ASSUME NEW s \in S, NEW t \in S, s \in ahead[t]
               PROVE  Cardinality(ahead[s]) < Cardinality(ahead[t])
    OBVIOUS
  <2>1. ahead[s] \in SUBSET ahead[t] /\ ahead[s] # ahead[t]
    OBVIOUS
  <2>2. Cardinality(ahead[s]) <= Cardinality(ahead[t]) /\ Cardinality(ahead[s]) # Cardinality(ahead[t])
    BY <2>1, <1>2, FS_Subset
  <2>3. Cardinality(ahead[s]) \in Nat /\ Cardinality(ahead[t]) \in Nat
    BY <1>2
  <2> QED BY <2>2, <2>3
<1>5. \A s, t \in S : Cardinality(ahead[s]) = Cardinality(ahead[t]) => s = t
  <2> SUFFICES ASSUME NEW s \in S, NEW t \in S, Cardinality(ahead[s]) = Cardinality(ahead[t]), s # t
               PROVE  FALSE
    OBVIOUS
  <2>1. Cardinality(ahead[s]) < Cardinality(ahead[t]) \/ Cardinality(ahead[t]) < Cardinality(ahead[s])
    BY <1>4
  <2>2. Cardinality(ahead[s]) \in Nat /\ Cardinality(ahead[t]) \in Nat
    BY <1>2
  <2> QED BY <2>1, <2>2
<1>6. \A s, t \in S : place[s] = place[t] => s = t
  <2> SUFFICES ASSUME NEW s \in S, NEW t \in S, place[s] = place[t]
               PROVE  s = t
    OBVIOUS
  <2>1. Cardinality(ahead[s]) + 1 = Cardinality(ahead[t]) + 1
    OBVIOUS
  <2>2. Cardinality(ahead[s]) \in Nat /\ Cardinality(ahead[t]) \in Nat
    BY <1>2
  <2>3. Cardinality(ahead[s]) = Cardinality(ahead[t])
    BY <2>1, <2>2
  <2> QED BY <2>3, <1>5
<1>7. place \in Surjection(S, 1..n)
  <2>1. place \in Injection(S, 1..n)
    <3> HIDE DEF place, n
    <3> QED BY <1>3, <1>6 DEF Injection, IsInjective
  <2>2. IsFiniteSet(1..n) /\ Cardinality(1..n) = n
    <3>1. IsFiniteSet(1..n) /\ Cardinality(1..n) = IF 1 > n THEN 0 ELSE n - 1 + 1
      BY <1>1, FS_Interval
    <3> QED BY <3>1, <1>1
  <2> HIDE DEF place
  <2> QED BY <2>1, <2>2, FS_Injection
<1>8. \A i \in 1..n : \E s \in S : Cardinality(ahead[s]) = i - 1
  <2> TAKE i \in 1..n
  <2>1. PICK s \in S : place[s] = i
    <3> HIDE DEF place
    <3> QED BY <1>7 DEF Surjection
  <2>2. Cardinality(ahead[s]) + 1 = i /\ Cardinality(ahead[s]) \in Nat
    BY <2>1, <1>2
  <2>3. Cardinality(ahead[s]) = i - 1
    BY <2>2
  <2> QED BY <2>3
<1>9. \A i \in 1..n : ranking[i] \in S /\ Cardinality(ahead[ranking[i]]) = i - 1
  BY <1>8
<1>10. ranking \in [1..n -> S]
  BY <1>9
<1>11. IsInjective(ranking)
  <2> SUFFICES ASSUME NEW i \in 1..n, NEW j \in 1..n, ranking[i] = ranking[j]
               PROVE  i = j
    BY <1>10 DEF IsInjective
  <2>1. i - 1 = j - 1
    BY <1>9
  <2>2. i \in Int /\ j \in Int
    BY <1>1
  <2> QED BY <2>1, <2>2
<1>12. \A s \in S : \E i \in 1..n : ranking[i] = s
  <2> TAKE s \in S
  <2>1. place[s] \in 1..n
    BY <1>3
  <2>2. Cardinality(ahead[s]) \in Nat /\ place[s] = Cardinality(ahead[s]) + 1
    BY <1>2
  <2>3. place[s] - 1 = Cardinality(ahead[s])
    BY <2>2
  <2>4. ranking[place[s]] \in S /\ Cardinality(ahead[ranking[place[s]]]) = place[s] - 1
    BY <2>1, <1>9
  <2>5. ranking[place[s]] = s
    BY <2>3, <2>4, <1>5
  <2> QED BY <2>1, <2>5
<1> QED BY <1>10, <1>11, <1>12

(* The fused ranking has every section of both rankings, and each once. *)
LEMMA FusedIs ==
  ASSUME NEW bm25 \in Seq(Sections), NEW vec \in Seq(Sections)
  PROVE  LET all == ToSet(bm25) \cup ToSet(vec)
         IN  /\ Fused(bm25, vec) \in [1..Cardinality(all) -> all]
             /\ Cardinality(all) \in Nat
             /\ IsInjective(Fused(bm25, vec))
             /\ \A s \in all : \E i \in 1..Cardinality(all) : Fused(bm25, vec)[i] = s
<1> DEFINE all == ToSet(bm25) \cup ToSet(vec)
           ahead == [s \in all |-> {t \in all : Before(bm25, vec, t, s)}]
<1>1. all \in SUBSET Sections
  <2>1. /\ DOMAIN bm25 = 1..Len(bm25) /\ DOMAIN vec = 1..Len(vec)
        /\ \A i \in 1..Len(bm25) : bm25[i] \in Sections
        /\ \A i \in 1..Len(vec) : vec[i] \in Sections
    BY LenProperties, ElementOfSeq
  <2> QED BY <2>1 DEF ToSet
<1>2. IsFiniteSet(all) /\ Cardinality(all) \in Nat
  BY <1>1, SectionsFinite
<1>3. \A s, t \in all : t \in ahead[s] <=> Before(bm25, vec, t, s)
  OBVIOUS
<1>4. ahead \in [all -> SUBSET all]
  OBVIOUS
<1>5. Fused(bm25, vec) = ByCounting(all, ahead)
  BY DEF Fused, ByCounting
<1> HIDE DEF ahead
<1>6. /\ \A s \in all : s \notin ahead[s]
      /\ \A s, t \in all : s # t => s \in ahead[t] \/ t \in ahead[s]
      /\ \A s, t \in all : s \in ahead[t] => ahead[s] \subseteq ahead[t]
  <2>1. \A s \in all : s \notin ahead[s]
    BY <1>3, BeforeOrder
  <2>2. \A s, t \in all : s # t => s \in ahead[t] \/ t \in ahead[s]
    BY <1>3, BeforeOrder
  <2>3. ASSUME NEW s \in all, NEW t \in all, s \in ahead[t], NEW u \in ahead[s]
        PROVE  u \in ahead[t]
    <3>1. u \in all
      BY <1>4
    <3> QED BY <1>3, <2>3, <3>1, BeforeOrder
  <2> QED BY <2>1, <2>2, <2>3
<1> HIDE DEF all
<1>7. /\ Fused(bm25, vec) \in [1..Cardinality(all) -> all]
      /\ IsInjective(Fused(bm25, vec))
      /\ \A s \in all : \E i \in 1..Cardinality(all) : Fused(bm25, vec)[i] = s
  BY <1>2, <1>4, <1>5, <1>6, PlacesByCounting
<1> QED BY <1>2, <1>7 DEF all

(* A cut keeps the first element, and repeats none. *)
LEMMA CutIs ==
  ASSUME NEW S, NEW r \in Seq(S), IsInjective(r), r # <<>>
  PROVE  /\ Cut(r, TopK) \in Seq(S) /\ IsInjective(Cut(r, TopK)) /\ Len(Cut(r, TopK)) > 0
         /\ Cut(r, TopK)[1] = r[1]
<1> DEFINE m == IF Len(r) <= TopK THEN Len(r) ELSE TopK
           cut == SubSeq(r, 1, m)
<1>1. TopK \in Nat \ {0}
  BY RetrievalAssumption
<1>2. Len(r) \in Nat /\ Len(r) > 0 /\ DOMAIN r = 1..Len(r)
  BY LenProperties, EmptySeq
<1>3. m \in Nat \ {0} /\ m <= Len(r)
  BY <1>1, <1>2
<1>4. Cut(r, TopK) = cut
  BY DEF Cut
<1> HIDE DEF m
<1>5. \A i \in 1..m : i \in 1..Len(r) /\ r[i] \in S
  <2>1. \A i \in 1..m : i \in 1..Len(r)
    BY <1>2, <1>3
  <2> QED BY <2>1, ElementOfSeq
<1>6. cut \in Seq(S)
  <2>1. 1 \in Int /\ m \in Int
    BY <1>3
  <2> QED BY <1>5, <2>1, SubSeqProperties
<1>7. Len(cut) = m /\ \A i \in 1..m : cut[i] = r[i]
  BY <1>2, <1>3, SubSeqProperties
<1> HIDE DEF cut
<1>8. IsInjective(cut)
  <2>1. DOMAIN cut = 1..m
    BY <1>6, <1>7, LenProperties
  <2>2. ASSUME NEW i \in 1..m, NEW j \in 1..m, cut[i] = cut[j]
        PROVE  i = j
    <3>1. i \in DOMAIN r /\ j \in DOMAIN r /\ r[i] = r[j]
      BY <1>2, <1>5, <1>7, <2>2
    <3> QED BY <3>1 DEF IsInjective
  <2> QED BY <2>1, <2>2 DEF IsInjective
<1>9. 1 \in 1..m
  BY <1>3
<1> QED BY <1>3, <1>4, <1>6, <1>7, <1>8, <1>9

(* What doc_search() keeps of both rankings has no section twice, and has  *)
(* the first hit of BM25.                                                  *)
LEMMA ChosenIs ==
  ASSUME NEW bm25 \in Seq(Sections), NEW vec \in Seq(Sections), vec # <<>>
  PROVE  /\ Chosen(bm25, vec) \in Seq(ToSet(bm25) \cup ToSet(vec))
         /\ IsInjective(Chosen(bm25, vec))
         /\ bm25 # <<>> => bm25[1] \in ToSet(Chosen(bm25, vec))
<1> DEFINE all == ToSet(bm25) \cup ToSet(vec)
           fused == Fused(bm25, vec)
           cut == Cut(fused, TopK)
           m == Len(cut)
<1>2. /\ fused \in [1..Cardinality(all) -> all] /\ Cardinality(all) \in Nat
      /\ IsInjective(fused)
      /\ \A s \in all : \E i \in 1..Cardinality(all) : fused[i] = s
  BY FusedIs
<1>3. vec[1] \in all
  <2>1. Len(vec) \in Nat /\ DOMAIN vec = 1..Len(vec) /\ 1 \in 1..Len(vec)
    BY LenProperties, EmptySeq
  <2> QED BY <2>1 DEF ToSet
<1>4. bm25 # <<>> => bm25[1] \in all
  <2>1. Len(bm25) \in Nat /\ DOMAIN bm25 = 1..Len(bm25) /\ (bm25 # <<>> => 1 \in 1..Len(bm25))
    BY LenProperties, EmptySeq
  <2> QED BY <2>1 DEF ToSet
<1>5. Chosen(bm25, vec) = Rescued(cut, bm25)
  BY DEF Chosen
<1> HIDE DEF all, fused
<1>6. fused \in Seq(all) /\ Len(fused) = Cardinality(all) /\ Len(fused) > 0
  <2>1. fused \in Seq(all)
    BY <1>2, SeqDef
  <2>2. DOMAIN fused = 1..Cardinality(all) /\ DOMAIN fused = 1..Len(fused) /\ Len(fused) \in Nat
    BY <1>2, <2>1, LenProperties
  <2>3. Len(fused) = Cardinality(all)
    BY <1>2, <2>2
  <2>4. PICK i \in 1..Cardinality(all) : fused[i] = vec[1]
    BY <1>2, <1>3
  <2>5. Cardinality(all) > 0
    BY <1>2, <2>4
  <2> QED BY <2>1, <2>3, <2>5
<1>7. fused # <<>>
  BY <1>6, EmptySeq
<1>8. cut \in Seq(all) /\ IsInjective(cut) /\ Len(cut) > 0
  BY <1>2, <1>6, <1>7, CutIs
<1> HIDE DEF cut
<1>9. m \in Nat \ {0} /\ m = Len(cut)
  BY <1>8, LenProperties
<1> HIDE DEF m
<1>10. DOMAIN cut = 1..m /\ IsInjective(cut) /\ cut \in [1..m -> all]
  BY <1>8, <1>9, LenProperties
<1>11. CASE bm25 # <<>> /\ ~ Contains(cut, bm25[1])
  <2> DEFINE kept == [cut EXCEPT ![m] = bm25[1]]
  <2>1. Rescued(cut, bm25) = kept
    BY <1>9, <1>11 DEF Rescued
  <2>2. m \in 1..m /\ bm25[1] \in all
    BY <1>4, <1>9, <1>11
  <2>3. kept \in [1..m -> all] /\ kept[m] = bm25[1] /\ \A i \in 1..m : i # m => kept[i] = cut[i]
    BY <1>10, <2>2
  <2>4. \A i \in 1..m : cut[i] # bm25[1]
    BY <1>9, <1>11 DEF Contains
  <2> HIDE DEF kept
  <2>5. kept \in Seq(all)
    BY <1>9, <2>3, SeqDef
  <2>6. IsInjective(kept)
    <3> SUFFICES ASSUME NEW i \in 1..m, NEW j \in 1..m, kept[i] = kept[j]
                 PROVE  i = j
      BY <2>3 DEF IsInjective
    <3>1. CASE i = m /\ j = m
      BY <3>1
    <3>2. CASE i # m /\ j # m
      BY <3>2, <2>3, <1>10 DEF IsInjective
    <3>3. CASE i = m /\ j # m
      BY <3>3, <2>3, <2>4
    <3>4. CASE i # m /\ j = m
      BY <3>4, <2>3, <2>4
    <3> QED BY <3>1, <3>2, <3>3, <3>4
  <2>7. bm25[1] \in ToSet(kept)
    BY <2>2, <2>3 DEF ToSet
  <2> QED BY <1>5, <2>1, <2>5, <2>6, <2>7 DEF all
<1>12. CASE ~ (bm25 # <<>> /\ ~ Contains(cut, bm25[1]))
  <2>1. Rescued(cut, bm25) = cut
    BY <1>12 DEF Rescued
  <2>2. bm25 # <<>> => bm25[1] \in ToSet(cut)
    BY <1>9, <1>10, <1>12 DEF Contains, ToSet
  <2> QED BY <1>5, <1>8, <1>10, <2>1, <2>2 DEF all
<1> QED BY <1>11, <1>12
-----------------------------------------------------------------------------
(***************************************************************************)
(* What is kept of a request: where its texts come from, that no section   *)
(* is taken twice or beside the question, and where BM25's first hit is.   *)
(***************************************************************************)
AskTyped ==
  /\ server \in [pc : {"off", "up"}, index : {"fts", "pickle", None},
                 pickled : Databases \cup {None}, memory : SUBSET Sections]
  /\ server.pc = "up" /\ server.index = "pickle" => server.pickled \in Databases
  /\ ask.pc \in {"none", "embed", "fetch", "replied"}
  /\ ask.out \in Seq(Hits)
  /\ ask.seen \subseteq Databases
  /\ ask.pc \in {"embed", "fetch"} => \A s \in ToSet(ask.bm25) : ask.texts[s] \in Texts

AskFits ==
  /\ IsInjective(ask.bm25)
  /\ ask.left \in Seq(Sections) /\ IsInjective(ask.left)
  /\ \A s \in ToSet(ask.bm25) \cup ToSet(ask.left) : Named(ask.question, s)
  /\ \A i \in DOMAIN ask.out : ask.out[i].section \notin ToSet(ask.left)
  /\ ask.pc # "fetch" => ask.left = <<>>
  /\ RepliesFit

\* The first hit has its text, or the database that served it is still there.
TopReadable ==
  \/ ask.bm25[1] \notin EmptyTexts
  \/ server.index = "fts" /\ ask.began = builds

InReply(s) == \E i \in DOMAIN ask.out : ask.out[i].section = s

AskTop ==
  /\ ask.began \in Nat /\ ask.began <= builds
  /\ ask.bm25 # <<>> =>
       /\ ask.pc \in {"embed", "fetch"} /\ server.index = "fts" /\ ask.began = builds =>
            Served(database, ask.bm25[1])
       /\ ask.pc = "fetch" /\ TopReadable =>
            ask.bm25[1] \in ToSet(ask.left) \/ InReply(ask.bm25[1])
       /\ ask.pc = "replied" /\ TopReadable => InReply(ask.bm25[1])

Sound == AskTyped /\ AskFits /\ AskTop

LEMMA RankingsAreInjective ==
  ASSUME NEW C, NEW n, NEW r \in Rankings(C, n)
  PROVE  IsInjective(r)
BY DEF Rankings

(* The hits of a ranking whose texts are known. *)
LEMMA PlainlyIs ==
  ASSUME NEW r \in Seq(Sections), NEW texts, \A s \in ToSet(r) : texts[s] \in Texts
  PROVE  /\ Plainly(r, texts) \in Seq(Hits)
         /\ DOMAIN Plainly(r, texts) = DOMAIN r
         /\ \A i \in DOMAIN r : Plainly(r, texts)[i].section = r[i]
<1>1. DOMAIN r = 1..Len(r) /\ Len(r) \in Nat
  BY LenProperties
<1>2. \A i \in 1..Len(r) : r[i] \in Sections /\ texts[r[i]] \in Texts
  BY <1>1, ElementOfSeq DEF ToSet
<1>3. Plainly(r, texts) \in [1..Len(r) -> Hits]
  BY <1>1, <1>2 DEF Plainly, Hits
<1>4. Plainly(r, texts) \in Seq(Hits)
  BY <1>1, <1>3, SeqDef
<1> QED BY <1>1, <1>4 DEF Plainly

(* A section that is served has a text. *)
LEMMA ServedHasText ==
  ASSUME NEW db \in Databases, NEW s \in Sections, Served(db, s)
  PROVE  db.text[s] \in Texts
BY EmbedAssumption DEF Served

LEMMA InitSound ==
  ASSUME Init
  PROVE  Sound
<1>1. /\ ask = NoAsk
      /\ server = [pc |-> "off", index |-> None, pickled |-> None, memory |-> {}]
      /\ builds = 0
  BY DEF Init, EmbedInit
<1>2. /\ ask.pc = "none" /\ ask.began = 0 /\ ask.bm25 = <<>> /\ ask.left = <<>>
      /\ ask.out = <<>> /\ ask.seen = {}
  BY <1>1 DEF NoAsk
<1>3. <<>> \in Seq(Hits) /\ <<>> \in Seq(Sections) /\ DOMAIN <<>> = {} /\ ToSet(<<>>) = {}
  BY EmptySeq DEF ToSet
<1>4. AskTyped
  BY <1>1, <1>2, <1>3 DEF AskTyped
<1>5. AskFits
  BY <1>2, <1>3 DEF AskFits, RepliesFit, IsInjective
<1>6. AskTop
  BY <1>1, <1>2 DEF AskTop
<1> QED BY <1>4, <1>5, <1>6 DEF Sound

LEMMA SoundUntouched ==
  ASSUME Sound, UNCHANGED <<server, ask, database, builds>>
  PROVE  Sound'
BY DEF Sound, AskTyped, AskFits, AskTop, RepliesFit, Named, TopReadable, InReply, Served

LEMMA BuildKeepsSound ==
  ASSUME EmbedTypeOK, AskShape, Sound, NEW new \in Databases, Build(new)
  PROVE  Sound'
<1>1. /\ UNCHANGED server /\ database' = new /\ builds' = builds + 1
      /\ builds \in Nat
  BY EmbedAssumption DEF Build, Rebuild, EmbedTypeOK
<1>2. /\ ask'.pc = ask.pc /\ ask'.out = ask.out /\ ask'.bm25 = ask.bm25 /\ ask'.left = ask.left
      /\ ask'.texts = ask.texts /\ ask'.question = ask.question /\ ask'.began = ask.began
      /\ ask'.seen \subseteq ask.seen \cup {new}
  <2>1. CASE ask.pc \in {"embed", "fetch"}
    <3>1. ask' = [ask EXCEPT !.seen = @ \cup {new}]
      BY <2>1 DEF Build
    <3> QED BY <3>1 DEF AskShape
  <2>2. CASE ask.pc \notin {"embed", "fetch"}
    BY <2>2 DEF Build
  <2> QED BY <2>1, <2>2
<1>3. AskTyped'
  BY <1>1, <1>2 DEF Sound, AskTyped
<1>4. AskFits'
  BY <1>2 DEF Sound, AskFits, RepliesFit, Named
<1>5. AskTop'
  <2>1. /\ ask.began \in Nat /\ ask.began <= builds
    BY DEF Sound, AskTop
  <2>2. ask'.began # builds' /\ ask'.began <= builds'
    BY <1>1, <1>2, <2>1
  <2>3. TopReadable' => TopReadable
    BY <1>2, <2>2 DEF TopReadable
  <2>4. \A s : InReply(s)' <=> InReply(s)
    BY <1>2 DEF InReply
  <2>5. ASSUME ask'.bm25 # <<>>
        PROVE  /\ ask'.pc = "fetch" /\ TopReadable' =>
                    ask'.bm25[1] \in ToSet(ask'.left) \/ InReply(ask.bm25[1])
               /\ ask'.pc = "replied" /\ TopReadable' => InReply(ask.bm25[1])
    BY <1>2, <2>3, <2>5 DEF Sound, AskTop
  <2>6. InReply(ask.bm25[1])' <=> InReply(ask.bm25[1])
    BY <1>2 DEF InReply
  <2> QED BY <1>2, <2>1, <2>2, <2>5, <2>6 DEF AskTop
<1> QED BY <1>3, <1>4, <1>5 DEF Sound

LEMMA StartServerKeepsSound ==
  ASSUME EmbedTypeOK, AskShape, Sound, NEW setup \in Setups, StartServer(setup)
  PROVE  Sound'
<1>1. /\ UNCHANGED <<embedVars, ask>> /\ server.pc = "off"
      /\ server' = [pc |-> "up", index |-> setup.index, memory |-> Loaded(setup.hybrid),
                    pickled |-> IF setup.index = "pickle" THEN database ELSE None]
  BY DEF StartServer
<1>2. ask.pc = "none" /\ ask.out = <<>> /\ ask.bm25 = ask.bm25
  BY <1>1 DEF AskShape
<1>3. database \in Databases /\ setup.index \in {"fts", "pickle", None}
  BY HybridAssumption DEF EmbedTypeOK
<1>4. Loaded(setup.hybrid) \subseteq Sections
  BY DEF Loaded, Existing
<1>5. AskTyped'
  BY <1>1, <1>2, <1>3, <1>4 DEF Sound, AskTyped
<1>6. AskFits'
  BY <1>1 DEF Sound, AskFits, RepliesFit, Named
<1>7. AskTop'
  BY <1>1, <1>2 DEF Sound, AskTop, embedVars
<1> QED BY <1>5, <1>6, <1>7 DEF Sound

LEMMA SearchKeepsSound ==
  ASSUME EmbedTypeOK, AskShape, Sound, NEW question, NEW bm25, Search(question, bm25)
  PROVE  Sound'
<1> DEFINE ends == server.index = None \/ server.memory = {}
           p == Plainly(bm25, Source.text)
<1>1. /\ server.pc = "up" /\ ask.pc = "none" /\ UNCHANGED <<embedVars, server>>
      /\ bm25 \in Rankings(Candidates(question), IF server.memory = {} THEN TopK ELSE ArmK)
      /\ ask' = [pc |-> IF ends THEN "replied" ELSE "embed", began |-> builds,
                question |-> question, bm25 |-> bm25, texts |-> Source.text, left |-> <<>>,
                out |-> IF ends THEN p ELSE <<>>,
                seen |-> {database}]
  BY DEF Search
<1>2. /\ bm25 \in Seq(Sections) /\ IsInjective(bm25)
      /\ \A s \in ToSet(bm25) : s \in Sections /\ Served(Source, s) /\ Named(question, s)
  <2>1. Candidates(question) \in SUBSET Sections
    BY DEF Candidates
  <2>2. bm25 \in Seq(Sections) /\ ToSet(bm25) \subseteq Candidates(question)
    BY <1>1, <2>1, RankingsAreSequences
  <2>3. IsInjective(bm25)
    BY <1>1, RankingsAreInjective
  <2> QED BY <2>2, <2>3 DEF Candidates
<1>3. Source \in Databases /\ database \in Databases
  BY <1>1 DEF Source, Sound, AskTyped, EmbedTypeOK
<1>4. \A s \in ToSet(bm25) : Source.text[s] \in Texts
  BY <1>2, <1>3, ServedHasText
<1>5. /\ p \in Seq(Hits) /\ DOMAIN p = DOMAIN bm25
      /\ \A i \in DOMAIN bm25 : p[i].section = bm25[i]
  BY <1>2, <1>4, PlainlyIs
<1> HIDE DEF p
<1>6. /\ ask'.pc = (IF ends THEN "replied" ELSE "embed") /\ ask'.began = builds
      /\ ask'.question = question /\ ask'.bm25 = bm25 /\ ask'.texts = Source.text
      /\ ask'.left = <<>> /\ ask'.out = (IF ends THEN p ELSE <<>>) /\ ask'.seen = {database}
  BY <1>1
<1> HIDE DEF ends
<1>7. <<>> \in Seq(Hits) /\ <<>> \in Seq(Sections) /\ DOMAIN <<>> = {} /\ ToSet(<<>>) = {}
  BY EmptySeq DEF ToSet
<1>8. AskTyped'
  <2>1. ask'.out \in Seq(Hits)
    BY <1>5, <1>6, <1>7
  <2>2. UNCHANGED server
    BY <1>1
  <2> QED BY <1>3, <1>4, <1>6, <2>1, <2>2 DEF Sound, AskTyped
<1>9. \A i \in DOMAIN ask'.out : i \in DOMAIN bm25 /\ ask'.out[i].section = bm25[i]
  BY <1>5, <1>6, <1>7
<1>10. \A i \in DOMAIN bm25 : bm25[i] \in ToSet(bm25)
  BY DEF ToSet
<1>11. AskFits'
  <2>1. RepliesFit'
    BY <1>2, <1>6, <1>9, <1>10 DEF RepliesFit, Named, IsInjective
  <2>2. IsInjective(ask'.bm25) /\ IsInjective(ask'.left)
    BY <1>2, <1>6, <1>7 DEF IsInjective
  <2>3. \A s \in ToSet(ask'.bm25) \cup ToSet(ask'.left) : Named(ask'.question, s)
    BY <1>2, <1>6, <1>7
  <2>4. \A i \in DOMAIN ask'.out : ask'.out[i].section \notin ToSet(ask'.left)
    BY <1>6, <1>7
  <2> QED BY <1>6, <1>7, <2>1, <2>2, <2>3, <2>4 DEF AskFits, Named
<1>12. AskTop'
  <2>1. builds' = builds /\ database' = database /\ server' = server /\ builds \in Nat
    BY <1>1, EmbedAssumption DEF embedVars, EmbedTypeOK
  <2>2. ASSUME bm25 # <<>>
        PROVE  1 \in DOMAIN bm25 /\ bm25[1] \in ToSet(bm25)
    <3>1. Len(bm25) \in Nat /\ DOMAIN bm25 = 1..Len(bm25) /\ Len(bm25) # 0
      BY <1>2, <2>2, LenProperties, EmptySeq
    <3>2. 1 \in DOMAIN bm25
      BY <3>1
    <3> QED BY <3>2, <1>10
  <2>3. ASSUME bm25 # <<>>, ends
        PROVE  InReply(bm25[1])'
    <3>1. 1 \in DOMAIN ask'.out /\ ask'.out[1].section = bm25[1]
      BY <1>5, <1>6, <2>2, <2>3
    <3> QED BY <3>1 DEF InReply
  <2>4. ASSUME bm25 # <<>>, server.index = "fts"
        PROVE  Served(database, bm25[1])
    BY <1>2, <2>2, <2>4 DEF Source
  <2>5. ask'.began \in Nat /\ ask'.began <= builds'
    BY <1>6, <2>1
  <2>6. InReply(ask.bm25[1])' <=> InReply(bm25[1])'
    BY <1>6 DEF InReply
  <2>7. Served(database, ask.bm25[1])' <=> Served(database, bm25[1])
    BY <1>6, <2>1 DEF Served
  <2> QED BY <1>6, <2>1, <2>3, <2>4, <2>5, <2>6, <2>7 DEF AskTop
<1> QED BY <1>8, <1>11, <1>12 DEF Sound

LEMMA DegradeKeepsSound ==
  ASSUME AskShape, Sound, Degrade
  PROVE  Sound'
<1> DEFINE cut == Cut(ask.bm25, TopK)
           p == Plainly(cut, ask.texts)
<1>1. /\ ask.pc = "embed" /\ UNCHANGED <<embedVars, server>>
      /\ ask' = [ask EXCEPT !.pc = "replied", !.texts = None, !.out = p]
  BY DEF Degrade
<1>2. /\ ask'.pc = "replied" /\ ask'.out = p /\ ask'.bm25 = ask.bm25 /\ ask'.seen = ask.seen
      /\ ask'.left = ask.left /\ ask'.question = ask.question /\ ask'.began = ask.began
  BY <1>1 DEF AskShape
<1>3. ask.bm25 \in Seq(Sections) /\ IsInjective(ask.bm25)
  BY DEF AskShape, Sound, AskFits
<1>4. cut \in Seq(Sections) /\ ToSet(cut) \subseteq ToSet(ask.bm25)
  BY <1>3, CutKeeps
<1>5. IsInjective(cut) /\ (ask.bm25 # <<>> => Len(cut) > 0 /\ cut[1] = ask.bm25[1])
  <2>1. CASE ask.bm25 # <<>>
    BY <1>3, <2>1, CutIs
  <2>2. CASE ask.bm25 = <<>>
    <3>1. ToSet(ask.bm25) = {}
      BY <2>2, EmptySeq DEF ToSet
    <3>2. DOMAIN cut = {}
      BY <1>4, <3>1 DEF ToSet
    <3> QED BY <2>2, <3>2 DEF IsInjective
  <2> QED BY <2>1, <2>2
<1> HIDE DEF cut
<1>6. \A s \in ToSet(cut) : ask.texts[s] \in Texts /\ Named(ask.question, s)
  BY <1>1, <1>4 DEF Sound, AskTyped, AskFits
<1>7. p \in Seq(Hits) /\ DOMAIN p = DOMAIN cut /\ \A i \in DOMAIN cut : p[i].section = cut[i]
  BY <1>4, <1>6, PlainlyIs
<1> HIDE DEF p
<1>8. AskTyped'
  BY <1>1, <1>2, <1>7 DEF Sound, AskTyped
<1>9. ask.left = <<>> /\ ToSet(ask.left) = {}
  <2>1. ask.left = <<>>
    BY <1>1 DEF Sound, AskFits
  <2> QED BY <2>1, EmptySeq DEF ToSet
<1>10. AskFits'
  <2>1. \A i \in DOMAIN cut : Named(ask.question, cut[i])
    BY <1>6 DEF ToSet
  <2>2. RepliesFit'
    BY <1>2, <1>5, <1>7, <2>1 DEF RepliesFit, Named, IsInjective
  <2> QED BY <1>2, <1>9, <2>2 DEF Sound, AskFits, Named
<1>11. AskTop'
  <2>1. ASSUME ask.bm25 # <<>>
        PROVE  InReply(ask.bm25[1])'
    <3>1. DOMAIN cut = 1..Len(cut) /\ Len(cut) \in Nat /\ Len(cut) > 0
      BY <1>4, <1>5, <2>1, LenProperties
    <3>2. 1 \in DOMAIN ask'.out /\ ask'.out[1].section = ask.bm25[1]
      BY <1>2, <1>5, <1>7, <2>1, <3>1
    <3> QED BY <1>2, <3>2 DEF InReply
  <2>2. builds' = builds
    BY <1>1 DEF embedVars
  <2> QED BY <1>2, <2>1, <2>2 DEF Sound, AskTop
<1> QED BY <1>8, <1>10, <1>11 DEF Sound

LEMMA FuseKeepsSound ==
  ASSUME AskShape, Sound, NEW vec, Fuse(vec)
  PROVE  Sound'
<1> DEFINE left == Chosen(ask.bm25, vec)
<1>1. /\ ask.pc = "embed" /\ UNCHANGED <<embedVars, server>> /\ vec # <<>>
      /\ vec \in FullRankings(Neighbours(ask.question), ArmK)
      /\ ask' = [ask EXCEPT !.pc = "fetch", !.left = left]
  BY DEF Fuse
<1>2. /\ ask'.pc = "fetch" /\ ask'.out = ask.out /\ ask'.bm25 = ask.bm25 /\ ask'.seen = ask.seen
      /\ ask'.left = left /\ ask'.question = ask.question /\ ask'.began = ask.began
      /\ ask'.texts = ask.texts
  BY <1>1 DEF AskShape
<1>3. ask.bm25 \in Seq(Sections) /\ ask.out = <<>> /\ DOMAIN ask.out = {}
  BY <1>1, EmptySeq DEF AskShape
<1>4. vec \in Seq(Sections) /\ \A s \in ToSet(vec) : Named(ask.question, s)
  <2>1. Neighbours(ask.question) \in SUBSET Sections
    BY DEF Neighbours, Sound, AskTyped
  <2>2. vec \in Rankings(Neighbours(ask.question), ArmK)
    BY <1>1 DEF FullRankings
  <2>3. vec \in Seq(Sections) /\ ToSet(vec) \subseteq Neighbours(ask.question)
    BY <2>1, <2>2, RankingsAreSequences
  <2> QED BY <2>3 DEF Neighbours
<1>5. /\ left \in Seq(ToSet(ask.bm25) \cup ToSet(vec)) /\ IsInjective(left)
      /\ ask.bm25 # <<>> => ask.bm25[1] \in ToSet(left)
  BY <1>1, <1>3, <1>4, ChosenIs
<1> HIDE DEF left
<1>6. ToSet(left) \subseteq ToSet(ask.bm25) \cup ToSet(vec)
  <2>1. DOMAIN left = 1..Len(left) /\ \A i \in 1..Len(left) : left[i] \in ToSet(ask.bm25) \cup ToSet(vec)
    BY <1>5, LenProperties, ElementOfSeq
  <2> QED BY <2>1 DEF ToSet
<1>7. left \in Seq(Sections)
  <2>1. \A s \in ToSet(ask.bm25) \cup ToSet(vec) : s \in Sections
    <3>1. /\ DOMAIN vec = 1..Len(vec) /\ DOMAIN ask.bm25 = 1..Len(ask.bm25)
          /\ \A i \in 1..Len(vec) : vec[i] \in Sections
          /\ \A i \in 1..Len(ask.bm25) : ask.bm25[i] \in Sections
      BY <1>3, <1>4, LenProperties, ElementOfSeq
    <3> QED BY <3>1 DEF ToSet
  <2>2. ToSet(ask.bm25) \cup ToSet(vec) \subseteq Sections
    BY <2>1
  <2> QED BY <1>5, <2>2, SeqMonotonic
<1>8. AskTyped'
  BY <1>1, <1>2 DEF Sound, AskTyped
<1>9. AskFits'
  <2>1. \A s \in ToSet(ask.bm25) \cup ToSet(left) : Named(ask.question, s)
    BY <1>4, <1>6 DEF Sound, AskFits
  <2>2. RepliesFit'
    BY <1>2, <1>3 DEF RepliesFit
  <2> QED BY <1>2, <1>3, <1>5, <1>7, <2>1, <2>2 DEF Sound, AskFits, Named
<1>10. AskTop'
  <2>1. UNCHANGED <<builds, database, server>>
    BY <1>1 DEF embedVars
  <2>2. ask.bm25 # <<>> => ask'.bm25[1] \in ToSet(ask'.left)
    BY <1>2, <1>5
  <2>3. /\ ask.began \in Nat /\ ask.began <= builds
        /\ ask.bm25 # <<>> /\ server.index = "fts" /\ ask.began = builds =>
             Served(database, ask.bm25[1])
    BY <1>1 DEF Sound, AskTop
  <2>4. Served(database, ask.bm25[1])' <=> Served(database, ask.bm25[1])
    BY <1>2, <2>1 DEF Served
  <2> QED BY <1>2, <2>1, <2>2, <2>3, <2>4 DEF AskTop
<1> QED BY <1>8, <1>9, <1>10 DEF Sound

LEMMA ReplyKeepsSound ==
  ASSUME AskShape, Sound, Reply
  PROVE  Sound'
<1>1. /\ ask.pc = "fetch" /\ ask.left = <<>> /\ UNCHANGED <<embedVars, server>>
      /\ ask' = [ask EXCEPT !.pc = "replied", !.texts = None]
  BY DEF Reply
<1>2. /\ ask'.pc = "replied" /\ ask'.out = ask.out /\ ask'.bm25 = ask.bm25 /\ ask'.seen = ask.seen
      /\ ask'.left = ask.left /\ ask'.question = ask.question /\ ask'.began = ask.began
  BY <1>1 DEF AskShape
<1>3. AskTyped'
  BY <1>1, <1>2 DEF Sound, AskTyped
<1>4. AskFits'
  <2>1. RepliesFit'
    BY <1>1, <1>2 DEF Sound, AskFits, RepliesFit, Named
  <2>2. \A i \in DOMAIN ask'.out : ask'.out[i].section \notin ToSet(ask'.left)
    BY <1>2 DEF Sound, AskFits
  <2>3. \A s \in ToSet(ask'.bm25) \cup ToSet(ask'.left) : Named(ask'.question, s)
    BY <1>2 DEF Sound, AskFits
  <2>4. IsInjective(ask'.bm25) /\ IsInjective(ask'.left) /\ ask'.left \in Seq(Sections)
    BY <1>2 DEF Sound, AskFits
  <2> QED BY <1>1, <1>2, <2>1, <2>2, <2>3, <2>4 DEF AskFits, Named
<1>5. AskTop'
  <2>1. ToSet(ask.left) = {}
    BY <1>1, EmptySeq DEF ToSet
  <2>2. UNCHANGED <<builds, database, server>>
    BY <1>1 DEF embedVars
  <2>3. /\ TopReadable' <=> TopReadable
        /\ InReply(ask.bm25[1])' <=> InReply(ask.bm25[1])
    BY <1>2, <2>2 DEF TopReadable, InReply
  <2> QED BY <1>1, <1>2, <2>1, <2>2, <2>3 DEF Sound, AskTop
<1> QED BY <1>3, <1>4, <1>5 DEF Sound

(* The head of a sequence without repetitions is not in its tail. *)
LEMMA HeadAndTail ==
  ASSUME NEW S, NEW r \in Seq(S), r # <<>>, IsInjective(r)
  PROVE  /\ Head(r) \in ToSet(r) /\ Head(r) \in S
         /\ Tail(r) \in Seq(S) /\ IsInjective(Tail(r))
         /\ ToSet(Tail(r)) = ToSet(r) \ {Head(r)}
<1>1. /\ Len(r) \in Nat /\ Len(r) > 0 /\ DOMAIN r = 1..Len(r)
      /\ \A i \in 1..Len(r) : r[i] \in S
  BY LenProperties, EmptySeq, ElementOfSeq
<1>2. 1 \in 1..Len(r) /\ Head(r) = r[1]
  BY <1>1, HeadTailProperties
<1>3. /\ Tail(r) \in Seq(S) /\ Len(Tail(r)) = Len(r) - 1
      /\ \A i \in 1..Len(Tail(r)) : Tail(r)[i] = r[i + 1]
  BY HeadTailProperties
<1>4. DOMAIN Tail(r) = 1..(Len(r) - 1)
  BY <1>3, LenProperties
<1>5. \A i \in 1..(Len(r) - 1) : i + 1 \in 1..Len(r) /\ i + 1 # 1 /\ Tail(r)[i] = r[i + 1]
  BY <1>1, <1>3
<1>6. IsInjective(Tail(r))
  <2> SUFFICES ASSUME NEW i \in 1..(Len(r) - 1), NEW j \in 1..(Len(r) - 1), Tail(r)[i] = Tail(r)[j]
               PROVE  i = j
    BY <1>4 DEF IsInjective
  <2>1. i + 1 \in DOMAIN r /\ j + 1 \in DOMAIN r /\ r[i + 1] = r[j + 1]
    BY <1>1, <1>5
  <2>2. i + 1 = j + 1
    BY <2>1 DEF IsInjective
  <2>3. i \in Int /\ j \in Int
    BY <1>1
  <2> QED BY <2>2, <2>3
<1>7. ASSUME NEW x \in ToSet(Tail(r))
      PROVE  x \in ToSet(r) /\ x # Head(r)
  <2>1. PICK i \in 1..(Len(r) - 1) : x = Tail(r)[i]
    BY <1>4 DEF ToSet
  <2>2. i + 1 \in DOMAIN r /\ x = r[i + 1] /\ i + 1 # 1 /\ 1 \in DOMAIN r
    BY <1>1, <1>2, <1>5, <2>1
  <2>3. x # r[1]
    BY <2>2 DEF IsInjective
  <2> QED BY <1>2, <2>2, <2>3 DEF ToSet
<1>8. ASSUME NEW x \in ToSet(r), x # Head(r)
      PROVE  x \in ToSet(Tail(r))
  <2>1. PICK i \in 1..Len(r) : x = r[i]
    BY <1>1 DEF ToSet
  <2>2. i # 1
    BY <1>2, <1>8, <2>1
  <2>3. i - 1 \in 1..(Len(r) - 1) /\ (i - 1) + 1 = i
    BY <1>1, <2>2
  <2>4. Tail(r)[i - 1] = x
    BY <1>5, <2>1, <2>3
  <2> QED BY <1>4, <2>3, <2>4 DEF ToSet
<1>9. Head(r) \in ToSet(r) /\ Head(r) \in S
  BY <1>1, <1>2 DEF ToSet
<1> QED BY <1>3, <1>6, <1>7, <1>8, <1>9

LEMMA FetchKeepsSound ==
  ASSUME EmbedTypeOK, AskShape, Sound, Fetch
  PROVE  Sound'
<1> DEFINE s == Head(ask.left)
           text == IF HasText(s) THEN ask.texts[s] ELSE database.text[s]
           hit == [section |-> s, text |-> text]
           kept == HasText(s) \/ Fetched(s)
<1>1. /\ ask.pc = "fetch" /\ ask.left # <<>> /\ UNCHANGED <<embedVars, server>>
      /\ ask' = [ask EXCEPT !.left = Tail(@),
                            !.out = IF kept THEN Append(@, hit) ELSE @]
  BY DEF Fetch
<1>2. /\ ask'.pc = "fetch" /\ ask'.bm25 = ask.bm25 /\ ask'.seen = ask.seen
      /\ ask'.texts = ask.texts /\ ask'.question = ask.question /\ ask'.began = ask.began
      /\ ask'.left = Tail(ask.left)
      /\ ask'.out = IF kept THEN Append(ask.out, hit) ELSE ask.out
  BY <1>1 DEF AskShape
<1>3. ask.left \in Seq(Sections) /\ IsInjective(ask.left)
  BY DEF Sound, AskFits
<1>4. /\ s \in ToSet(ask.left) /\ s \in Sections
      /\ Tail(ask.left) \in Seq(Sections) /\ IsInjective(Tail(ask.left))
      /\ ToSet(Tail(ask.left)) = ToSet(ask.left) \ {s}
  BY <1>1, <1>3, HeadAndTail
<1>5. kept => text \in Texts
  <2>1. CASE HasText(s)
    <3>1. s \in ToSet(ask.bm25)
      BY <2>1, ContainsIs DEF HasText, AskShape
    <3> QED BY <1>1, <2>1, <3>1 DEF Sound, AskTyped
  <2>2. CASE ~ HasText(s) /\ Fetched(s)
    BY <1>4, <2>2, ServedHasText DEF Fetched, EmbedTypeOK
  <2> QED BY <2>1, <2>2
<1>6. hit.section = s
  OBVIOUS
<1>7. kept => hit \in Hits
  BY <1>4, <1>5 DEF Hits
<1>8. ask.out \in Seq(Hits) /\ DOMAIN ask.out = 1..Len(ask.out) /\ Len(ask.out) \in Nat
  BY LenProperties DEF Sound, AskTyped
<1> HIDE DEF hit, text
<1>9. kept => /\ ask'.out \in Seq(Hits) /\ DOMAIN ask'.out = 1..(Len(ask.out) + 1)
              /\ \A i \in 1..Len(ask.out) : ask'.out[i] = ask.out[i]
              /\ ask'.out[Len(ask.out) + 1] = hit
  BY <1>2, <1>7, <1>8
<1>10. ~ kept => ask'.out = ask.out
  BY <1>2
<1> HIDE DEF kept
<1>11. \A i \in DOMAIN ask'.out :
         \/ i \in DOMAIN ask.out /\ ask'.out[i] = ask.out[i]
         \/ kept /\ i = Len(ask.out) + 1 /\ i \notin DOMAIN ask.out /\ ask'.out[i].section = s
  <2>1. CASE kept
    BY <1>6, <1>8, <1>9, <2>1
  <2>2. CASE ~ kept
    BY <1>10, <2>2
  <2> QED BY <2>1, <2>2
<1>12. \A i \in DOMAIN ask.out : i \in DOMAIN ask'.out /\ ask'.out[i] = ask.out[i]
  <2>1. CASE kept
    BY <1>8, <1>9, <2>1
  <2>2. CASE ~ kept
    BY <1>10, <2>2
  <2> QED BY <2>1, <2>2
<1> HIDE DEF s
<1>13. AskTyped'
  <2>1. ask'.out \in Seq(Hits)
    BY <1>8, <1>9, <1>10
  <2> QED BY <1>1, <1>2, <2>1 DEF Sound, AskTyped
<1>14. /\ \A i \in DOMAIN ask.out : ask.out[i].section \notin ToSet(ask.left)
       /\ \A x \in ToSet(ask.left) : Named(ask.question, x)
       /\ RepliesFit
  BY DEF Sound, AskFits
<1>15. AskFits'
  <2>1. RepliesFit'
    <3> SUFFICES ASSUME NEW i \in DOMAIN ask'.out
                 PROVE  /\ Named(ask.question, ask'.out[i].section)
                        /\ \A j \in DOMAIN ask'.out :
                             ask'.out[i].section = ask'.out[j].section => i = j
      BY <1>2 DEF RepliesFit, Named
    <3>1. Named(ask.question, ask'.out[i].section)
      BY <1>1, <1>4, <1>11, <1>14 DEF RepliesFit
    <3>2. ASSUME NEW j \in DOMAIN ask'.out, ask'.out[i].section = ask'.out[j].section
          PROVE  i = j
      <4>1. CASE i \in DOMAIN ask.out /\ j \in DOMAIN ask.out
        BY <1>1, <1>12, <1>14, <3>2, <4>1 DEF RepliesFit
      <4>2. CASE i \in DOMAIN ask.out /\ j \notin DOMAIN ask.out
        BY <1>4, <1>11, <1>12, <1>14, <3>2, <4>2
      <4>3. CASE i \notin DOMAIN ask.out /\ j \in DOMAIN ask.out
        BY <1>4, <1>11, <1>12, <1>14, <3>2, <4>3
      <4>4. CASE i \notin DOMAIN ask.out /\ j \notin DOMAIN ask.out
        BY <1>11, <4>4
      <4> QED BY <4>1, <4>2, <4>3, <4>4
    <3> QED BY <3>1, <3>2
  <2>2. \A i \in DOMAIN ask'.out : ask'.out[i].section \notin ToSet(ask'.left)
    BY <1>2, <1>4, <1>11, <1>14
  <2>3. \A x \in ToSet(ask'.bm25) \cup ToSet(ask'.left) : Named(ask.question, x)
    BY <1>2, <1>4 DEF Sound, AskFits
  <2>4. \A x \in ToSet(ask'.bm25) \cup ToSet(ask'.left) : Named(ask'.question, x)
    BY <1>2, <2>3
  <2> QED BY <1>2, <1>4, <2>1, <2>2, <2>4 DEF Sound, AskFits, Named
<1>16. AskTop'
  <2>1. UNCHANGED <<builds, database, server>>
    BY <1>1 DEF embedVars
  <2>2. TopReadable' <=> TopReadable
    BY <1>2, <2>1 DEF TopReadable
  <2>3. ASSUME ask.bm25 # <<>>, TopReadable
        PROVE  ask.bm25[1] \in ToSet(ask'.left) \/ InReply(ask.bm25[1])'
    <3>1. CASE InReply(ask.bm25[1])
      <4>1. PICK i \in DOMAIN ask.out : ask.out[i].section = ask.bm25[1]
        BY <3>1 DEF InReply
      <4>2. i \in DOMAIN ask'.out /\ ask'.out[i].section = ask'.bm25[1]
        BY <1>2, <1>12, <4>1
      <4> QED BY <4>2 DEF InReply
    <3>2. CASE ask.bm25[1] \in ToSet(ask.left) /\ ask.bm25[1] # s
      BY <1>2, <1>4, <3>2
    <3>3. CASE ask.bm25[1] = s
      <4>1. s \in ToSet(ask.bm25)
        <5>1. Len(ask.bm25) \in Nat /\ DOMAIN ask.bm25 = 1..Len(ask.bm25) /\ Len(ask.bm25) # 0
          BY <2>3, LenProperties, EmptySeq DEF AskShape
        <5>2. 1 \in DOMAIN ask.bm25
          BY <5>1
        <5> QED BY <3>3, <5>2 DEF ToSet
      <4>2. Contains(ask.bm25, s)
        BY <4>1, ContainsIs DEF AskShape
      <4>3. kept
        <5>1. CASE s \notin EmptyTexts
          BY <4>2, <5>1 DEF HasText, kept
        <5>2. CASE server.index = "fts" /\ ask.began = builds
          BY <1>1, <2>3, <3>3, <5>2 DEF Fetched, kept, Sound, AskTop
        <5> QED BY <2>3, <3>3, <5>1, <5>2 DEF TopReadable
      <4>4. Len(ask.out) + 1 \in DOMAIN ask'.out /\ ask'.out[Len(ask.out) + 1].section = ask'.bm25[1]
        BY <1>2, <1>6, <1>8, <1>9, <3>3, <4>3
      <4> QED BY <4>4 DEF InReply
    <3> QED BY <1>1, <2>3, <3>1, <3>2, <3>3 DEF Sound, AskTop
  <2> QED BY <1>1, <1>2, <2>1, <2>2, <2>3 DEF Sound, AskTop
<1> QED BY <1>13, <1>15, <1>16 DEF Sound

LEMMA NextSound ==
  ASSUME JobInv, AskInv, Sound, [Next]_vars
  PROVE  Sound'
<1>1. EmbedTypeOK /\ AskShape
  BY DEF JobInv, AskInv
<1>2. CASE Jobs
  <2>1. UNCHANGED <<server, ask, database, builds>>
    BY <1>2 DEF Jobs, EmbedNext, JobStep, Answered, Retry, GiveUp, Save, Finish, KillJob,
                StartJob
  <2> QED BY <2>1, SoundUntouched
<1>3. CASE \E new \in Databases : Build(new)
  BY <1>1, <1>3, BuildKeepsSound
<1>4. CASE \E setup \in Setups : StartServer(setup)
  BY <1>1, <1>4, StartServerKeepsSound
<1>5. CASE \E question \in Questions : \E bm25 \in Rankings(Sections, ArmK) :
             Search(question, bm25)
  BY <1>1, <1>5, SearchKeepsSound
<1>6. CASE AskStep
  BY <1>1, <1>6, DegradeKeepsSound, FuseKeepsSound, FetchKeepsSound, ReplyKeepsSound DEF AskStep
<1>7. CASE UNCHANGED vars
  BY <1>7, SoundUntouched DEF vars, embedVars
<1> QED BY <1>2, <1>3, <1>4, <1>5, <1>6, <1>7 DEF Next

LEMMA AlwaysSound == Spec => [](JobInv /\ AskInv /\ Sound)
<1>1. Init => JobInv /\ AskInv /\ Sound
  BY InitJob, InitAsk, InitSound
<1>2. JobInv /\ AskInv /\ Sound /\ [Next]_vars => (JobInv /\ AskInv /\ Sound)'
  BY NextJob, NextAsk, NextSound
<1> QED BY <1>1, <1>2, PTL DEF Spec

(***************************************************************************)
(* The database, the vectors, the job and every hit of a reply are what    *)
(* they should be: no hit is without a text.                               *)
(***************************************************************************)
THEOREM TypeCorrect == Spec => []TypeOK
<1>1. JobInv /\ AskInv /\ Sound => TypeOK
  BY DEF TypeOK, JobInv, Sound, AskTyped
<1> QED BY <1>1, AlwaysSound, PTL

(***************************************************************************)
(* No reply has a section twice or one beside the question, whatever the   *)
(* two rankings are and however they are fused.                            *)
(***************************************************************************)
THEOREM RepliesAlwaysFit == Spec => []RepliesFit
<1>1. JobInv /\ AskInv /\ Sound => RepliesFit
  BY DEF Sound, AskFits
<1> QED BY <1>1, AlwaysSound, PTL

(***************************************************************************)
(* The first hit of BM25 is in the reply, for every number of sections,    *)
(* constant of the fusion and weight of the vectors.                       *)
(***************************************************************************)
THEOREM TheTopSurvives == Spec => []TopSurvives
<1>1. JobInv /\ AskInv /\ Sound => TopSurvives
  BY DEF TopSurvives, Sound, AskTop, TopReadable, InReply
<1> QED BY <1>1, AlwaysSound, PTL
=============================================================================
