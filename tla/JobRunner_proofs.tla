---------------------------- MODULE JobRunner_proofs ----------------------------
(* Theorems about JobRunner, for every set of jobs, every limit and bound,  *)
(* and about Supervision, the clocks around one of its jobs.                *)
EXTENDS JobRunner, Supervision, TLAPS, SequenceTheorems, FiniteSetTheorems

-----------------------------------------------------------------------------
(* Lines: sequences in which nothing occurs twice. *)

(* The least of two numbers. *)
LEMMA MinOfTwo ==
  ASSUME NEW a \in Int, NEW b \in Int
  PROVE  Min({a, b}) = IF a <= b THEN a ELSE b
PROOF BY DEF Min

(* The element at the head is the one RemoveFirst takes. *)
LEMMA RemoveHead ==
  ASSUME NEW S, NEW s \in Seq(S), s # <<>>, NEW e, e = Head(s)
  PROVE  RemoveFirst(s, e) = Tail(s)
PROOF
  <1> DEFINE I == {i \in 1..Len(s) : s[i] = e}
             k == SelectInSeq(s, LAMBDA v : v = e)
  <1>1. Len(s) \in Nat /\ Len(s) >= 1 /\ s[1] = e
    BY EmptySeq, LenProperties
  <1>2. 1 \in I /\ \A i \in I : i \in Int /\ 1 <= i
    BY <1>1
  <1>3. Min(I) = 1
    BY <1>2 DEF Min
  <1>4. k = 1
    BY <1>2, <1>3 DEF SelectInSeq
  <1>5. RemoveFirst(s, e) = RemoveAt(s, k)
    BY <1>2 DEF RemoveFirst
  <1> HIDE DEF k
  <1>6. RemoveAt(s, k) = SubSeq(s, 1, 0) \o SubSeq(s, 2, Len(s))
    BY <1>4 DEF RemoveAt
  <1>7. SubSeq(s, 1, 0) = <<>> /\ SubSeq(s, 2, Len(s)) = Tail(s)
    BY SubSeqEmpty, TailIsSubSeq
  <1> QED BY <1>5, <1>6, <1>7, HeadTailProperties, ConcatEmptySeq

(* An element that is not there leaves the line as it is. *)
LEMMA RemoveAbsent ==
  ASSUME NEW S, NEW s \in Seq(S), NEW e, e \notin ToSet(s)
  PROVE  RemoveFirst(s, e) = s
PROOF BY LenProperties DEF RemoveFirst, ToSet

(* The head of a line leaves it, everybody else stays. *)
LEMMA TailOfLine ==
  ASSUME NEW S, NEW s \in Seq(S), s # <<>>, Injective(s)
  PROVE  /\ Tail(s) \in Seq(S)
         /\ Len(Tail(s)) = Len(s) - 1
         /\ Head(s) \in ToSet(s)
         /\ Injective(Tail(s))
         /\ ToSet(Tail(s)) = ToSet(s) \ {Head(s)}
PROOF
  <1>1. /\ Len(s) \in Nat /\ Len(s) >= 1 /\ s[1] = Head(s)
        /\ Tail(s) \in Seq(S) /\ Len(Tail(s)) = Len(s) - 1
        /\ \A i \in 1..Len(Tail(s)) : Tail(s)[i] = s[i + 1]
    BY EmptySeq, LenProperties, HeadTailProperties
  <1>2. ToSet(s) = {s[i] : i \in 1..Len(s)} /\ ToSet(Tail(s)) = {Tail(s)[i] : i \in 1..Len(Tail(s))}
    BY <1>1, LenProperties DEF ToSet
  <1>3. Injective(Tail(s))
    BY <1>1 DEF Injective
  <1>4. \A i \in 2..Len(s) : s[i] # Head(s) /\ s[i] = Tail(s)[i - 1]
    BY <1>1 DEF Injective
  <1>5. ToSet(Tail(s)) \subseteq ToSet(s) \ {Head(s)}
    BY <1>1, <1>2, <1>4
  <1>6. ToSet(s) \ {Head(s)} \subseteq ToSet(Tail(s))
    <2> SUFFICES ASSUME NEW i \in 1..Len(s), s[i] # Head(s)
                 PROVE  s[i] \in ToSet(Tail(s))
      BY <1>2
    <2>1. i - 1 \in 1..Len(Tail(s)) /\ s[i] = Tail(s)[i - 1]
      BY <1>1, <1>4
    <2> QED BY <2>1, <1>2
  <1> QED BY <1>1, <1>2, <1>3, <1>5, <1>6

(* A newcomer at the end of a line. *)
LEMMA AppendToLine ==
  ASSUME NEW S, NEW s \in Seq(S), NEW e \in S, e \notin ToSet(s), Injective(s)
  PROVE  /\ Append(s, e) \in Seq(S)
         /\ Len(Append(s, e)) = Len(s) + 1
         /\ Injective(Append(s, e))
         /\ ToSet(Append(s, e)) = ToSet(s) \cup {e}
PROOF
  <1>1. /\ Len(s) \in Nat /\ Append(s, e) \in Seq(S) /\ Len(Append(s, e)) = Len(s) + 1
        /\ \A i \in 1..Len(s) : Append(s, e)[i] = s[i]
        /\ Append(s, e)[Len(s) + 1] = e
    BY AppendProperties, LenProperties
  <1>2. /\ ToSet(s) = {s[i] : i \in 1..Len(s)}
        /\ ToSet(Append(s, e)) = {Append(s, e)[i] : i \in 1..(Len(s) + 1)}
    BY <1>1, LenProperties DEF ToSet
  <1>3. \A i \in 1..Len(s) : s[i] # e
    BY <1>2
  <1>4. Injective(Append(s, e))
    BY <1>1, <1>3 DEF Injective
  <1>5. ToSet(Append(s, e)) = ToSet(s) \cup {e}
    <2>1. ToSet(Append(s, e)) \subseteq ToSet(s) \cup {e}
      BY <1>1, <1>2
    <2>2. ToSet(s) \subseteq ToSet(Append(s, e))
      BY <1>1, <1>2
    <2>3. e \in ToSet(Append(s, e))
      BY <1>1, <1>2
    <2> QED BY <2>1, <2>2, <2>3
  <1> QED BY <1>1, <1>4, <1>5

-----------------------------------------------------------------------------
(* The inductive invariant.  The permits only add up because every job is  *)
(* in one line at most and the lines agree with the tasks; the exposed     *)
(* queue only equals the semaphore's because RemoveFirst always meets the  *)
(* head of the line or somebody who is not in it.                          *)

QueueInv == PermitsConserved /\ WorkConserving /\ QueueIsLine /\ LinesMatchTasks

(* What the type of the rows rests on: only jobs nobody submitted have no  *)
(* row, and there is nothing to read before the first emission.            *)
FileInv ==
  \A j \in Jobs : /\ row[j].status = "absent" => task[j] = "none"
                  /\ unread[j] => progress[j] # "none"

IInv == TypeOK /\ FileInv /\ QueueInv

(* A job enters the semaphore. *)
LEMMA HolderEnters ==
  ASSUME TypeOK, NEW j \in Jobs, task[j] \notin Admitted,
         NEW t \in Admitted, task' = [task EXCEPT ![j] = t]
  PROVE  /\ Cardinality(Holders) \in Nat
         /\ Cardinality(Holders') = Cardinality(Holders) + 1
PROOF
  <1>1. IsFiniteSet(Holders)
    BY JobsAssumption, FS_Subset DEF Holders
  <1>2. Holders' = Holders \cup {j} /\ j \notin Holders
    BY DEF TypeOK, Holders
  <1> QED BY <1>1, <1>2, FS_AddElement, FS_CardinalityType

(* A job leaves the semaphore. *)
LEMMA HolderLeaves ==
  ASSUME TypeOK, NEW j \in Jobs, task[j] \in Admitted,
         NEW t, t \notin Admitted, task' = [task EXCEPT ![j] = t]
  PROVE  /\ Cardinality(Holders) \in Nat
         /\ Cardinality(Holders') = Cardinality(Holders) - 1
PROOF
  <1>1. IsFiniteSet(Holders)
    BY JobsAssumption, FS_Subset DEF Holders
  <1>2. Holders' = Holders \ {j} /\ j \in Holders
    BY DEF TypeOK, Holders
  <1> QED BY <1>1, <1>2, FS_RemoveElement, FS_CardinalityType

(* A step that moves nobody in or out of a line or the semaphore. *)
LEMMA QueueUntouched ==
  ASSUME IInv, UNCHANGED <<ready, permits, waiters, woken, queued>>, Holders' = Holders,
         \A j \in Jobs : /\ task'[j] = "ready" <=> task[j] = "ready"
                         /\ task'[j] = "waiting" <=> task[j] = "waiting"
  PROVE  QueueInv'
PROOF BY DEF IInv, QueueInv, PermitsConserved, WorkConserving, QueueIsLine,
             LinesMatchTasks, Injective, ToSet

(* The initial states. *)
LEMMA InvInit == Init => IInv
PROOF
  <1> SUFFICES ASSUME Init PROVE IInv
    OBVIOUS
  <1>1. TypeOK
    BY LimitAssumption, EmptySeq
       DEF Init, TypeOK, TaskStates, Admitted, WorkerStates, Rows
  <1>2. Holders = {}
    BY DEF Init, Holders, Admitted
  <1>3. PermitsConserved
    BY <1>2, FS_EmptySet, LimitAssumption DEF PermitsConserved, Init
  <1>4. ToSet(ready) = {} /\ ToSet(waiters) = {} /\ Len(waiters) = 0 /\ Len(ready) = 0
    BY EmptySeq DEF Init, ToSet
  <1>5. LinesMatchTasks
    BY <1>4 DEF LinesMatchTasks, Injective, Init
  <1> QED
    BY <1>1, <1>3, <1>4, <1>5 DEF IInv, FileInv, QueueInv, WorkConserving, QueueIsLine, Init

(* Types.  First the rows that the closing writes and the progress leave.  *)
LEMMA SettleType ==
  ASSUME TypeOK, NEW j \in Jobs, NEW base \in Rows, NEW best \in Rows,
         base.status # "absent", best.status # "absent",
         NEW n \in Nat, Settle(j, base, best, n)
  PROVE  /\ faults' \in Nat
         /\ heartbeat' \in [Jobs -> BOOLEAN]
         /\ row' \in [Jobs -> Rows]
         /\ row'[j].status # "absent"
         /\ \A i \in Jobs \ {j} : row'[i] = row[i]
PROOF
  <1>1. PICK k \in 0..n :
          /\ faults' = faults + k
          /\ row' = [row EXCEPT ![j] = IF k = 0 THEN best ELSE IF k < n THEN FailedRow ELSE base]
          /\ heartbeat' = IF k + 1 < n THEN [heartbeat EXCEPT ![j] = FALSE] ELSE heartbeat
    BY DEF Settle
  <1>2. FailedRow \in Rows /\ FailedRow.status # "absent"
    BY DEF FailedRow, Rows, Terminal
  <1>3. faults' \in Nat /\ heartbeat' \in [Jobs -> BOOLEAN]
    BY <1>1 DEF TypeOK
  <1>4. PICK r \in Rows : row' = [row EXCEPT ![j] = r] /\ r.status # "absent"
    BY <1>1, <1>2
  <1> QED BY <1>3, <1>4 DEF TypeOK

LEMMA ProgressType ==
  ASSUME IInv, NEW j \in Jobs, task[j] # "none", NEW r \in AfterProgress(j)
  PROVE  /\ r \in Rows /\ r.status # "absent"
         /\ ProgressFaults(j, r) \in Nat
PROOF
  <1>1. row[j] \in Rows /\ row[j].status # "absent"
    BY DEF IInv, TypeOK, FileInv
  <1>2. unread[j] => progress[j] \in Running \cup Terminal
    BY DEF IInv, TypeOK, FileInv
  <1>3. r \in Rows /\ r.status # "absent"
    BY <1>1, <1>2 DEF AfterProgress, Rows, Running, Terminal
  <1> QED BY <1>3 DEF ProgressFaults

-----------------------------------------------------------------------------
(* One lemma per step that moves a job along the line. *)

LEMMA InvSubmit ==
  ASSUME IInv, NEW j \in Jobs, Submit(j)
  PROVE  IInv'
PROOF
  <1> USE DEF Submit, loopVars, fileVars, countVars
  <1>1. task[j] = "none" /\ j \notin ToSet(ready) /\ j \notin ToSet(waiters)
    BY DEF IInv, FileInv, QueueInv, LinesMatchTasks
  <1>2. /\ ready' \in Seq(Jobs) /\ Injective(ready') /\ ToSet(ready') = ToSet(ready) \cup {j}
    BY <1>1, AppendToLine DEF IInv, TypeOK, QueueInv, LinesMatchTasks
  <1>3. TypeOK'
    BY <1>2 DEF IInv, TypeOK, TaskStates, Rows, Running
  <1>4. FileInv'
    BY DEF IInv, TypeOK, FileInv, Rows
  <1>5. Holders' = Holders
    BY <1>1 DEF IInv, TypeOK, Holders, Admitted
  <1>6. LinesMatchTasks'
    <2>1. \A i \in Jobs : task'[i] = "ready" <=> i \in ToSet(ready')
      BY <1>2 DEF IInv, TypeOK, QueueInv, LinesMatchTasks
    <2>2. \A i \in Jobs : task'[i] = "waiting" <=> i \in ToSet(waiters')
      BY <1>1 DEF IInv, TypeOK, QueueInv, LinesMatchTasks
    <2>3. Injective(waiters')
      BY DEF IInv, QueueInv, LinesMatchTasks, Injective
    <2> QED BY <1>2, <2>1, <2>2, <2>3 DEF LinesMatchTasks, Injective, ToSet
  <1> QED BY <1>3, <1>4, <1>5, <1>6
          DEF IInv, QueueInv, PermitsConserved, WorkConserving, QueueIsLine

LEMMA InvStartNow ==
  ASSUME IInv, NEW j \in Jobs, StartNow(j)
  PROVE  IInv'
PROOF
  <1> USE DEF StartNow, Enter, countVars
  <1>1. /\ ready \in Seq(Jobs) /\ Injective(ready) /\ j \in ToSet(ready)
        /\ ready' \in Seq(Jobs) /\ Injective(ready') /\ ToSet(ready') = ToSet(ready) \ {j}
    BY TailOfLine DEF IInv, TypeOK, QueueInv, LinesMatchTasks
  <1>2. task[j] = "ready" /\ j \notin ToSet(waiters)
    BY <1>1 DEF IInv, QueueInv, LinesMatchTasks
  <1>3. queued' = queued
    BY <1>2, RemoveAbsent DEF IInv, TypeOK, QueueInv, QueueIsLine
  <1>4. permits > 0 /\ waiters = <<>>
    BY DEF Locked, IInv, TypeOK
  <1>5. TypeOK'
    BY <1>1, <1>3, <1>4 DEF IInv, TypeOK, TaskStates, Admitted
  <1>6. FileInv'
    BY <1>2 DEF IInv, TypeOK, FileInv
  <1>7. PermitsConserved'
    <2>1. /\ Cardinality(Holders) \in Nat
          /\ Cardinality(Holders') = Cardinality(Holders) + 1
      BY <1>2, HolderEnters DEF IInv, Admitted
    <2> QED BY <1>4, <2>1 DEF IInv, TypeOK, QueueInv, PermitsConserved
  <1>8. LinesMatchTasks'
    <2>1. \A i \in Jobs : task'[i] = "ready" <=> i \in ToSet(ready')
      BY <1>1, <1>2 DEF IInv, TypeOK, QueueInv, LinesMatchTasks
    <2>2. \A i \in Jobs : task'[i] = "waiting" <=> i \in ToSet(waiters')
      BY <1>2 DEF IInv, TypeOK, QueueInv, LinesMatchTasks
    <2>3. Injective(waiters')
      BY DEF IInv, QueueInv, LinesMatchTasks, Injective
    <2> QED BY <1>1, <2>1, <2>2, <2>3 DEF LinesMatchTasks, Injective, ToSet
  <1> QED BY <1>3, <1>4, <1>5, <1>6, <1>7, <1>8, EmptySeq
          DEF IInv, TypeOK, QueueInv, WorkConserving, QueueIsLine

LEMMA InvStartQueued ==
  ASSUME IInv, NEW j \in Jobs, StartQueued(j)
  PROVE  IInv'
PROOF
  <1> USE DEF StartQueued, fileVars, countVars
  <1>1. /\ ready \in Seq(Jobs) /\ Injective(ready) /\ j \in ToSet(ready)
        /\ ready' \in Seq(Jobs) /\ Injective(ready') /\ ToSet(ready') = ToSet(ready) \ {j}
    BY TailOfLine DEF IInv, TypeOK, QueueInv, LinesMatchTasks
  <1>2. task[j] = "ready" /\ j \notin ToSet(waiters)
    BY <1>1 DEF IInv, QueueInv, LinesMatchTasks
  <1>3. /\ waiters' \in Seq(Jobs) /\ Len(waiters') = Len(waiters) + 1
        /\ Injective(waiters') /\ ToSet(waiters') = ToSet(waiters) \cup {j}
    BY <1>2, AppendToLine DEF IInv, TypeOK, QueueInv, LinesMatchTasks
  <1>4. queued' = waiters'
    BY <1>2 DEF IInv, QueueInv, QueueIsLine
  <1>5. Len(waiters) \in Nat
    BY LenProperties DEF IInv, TypeOK
  <1>6. TypeOK'
    <2>1. row' \in [Jobs -> Rows]
      BY DEF IInv, TypeOK, Rows, Running
    <2>2. woken' \in 0..Len(waiters')
      BY <1>3, <1>5 DEF IInv, TypeOK
    <2>3. task' \in [Jobs -> TaskStates]
      BY DEF IInv, TypeOK, TaskStates
    <2> QED BY <1>1, <1>3, <1>4, <2>1, <2>2, <2>3 DEF IInv, TypeOK
  <1>7. FileInv'
    BY <1>2 DEF IInv, TypeOK, FileInv, Rows
  <1>8. Holders' = Holders
    BY <1>2 DEF IInv, TypeOK, Holders, Admitted
  <1>9. LinesMatchTasks'
    <2>1. \A i \in Jobs : task'[i] = "ready" <=> i \in ToSet(ready')
      BY <1>1, <1>2 DEF IInv, TypeOK, QueueInv, LinesMatchTasks
    <2>2. \A i \in Jobs : task'[i] = "waiting" <=> i \in ToSet(waiters')
      BY <1>2, <1>3 DEF IInv, TypeOK, QueueInv, LinesMatchTasks
    <2> QED BY <1>1, <1>3, <2>1, <2>2 DEF LinesMatchTasks, Injective, ToSet
  <1>10. WorkConserving'
    (* a newcomer only waits beside a free permit when a woken waiter is   *)
    (* in front of it                                                      *)
    <2>1. CASE permits = 0
      BY <2>1 DEF WorkConserving
    <2>2. CASE permits > 0
      <3>1. waiters # <<>> /\ Len(waiters) > 0
        BY <2>2, EmptySeq DEF Locked, IInv, TypeOK
      <3>2. woken > 0
        BY <2>2, <3>1 DEF IInv, TypeOK, QueueInv, WorkConserving
      <3> QED BY <3>2 DEF WorkConserving
    <2> QED BY <2>1, <2>2 DEF IInv, TypeOK
  <1> QED BY <1>4, <1>6, <1>7, <1>8, <1>9, <1>10
          DEF IInv, QueueInv, PermitsConserved, QueueIsLine

LEMMA InvResume ==
  ASSUME IInv, NEW j \in Jobs, Resume(j)
  PROVE  IInv'
PROOF
  <1> USE DEF Resume, Enter, countVars
  <1>1. /\ Len(waiters) \in Nat /\ permits \in Nat /\ woken \in Nat /\ woken <= Len(waiters)
        /\ woken > 0 /\ waiters # <<>>
    BY EmptySeq, LenProperties DEF IInv, TypeOK
  <1>2. /\ j \in ToSet(waiters)
        /\ waiters' \in Seq(Jobs) /\ Len(waiters') = Len(waiters) - 1
        /\ Injective(waiters') /\ ToSet(waiters') = ToSet(waiters) \ {j}
    BY <1>1, TailOfLine DEF IInv, TypeOK, QueueInv, LinesMatchTasks
  <1>3. task[j] = "waiting"
    BY <1>2 DEF IInv, QueueInv, LinesMatchTasks
  <1>4. queued' = waiters'
    BY <1>1, RemoveHead DEF IInv, TypeOK, QueueInv, QueueIsLine
  <1> DEFINE rest == Len(waiters) - woken
             n == Min({permits, rest})
  <1>5. n = IF permits <= rest THEN permits ELSE rest
    BY <1>1, MinOfTwo
  <1>6. permits' = permits - n /\ woken' = (woken - 1) + n
    OBVIOUS
  <1> HIDE DEF n
  <1>7. /\ permits' \in Nat /\ woken' \in 0..Len(waiters')
        /\ permits' + woken' = permits + woken - 1
        /\ permits' = 0 \/ woken' = Len(waiters')
    <2>1. Len(waiters') = Len(waiters) - 1
      BY <1>2
    <2>2. CASE permits <= rest
      <3>1. n = permits
        BY <1>5, <2>2
      <3> HIDE DEF Resume, Enter
      <3> QED BY <1>1, <1>6, <2>1, <2>2, <3>1
    <2>3. CASE ~(permits <= rest)
      <3>1. n = rest
        BY <1>5, <2>3
      <3> HIDE DEF Resume, Enter
      <3> QED BY <1>1, <1>6, <2>1, <2>3, <3>1
    <2> QED BY <2>2, <2>3
  <1>8. TypeOK'
    BY <1>2, <1>4, <1>7 DEF IInv, TypeOK, TaskStates, Admitted
  <1>9. FileInv'
    BY <1>3 DEF IInv, TypeOK, FileInv
  <1>10. PermitsConserved'
    <2>1. /\ Cardinality(Holders) \in Nat
          /\ Cardinality(Holders') = Cardinality(Holders) + 1
      BY <1>3, HolderEnters DEF IInv, Admitted
    <2> QED BY <1>1, <1>7, <2>1 DEF IInv, QueueInv, PermitsConserved
  <1>11. LinesMatchTasks'
    <2>1. \A i \in Jobs : task'[i] = "ready" <=> i \in ToSet(ready')
      BY <1>3 DEF IInv, TypeOK, QueueInv, LinesMatchTasks
    <2>2. \A i \in Jobs : task'[i] = "waiting" <=> i \in ToSet(waiters')
      BY <1>2, <1>3 DEF IInv, TypeOK, QueueInv, LinesMatchTasks
    <2>3. Injective(ready')
      BY DEF IInv, QueueInv, LinesMatchTasks, Injective
    <2> QED BY <1>2, <2>1, <2>2, <2>3 DEF LinesMatchTasks, Injective, ToSet
  <1> QED BY <1>1, <1>2, <1>4, <1>7, <1>8, <1>9, <1>10, <1>11
          DEF IInv, QueueInv, WorkConserving, QueueIsLine

-----------------------------------------------------------------------------
(* Leaving the semaphore, and the three steps that end with it. *)

QueueTypeOK ==
  /\ ready \in Seq(Jobs) /\ waiters \in Seq(Jobs) /\ queued \in Seq(Jobs)
  /\ permits \in Nat /\ woken \in 0..Len(waiters)
  /\ slot \in Jobs \cup {NoJob}
  /\ task \in [Jobs -> TaskStates]

LEMMA LeaveQueue ==
  ASSUME IInv, NEW j \in Jobs, task[j] \in Admitted, Leave(j)
  PROVE  QueueTypeOK' /\ QueueInv'
PROOF
  <1> USE DEF Leave
  <1>1. task[j] # "ready" /\ task[j] # "waiting"
    BY DEF Admitted
  <1>2. j \notin ToSet(ready) /\ j \notin ToSet(waiters)
    BY <1>1 DEF IInv, QueueInv, LinesMatchTasks
  <1>3. queued' = queued
    BY <1>2, RemoveAbsent DEF IInv, TypeOK, QueueInv, QueueIsLine
  <1>4. /\ Len(waiters) \in Nat /\ permits \in Nat /\ woken \in Nat /\ woken <= Len(waiters)
    BY LenProperties DEF IInv, TypeOK
  <1>5. /\ permits' \in Nat /\ woken' \in 0..Len(waiters')
        /\ permits' + woken' = permits + woken + 1
    BY <1>4
  <1>6. QueueTypeOK'
    BY <1>3, <1>5 DEF QueueTypeOK, IInv, TypeOK, TaskStates
  <1>7. PermitsConserved'
    <2>1. /\ Cardinality(Holders) \in Nat
          /\ Cardinality(Holders') = Cardinality(Holders) - 1
      BY HolderLeaves DEF IInv, Admitted
    <2> QED BY <1>4, <1>5, <2>1 DEF IInv, QueueInv, PermitsConserved
  <1>8. WorkConserving'
    BY <1>4 DEF IInv, QueueInv, WorkConserving
  <1>9. LinesMatchTasks'
    BY <1>1, <1>2 DEF IInv, TypeOK, QueueInv, LinesMatchTasks, Injective, ToSet
  <1> QED BY <1>3, <1>6, <1>7, <1>8, <1>9 DEF IInv, QueueInv, QueueIsLine

LEMMA InvSpawnFailed ==
  ASSUME IInv, NEW j \in Jobs, SpawnFailed(j)
  PROVE  IInv'
PROOF
  <1> USE DEF SpawnFailed
  <1>1. QueueTypeOK' /\ QueueInv'
    BY LeaveQueue DEF Admitted
  <1>2. /\ FailedRow \in Rows /\ FailedRow.status # "absent"
        /\ row[j] \in Rows /\ row[j].status # "absent"
    BY DEF IInv, TypeOK, FileInv, FailedRow, Rows, Terminal
  <1>3. /\ faults' \in Nat /\ heartbeat' \in [Jobs -> BOOLEAN] /\ row' \in [Jobs -> Rows]
        /\ row'[j].status # "absent" /\ \A i \in Jobs \ {j} : row'[i] = row[i]
    BY <1>2, SettleType DEF IInv
  <1>4. TypeOK'
    BY <1>1, <1>3 DEF IInv, TypeOK, QueueTypeOK
  <1>5. FileInv'
    BY <1>3 DEF IInv, TypeOK, FileInv, Leave
  <1> QED BY <1>1, <1>4, <1>5 DEF IInv

LEMMA InvReaped ==
  ASSUME IInv, NEW j \in Jobs, Reaped(j)
  PROVE  IInv'
PROOF
  <1> USE DEF Reaped
  <1>1. QueueTypeOK' /\ QueueInv'
    BY LeaveQueue DEF Admitted
  <1>2. /\ FailedRow \in Rows /\ FailedRow.status # "absent"
        /\ row[j] \in Rows /\ row[j].status # "absent"
    BY DEF IInv, TypeOK, FileInv, FailedRow, Rows, Terminal
  <1>3. /\ faults' \in Nat /\ heartbeat' \in [Jobs -> BOOLEAN] /\ row' \in [Jobs -> Rows]
        /\ row'[j].status # "absent" /\ \A i \in Jobs \ {j} : row'[i] = row[i]
    BY <1>2, SettleType DEF IInv
  <1>4. TypeOK'
    BY <1>1, <1>3 DEF IInv, TypeOK, QueueTypeOK
  <1>5. FileInv'
    BY <1>3 DEF IInv, TypeOK, FileInv, Leave
  <1> QED BY <1>1, <1>4, <1>5 DEF IInv

LEMMA InvWorkerGone ==
  ASSUME IInv, NEW j \in Jobs, WorkerGone(j)
  PROVE  IInv'
PROOF
  <1> USE DEF WorkerGone
  <1>1. QueueTypeOK' /\ QueueInv'
    BY LeaveQueue DEF Admitted
  <1>2. PICK r \in AfterProgress(j) :
          IF result[j] # "none"
          THEN Settle(j, r, [status |-> result[j], result |-> TRUE], 3)
          ELSE Settle(j, r, FailedRow, 2)
    OBVIOUS
  <1>3. r \in Rows /\ r.status # "absent" /\ FailedRow \in Rows /\ FailedRow.status # "absent"
    BY ProgressType DEF FailedRow, Rows, Terminal
  <1>4. /\ faults' \in Nat /\ heartbeat' \in [Jobs -> BOOLEAN] /\ row' \in [Jobs -> Rows]
        /\ row'[j].status # "absent" /\ \A i \in Jobs \ {j} : row'[i] = row[i]
    <2>1. CASE result[j] # "none"
      <3> DEFINE best == [status |-> result[j], result |-> TRUE]
      <3>1. best \in Rows /\ best.status # "absent"
        BY <2>1 DEF IInv, TypeOK, Rows, Terminal
      <3>2. Settle(j, r, best, 3)
        BY <1>2, <2>1
      <3> HIDE DEF best
      <3> QED BY <1>3, <3>1, <3>2, SettleType DEF IInv
    <2>2. CASE result[j] = "none"
      BY <1>2, <1>3, <2>2, SettleType DEF IInv
    <2> QED BY <2>1, <2>2
  <1>5. TypeOK'
    BY <1>1, <1>4 DEF IInv, TypeOK, QueueTypeOK
  <1>6. FileInv'
    BY <1>4 DEF IInv, TypeOK, FileInv, Leave
  <1> QED BY <1>1, <1>5, <1>6 DEF IInv

-----------------------------------------------------------------------------
(* The steps that leave the lines and the semaphore alone. *)

LEMMA InvSpawned ==
  ASSUME IInv, NEW j \in Jobs, Spawned(j)
  PROVE  IInv'
PROOF
  <1> USE DEF Spawned, loopVars, fileVars, countVars
  <1>1. TypeOK'
    BY DEF IInv, TypeOK, TaskStates, Admitted, WorkerStates, Alive
  <1>2. FileInv'
    BY DEF IInv, TypeOK, FileInv
  <1>3. QueueInv'
    <2>1. Holders' = Holders
      BY DEF IInv, TypeOK, Holders, Admitted
    <2> QED BY <2>1, QueueUntouched DEF IInv, TypeOK
  <1> QED BY <1>1, <1>2, <1>3 DEF IInv

LEMMA InvPoll ==
  ASSUME IInv, NEW j \in Jobs, Poll(j) \/ PollKill(j)
  PROVE  IInv'
PROOF
  <1> USE DEF loopVars
  <1>1. PICK r \in AfterProgress(j) :
          /\ faults' = faults + ProgressFaults(j, r)
          /\ row' = [row EXCEPT ![j] = r]
    BY DEF Poll, PollKill
  <1>2. /\ task[j] = "watching"
        /\ unread' = [unread EXCEPT ![j] = FALSE]
        /\ UNCHANGED <<apiUp, loopVars, progress, result, heartbeat, restarts>>
        /\ \/ UNCHANGED <<task, worker>>
           \/ /\ worker' = [worker EXCEPT ![j] = "dead"]
              /\ task' = [task EXCEPT ![j] = "killing"]
    BY DEF Poll, PollKill
  <1>3. r \in Rows /\ r.status # "absent" /\ ProgressFaults(j, r) \in Nat
    BY <1>2, ProgressType
  <1>4. TypeOK'
    <2>1. task' \in [Jobs -> TaskStates] /\ worker' \in [Jobs -> WorkerStates]
      BY <1>2 DEF IInv, TypeOK, TaskStates, Admitted, WorkerStates
    <2>2. row' \in [Jobs -> Rows] /\ faults' \in Nat /\ unread' \in [Jobs -> BOOLEAN]
      BY <1>1, <1>2, <1>3 DEF IInv, TypeOK
    <2> QED BY <1>2, <2>1, <2>2 DEF IInv, TypeOK
  <1>5. FileInv'
    BY <1>1, <1>2, <1>3 DEF IInv, TypeOK, FileInv
  <1>6. QueueInv'
    <2>1. Holders' = Holders
      BY <1>2 DEF IInv, TypeOK, Holders, Admitted
    <2> QED BY <1>2, <2>1, QueueUntouched DEF IInv, TypeOK
  <1> QED BY <1>4, <1>5, <1>6 DEF IInv

LEMMA InvWorkerStep ==
  ASSUME IInv, NEW j \in Jobs, WorkerStep(j)
  PROVE  IInv'
PROOF
  <1> USE DEF loopVars, fileVars, countVars
  <1>1. /\ UNCHANGED <<apiUp, loopVars, task, row, countVars>>
        /\ worker' \in [Jobs -> WorkerStates]
        /\ heartbeat' \in [Jobs -> BOOLEAN]
        /\ result' \in [Jobs -> Terminal \cup {"none"}]
    BY DEF IInv, TypeOK, WorkerStep, Boot, Beat, Emit, Conclude, ConcludeUnseen,
           WriteResult, Exit, Die, WorkerStates, Alive, Beating, Terminal
  <1>2. \/ UNCHANGED <<progress, unread>>
        \/ \E s \in Running \cup Terminal :
             /\ progress' = [progress EXCEPT ![j] = s]
             /\ unread' = [unread EXCEPT ![j] = TRUE]
    BY DEF WorkerStep, Boot, Beat, Emit, Conclude, ConcludeUnseen, WriteResult, Exit, Die,
           Running, Terminal
  <1>3. /\ progress' \in [Jobs -> Running \cup Terminal \cup {"none"}]
        /\ unread' \in [Jobs -> BOOLEAN]
        /\ \A i \in Jobs : unread'[i] => progress'[i] # "none"
    BY <1>2 DEF IInv, TypeOK, FileInv, Running, Terminal
  <1>4. TypeOK' /\ FileInv'
    BY <1>1, <1>3 DEF IInv, TypeOK, FileInv
  <1>5. QueueInv'
    <2>1. Holders' = Holders
      BY <1>1 DEF Holders
    <2> QED BY <1>1, <2>1, QueueUntouched
  <1> QED BY <1>4, <1>5 DEF IInv

LEMMA InvSweep ==
  ASSUME IInv, Sweep
  PROVE  IInv'
PROOF
  <1> USE DEF Sweep, loopVars, fileVars, countVars
  <1>1. row' \in [Jobs -> Rows] /\ \A i \in Jobs : row'[i].status = "absent" => row[i].status = "absent"
    BY DEF IInv, TypeOK, Rows, Terminal
  <1>2. TypeOK' /\ FileInv'
    BY <1>1 DEF IInv, TypeOK, FileInv
  <1>3. QueueInv'
    <2>1. Holders' = Holders
      BY DEF Holders
    <2> QED BY <2>1, QueueUntouched
  <1> QED BY <1>2, <1>3 DEF IInv

(* A start changes the rows that are left running, or none. *)
LEMMA RestartRows ==
  ASSUME TypeOK, Restart
  PROVE  /\ apiUp' \in BOOLEAN /\ faults' \in Nat /\ faults <= faults'
         /\ row' \in [Jobs -> Rows]
         /\ \A i \in Jobs : \/ row'[i] = row[i]
                            \/ /\ row[i].status \in Running
                               /\ row'[i] = [row[i] EXCEPT !.status = "failed"]
PROOF
  <1>1. CASE InterruptedFailed /\ apiUp' = TRUE /\ UNCHANGED faults
    <2>1. \A i \in Jobs : row[i] \in Rows /\ [row[i] EXCEPT !.status = "failed"] \in Rows
      BY DEF TypeOK, Rows, Terminal
    <2>2. /\ row' \in [Jobs -> Rows]
          /\ \A i \in Jobs : row'[i] = IF row[i].status \in Running
                                       THEN [row[i] EXCEPT !.status = "failed"] ELSE row[i]
      BY <1>1, <2>1 DEF InterruptedFailed
    <2> QED BY <1>1, <2>2 DEF TypeOK
  <1>2. CASE UNCHANGED row /\ apiUp' \in BOOLEAN /\ faults' = faults + 1
    BY <1>2 DEF TypeOK
  <1> QED BY <1>1, <1>2 DEF Restart

LEMMA InvRestart ==
  ASSUME IInv, Restart
  PROVE  IInv'
PROOF
  <1> USE DEF loopVars
  <1>0. UNCHANGED <<loopVars, task, progress, unread, result, restarts>>
    BY DEF Restart
  <1>1. /\ row' \in [Jobs -> Rows] /\ apiUp' \in BOOLEAN /\ faults' \in Nat
        /\ \A i \in Jobs : row'[i].status = "absent" => row[i].status = "absent"
    BY RestartRows DEF IInv, TypeOK, Rows
  <1>2. worker' \in [Jobs -> WorkerStates] /\ heartbeat' \in [Jobs -> BOOLEAN]
    BY DEF Restart, CleanupOrphans, IInv, TypeOK, WorkerStates
  <1>3. TypeOK' /\ FileInv'
    BY <1>0, <1>1, <1>2 DEF IInv, TypeOK, FileInv
  <1>4. QueueInv'
    <2>1. Holders' = Holders
      BY <1>0 DEF Holders
    <2> QED BY <1>0, <2>1, QueueUntouched
  <1> QED BY <1>3, <1>4 DEF IInv

LEMMA InvStop ==
  ASSUME IInv, Stop
  PROVE  IInv'
PROOF
  <1> USE DEF Stop, fileVars
  <1>1. /\ task' \in [Jobs -> TaskStates]
        /\ \A i \in Jobs : /\ task'[i] \in {"none", "over", "lost"}
                           /\ task[i] = "none" => task'[i] = "none"
    BY DEF IInv, TypeOK, TaskStates
  <1>2. TypeOK'
    <2>1. <<>> \in Seq(Jobs) /\ 0 \in 0..Len(<<>>)
      BY EmptySeq
    <2>2. /\ ready' \in Seq(Jobs) /\ waiters' \in Seq(Jobs) /\ queued' \in Seq(Jobs)
          /\ woken' \in 0..Len(waiters')
      BY <2>1
    <2>3. permits' \in Nat /\ restarts' \in Nat /\ slot' \in Jobs \cup {NoJob}
      BY LimitAssumption DEF IInv, TypeOK
    <2>4. apiUp' \in BOOLEAN
      OBVIOUS
    <2> QED BY <1>1, <2>2, <2>3, <2>4 DEF IInv, TypeOK
  <1>3. FileInv'
    BY <1>1 DEF IInv, FileInv
  <1>4. Holders' = {} /\ ToSet(ready') = {} /\ ToSet(waiters') = {}
        /\ Len(ready') = 0 /\ Len(waiters') = 0
    BY <1>1, EmptySeq DEF Holders, Admitted, ToSet
  <1>5. LinesMatchTasks'
    BY <1>1, <1>4 DEF LinesMatchTasks, Injective
  <1>6. PermitsConserved' /\ WorkConserving' /\ QueueIsLine'
    BY <1>4, FS_EmptySet, LimitAssumption DEF PermitsConserved, WorkConserving, QueueIsLine
  <1> QED BY <1>2, <1>3, <1>5, <1>6 DEF IInv, QueueInv

LEMMA InvNext ==
  ASSUME IInv, [Next]_vars
  PROVE  IInv'
PROOF
  <1>1. ASSUME NEW j \in Jobs, Submit(j) \/ LoopStep(j) \/ Poll(j) \/ PollKill(j) \/ WorkerStep(j)
        PROVE  IInv'
    BY <1>1, InvSubmit, InvStartNow, InvStartQueued, InvResume, InvSpawned, InvSpawnFailed,
       InvReaped, InvWorkerGone, InvPoll, InvWorkerStep DEF LoopStep
  <1>2. CASE Sweep \/ Stop \/ Restart
    BY <1>2, InvSweep, InvStop, InvRestart
  <1>3. CASE UNCHANGED vars
    <2> USE <1>3 DEF vars, loopVars, fileVars, countVars
    <2>1. TypeOK' /\ FileInv'
      BY DEF IInv, TypeOK, FileInv
    <2>2. Holders' = Holders
      BY DEF Holders
    <2> QED BY <2>1, <2>2, QueueUntouched DEF IInv
  <1> QED BY <1>1, <1>2, <1>3 DEF Next

-----------------------------------------------------------------------------
(* The state of the runner always has its type: job_runner's lists hold    *)
(* job ids, every row and file a status that its writers can leave there.  *)
THEOREM TypeCorrect == Spec => []TypeOK
PROOF
  <1>1. IInv => TypeOK
    BY DEF IInv
  <1> QED BY <1>1, InvInit, InvNext, PTL DEF Spec

(* The semaphore neither loses nor duplicates a permit, over any number of *)
(* jobs, releases, wake-ups, late arrivals, exceptions and restarts.       *)
THEOREM PermitsAreConserved == Spec => []PermitsConserved
PROOF
  <1>1. IInv => PermitsConserved
    BY DEF IInv, QueueInv
  <1> QED BY <1>1, InvInit, InvNext, PTL DEF Spec

(* A free permit never stays free beside somebody who waits for one. *)
THEOREM NoIdlePermit == Spec => []WorkConserving
PROOF
  <1>1. IInv => WorkConserving
    BY DEF IInv, QueueInv
  <1> QED BY <1>1, InvInit, InvNext, PTL DEF Spec

(* The queue that /health and the job page show is the semaphore's line,   *)
(* and the lines agree with the tasks.                                     *)
THEOREM QueueIsExact == Spec => [](QueueIsLine /\ LinesMatchTasks)
PROOF
  <1>1. IInv => QueueIsLine /\ LinesMatchTasks
    BY DEF IInv, QueueInv
  <1> QED BY <1>1, InvInit, InvNext, PTL DEF Spec

-----------------------------------------------------------------------------
(* Rows.  The statement about one job, and the fact about the service. *)

RowOf(j) ==
  /\ task[j] \in {"none", "ready", "waiting", "spawning"} =>
       /\ worker[j] = "none" /\ progress[j] = "none" /\ result[j] = "none"
       /\ row[j].status \in {"absent", "pending"}
  /\ task[j] = "none" => row[j].status = "absent"
  /\ worker[j] \notin {"wrote", "exited", "dead"} => result[j] = "none"
  /\ task[j] \in {"watching", "killing"} /\ row[j].status = "failed" =>
       progress[j] = "failed"
  /\ progress[j] = "failed" =>
       /\ worker[j] \notin {"none", "booting", "running", "done"}
       /\ result[j] \in {"none", "failed"}
  /\ row[j].result => row[j].status \in Terminal /\ task[j] = "over"

NoTaskWhenDown == ~apiUp => \A j \in Jobs : task[j] \in {"none", "over", "lost"}

(* A job that none of a step's writes is about keeps its statement. *)
LEMMA RowOfOther ==
  ASSUME NEW j \in Jobs, RowOf(j), task'[j] = task[j], worker'[j] = worker[j],
         progress'[j] = progress[j], result'[j] = result[j], row'[j] = row[j]
  PROVE  RowOf(j)'
PROOF BY DEF RowOf

(* Every row after the closing writes says failed or what they were given. *)
LEMMA SettleRow ==
  ASSUME TypeOK, NEW j \in Jobs, NEW base, NEW best, NEW n \in Nat, Settle(j, base, best, n)
  PROVE  /\ row'[j] \in {base, best, FailedRow}
         /\ \A i \in Jobs \ {j} : row'[i] = row[i]
PROOF
  <1>1. PICK k \in 0..n :
          row' = [row EXCEPT ![j] = IF k = 0 THEN best ELSE IF k < n THEN FailedRow ELSE base]
    BY DEF Settle
  <1> QED BY <1>1 DEF TypeOK

(* The steps of the event loop. *)
LEMMA RowsLoop ==
  ASSUME IInv, RowFollowsWorker, NEW j \in Jobs,
         Submit(j) \/ LoopStep(j) \/ Poll(j) \/ PollKill(j)
  PROVE  /\ RowFollowsWorker'
         /\ \A i \in Jobs : /\ row[i].status = "failed" => row'[i].status = "failed"
                            /\ row[i].result => row'[i] = row[i]
PROOF
  <1> DEFINE Keeps(i) == /\ row[i].status = "failed" => row'[i].status = "failed"
                         /\ row[i].result => row'[i] = row[i]
  <1>1. (\A i \in Jobs : RowOf(i)) /\ NoTaskWhenDown
    BY DEF RowFollowsWorker, RowOf, NoTaskWhenDown
  <1>2. SUFFICES RowOf(j)' /\ Keeps(j)
                 /\ (\A i \in Jobs \ {j} : RowOf(i)' /\ Keeps(i))
                 /\ NoTaskWhenDown'
    BY DEF RowFollowsWorker, RowOf, NoTaskWhenDown
  <1>3. ASSUME \A i \in Jobs \ {j} : /\ task'[i] = task[i] /\ worker'[i] = worker[i]
                                     /\ progress'[i] = progress[i] /\ result'[i] = result[i]
                                     /\ row'[i] = row[i]
        PROVE  \A i \in Jobs \ {j} : RowOf(i)' /\ Keeps(i)
    BY <1>1, <1>3, RowOfOther
  <1>4. FailedRow.status = "failed" /\ FailedRow.result = FALSE
    BY DEF FailedRow
  <1>5. CASE Submit(j)
    <2> USE <1>5 DEF Submit, fileVars
    <2>1. RowOf(j)' /\ Keeps(j)
      BY <1>1 DEF RowOf, IInv, TypeOK, FileInv, Rows
    <2> QED BY <1>3, <2>1 DEF IInv, TypeOK, NoTaskWhenDown
  <1>6. CASE StartNow(j) \/ Resume(j)
    <2>1. task[j] \in {"ready", "waiting"}
      BY <1>6, TailOfLine, EmptySeq
         DEF StartNow, Resume, IInv, TypeOK, QueueInv, LinesMatchTasks
    <2>2. Enter(j) /\ UNCHANGED <<apiUp, worker, row>>
      BY <1>6 DEF StartNow, Resume
    <2>3. RowOf(j)' /\ Keeps(j)
      BY <1>1, <2>1, <2>2 DEF RowOf, Enter, IInv, TypeOK, Rows
    <2> QED BY <1>1, <1>3, <2>1, <2>2, <2>3 DEF Enter, IInv, TypeOK, NoTaskWhenDown
  <1>7. CASE StartQueued(j)
    <2> USE <1>7 DEF StartQueued, fileVars
    <2>1. task[j] = "ready"
      BY TailOfLine DEF IInv, TypeOK, QueueInv, LinesMatchTasks
    <2>2. RowOf(j)' /\ Keeps(j)
      BY <1>1, <2>1 DEF RowOf, IInv, TypeOK, Rows
    <2> QED BY <1>1, <1>3, <2>1, <2>2 DEF IInv, TypeOK, NoTaskWhenDown
  <1>8. CASE Spawned(j)
    <2> USE <1>8 DEF Spawned, fileVars
    <2>1. RowOf(j)' /\ Keeps(j)
      BY <1>1 DEF RowOf, IInv, TypeOK
    <2> QED BY <1>1, <1>3, <2>1 DEF IInv, TypeOK, NoTaskWhenDown
  <1>9. CASE SpawnFailed(j) \/ Reaped(j)
    <2>1. /\ task[j] \in Admitted
          /\ task' = [task EXCEPT ![j] = "over"]
          /\ UNCHANGED <<apiUp, worker, progress, result>>
          /\ row'[j] \in {row[j], FailedRow} /\ \A i \in Jobs \ {j} : row'[i] = row[i]
      BY <1>9, SettleRow DEF SpawnFailed, Reaped, Leave, Admitted, IInv
    <2>2. RowOf(j)' /\ Keeps(j)
      BY <1>1, <1>4, <2>1 DEF RowOf, IInv, TypeOK, Admitted
    <2> QED BY <1>1, <1>3, <2>1, <2>2 DEF IInv, TypeOK, NoTaskWhenDown, Admitted
  <1>10. CASE Poll(j) \/ PollKill(j)
    <2>1. PICK r \in AfterProgress(j) :
            /\ task[j] = "watching"
            /\ row' = [row EXCEPT ![j] = r]
            /\ UNCHANGED <<apiUp, progress, result>>
            /\ \/ UNCHANGED <<task, worker>>
               \/ /\ worker' = [worker EXCEPT ![j] = "dead"]
                  /\ task' = [task EXCEPT ![j] = "killing"]
      BY <1>10 DEF Poll, PollKill
    <2>2. /\ r.result = row[j].result
          /\ r.status = row[j].status \/ r.status = progress[j]
      BY DEF AfterProgress, IInv, TypeOK, Rows
    <2>3. RowOf(j)' /\ Keeps(j)
      BY <1>1, <2>1, <2>2 DEF RowOf, IInv, TypeOK, Rows
    <2> QED BY <1>1, <1>3, <2>1, <2>3 DEF IInv, TypeOK, NoTaskWhenDown
  <1>11. CASE WorkerGone(j)
    <2>1. PICK r \in AfterProgress(j) :
            IF result[j] # "none"
            THEN Settle(j, r, [status |-> result[j], result |-> TRUE], 3)
            ELSE Settle(j, r, FailedRow, 2)
      BY <1>11 DEF WorkerGone
    <2>2. /\ r.result = row[j].result
          /\ r.status = row[j].status \/ r.status = progress[j]
      BY DEF AfterProgress, IInv, TypeOK, Rows
    <2>3. /\ task[j] = "watching"
          /\ task' = [task EXCEPT ![j] = "over"]
          /\ UNCHANGED <<apiUp, worker, progress, result>>
      BY <1>11 DEF WorkerGone, Leave
    <2>4. /\ \/ row'[j] = r
             \/ row'[j] = FailedRow
             \/ result[j] # "none" /\ row'[j] = [status |-> result[j], result |-> TRUE]
          /\ \A i \in Jobs \ {j} : row'[i] = row[i]
      BY <2>1, SettleRow DEF IInv
    <2>5. RowOf(j)' /\ Keeps(j)
      BY <1>1, <1>4, <2>2, <2>3, <2>4 DEF RowOf, IInv, TypeOK, Rows, Terminal
    <2> QED BY <1>1, <1>3, <2>3, <2>4, <2>5 DEF IInv, TypeOK, NoTaskWhenDown
  <1> QED BY <1>5, <1>6, <1>7, <1>8, <1>9, <1>10, <1>11 DEF LoopStep

(* The worker's own steps, the sweep, and the stop and start of the API. *)
LEMMA RowsRest ==
  ASSUME IInv, RowFollowsWorker,
         (\E j \in Jobs : WorkerStep(j)) \/ Sweep \/ Stop \/ Restart \/ UNCHANGED vars
  PROVE  /\ RowFollowsWorker'
         /\ \A i \in Jobs : /\ row[i].status = "failed" => row'[i].status = "failed"
                            /\ row[i].result => row'[i] = row[i]
PROOF
  <1> DEFINE Keeps(i) == /\ row[i].status = "failed" => row'[i].status = "failed"
                         /\ row[i].result => row'[i] = row[i]
  <1> USE DEF loopVars, fileVars, countVars
  <1>1. (\A i \in Jobs : RowOf(i)) /\ NoTaskWhenDown
    BY DEF RowFollowsWorker, RowOf, NoTaskWhenDown
  <1>2. SUFFICES (\A i \in Jobs : RowOf(i)' /\ Keeps(i)) /\ NoTaskWhenDown'
    BY DEF RowFollowsWorker, RowOf, NoTaskWhenDown
  <1>3. ASSUME NEW j \in Jobs, WorkerStep(j)
        PROVE  (\A i \in Jobs : RowOf(i)' /\ Keeps(i)) /\ NoTaskWhenDown'
    <2>1. UNCHANGED <<apiUp, task, row>>
      BY <1>3 DEF WorkerStep, Boot, Beat, Emit, Conclude, ConcludeUnseen, WriteResult, Exit, Die
    <2>2. \A i \in Jobs \ {j} : worker'[i] = worker[i] /\ progress'[i] = progress[i] /\ result'[i] = result[i]
      BY <1>3 DEF WorkerStep, Boot, Beat, Emit, Conclude, ConcludeUnseen, WriteResult, Exit,
                  Die, IInv, TypeOK
    <2>3. worker[j] # "none" /\ task[j] \notin {"none", "ready", "waiting", "spawning"}
      BY <1>1, <1>3 DEF RowOf, WorkerStep, Boot, Beat, Emit, Conclude, ConcludeUnseen,
                        WriteResult, Exit, Die, Alive, Beating, Terminal
    <2>4. \/ /\ progress'[j] = progress[j] /\ result'[j] = result[j]
             /\ \/ worker'[j] = worker[j] \/ worker'[j] \in {"dead", "exited"}
                \/ worker[j] = "running" /\ worker'[j] \in Terminal
                \/ worker[j] = "booting" /\ worker'[j] = "running"
          \/ /\ worker[j] = "running" /\ worker'[j] = "running"
             /\ progress'[j] \in Running /\ result'[j] = result[j]
          \/ /\ worker[j] = "running" /\ result'[j] = result[j]
             /\ progress'[j] \in Terminal /\ worker'[j] = progress'[j]
          \/ /\ worker[j] \in Terminal /\ result'[j] = worker[j]
             /\ progress'[j] = progress[j] /\ worker'[j] = "wrote"
      BY <1>3 DEF WorkerStep, Boot, Beat, Emit, Conclude, ConcludeUnseen, WriteResult, Exit,
                  Die, IInv, TypeOK,
                  Running, Terminal
    <2>5. worker[j] = "running" => result[j] = "none"
      BY <1>1 DEF RowOf
    <2>6. RowOf(j)'
      BY <1>1, <2>1, <2>3, <2>4, <2>5 DEF RowOf, Running, Terminal
    <2> QED BY <1>1, <2>1, <2>2, <2>6, RowOfOther DEF NoTaskWhenDown
  <1>4. CASE Sweep
    <2>1. \A i \in Jobs : row'[i] = row[i] \/ /\ Abandoned(i)
                                              /\ row'[i] = [row[i] EXCEPT !.status = "failed"]
      BY <1>4 DEF Sweep
    <2>2. \A i \in Jobs : RowOf(i)' /\ Keeps(i)
      BY <1>1, <1>4, <2>1 DEF Sweep, Abandoned, RowOf, IInv, TypeOK, Rows, Terminal
    <2> QED BY <1>1, <1>4, <2>2 DEF Sweep, NoTaskWhenDown
  <1>5. CASE Stop
    <2> USE <1>5 DEF Stop
    <2>1. \A i \in Jobs : /\ task'[i] \in {"none", "over", "lost"}
                          /\ task'[i] = "none" => task[i] = "none"
                          /\ task[i] = "over" => task'[i] = "over"
      BY DEF IInv, TypeOK
    <2>2. \A i \in Jobs : RowOf(i)' /\ Keeps(i)
      BY <1>1, <2>1 DEF RowOf
    <2> QED BY <2>1, <2>2 DEF NoTaskWhenDown
  <1>6. CASE Restart
    <2>0. ~apiUp /\ UNCHANGED <<task, progress, result>>
      BY <1>6 DEF Restart
    <2>1. \A i \in Jobs : /\ task[i] \in {"none", "over", "lost"}
                          /\ row'[i] = row[i] \/ /\ row[i].status \in Running
                                                 /\ row'[i] = [row[i] EXCEPT !.status = "failed"]
      BY <1>1, <1>6, <2>0, RestartRows DEF NoTaskWhenDown, IInv
    <2>2. \A i \in Jobs : worker'[i] = worker[i] \/ (worker[i] # "none" /\ worker'[i] = "dead")
      BY <1>6 DEF Restart, CleanupOrphans, IInv, TypeOK, Alive, Beating
    <2>3. \A i \in Jobs : task[i] = "none" => row[i].status = "absent"
      BY <1>1 DEF RowOf
    <2>4. ASSUME NEW i \in Jobs
          PROVE  RowOf(i)' /\ Keeps(i)
      <3>1. RowOf(i) /\ row[i] \in Rows
        BY <1>1 DEF IInv, TypeOK
      <3>2. /\ task'[i] = task[i] /\ progress'[i] = progress[i] /\ result'[i] = result[i]
            /\ task[i] \in {"none", "over", "lost"}
            /\ task[i] = "none" => row'[i] = row[i] /\ worker'[i] = worker[i]
        BY <2>0, <2>1, <2>2, <2>3, <3>1 DEF RowOf, Running
      <3>3. CASE row'[i] = row[i]
        BY <2>2, <3>1, <3>2, <3>3 DEF RowOf
      <3>4. CASE row[i].status \in Running /\ row'[i] = [row[i] EXCEPT !.status = "failed"]
        BY <2>2, <3>1, <3>2, <3>4 DEF RowOf, Rows, Running, Terminal
      <3> QED BY <2>1, <3>3, <3>4
    <2> QED BY <2>0, <2>1, <2>4 DEF NoTaskWhenDown
  <1>7. CASE UNCHANGED vars
    BY <1>1, <1>7 DEF vars, RowOf, NoTaskWhenDown
  <1> QED BY <1>3, <1>4, <1>5, <1>6, <1>7

LEMMA RowsNext ==
  ASSUME IInv, RowFollowsWorker, [Next]_vars
  PROVE  /\ RowFollowsWorker'
         /\ \A i \in Jobs : /\ row[i].status = "failed" => row'[i].status = "failed"
                            /\ row[i].result => row'[i] = row[i]
PROOF BY RowsLoop, RowsRest DEF Next

LEMMA RowsInit == Init => RowFollowsWorker
PROOF BY DEF Init, RowFollowsWorker

(* Rows, files, workers and tasks of the jobs always tell the same story.  *)
THEOREM RowsAreTrue == Spec => []RowFollowsWorker
PROOF BY InvInit, InvNext, RowsInit, RowsNext, PTL DEF Spec

(* Neither a late progress record nor a late result nor the sweep revives  *)
(* a job that was failed.                                                  *)
THEOREM FailedStaysFailed == Spec => FailedIsFinal
PROOF
  <1>1. IInv /\ RowFollowsWorker /\ [Next]_vars =>
          [\A j \in Jobs : row[j].status = "failed" => row'[j].status = "failed"]_vars
    BY RowsNext
  <1> QED BY <1>1, InvInit, InvNext, RowsInit, RowsNext, PTL DEF Spec, FailedIsFinal

(* The row of a finished job is not written again by this component. *)
THEOREM ResultStays == Spec => ResultIsFinal
PROOF
  <1>1. IInv /\ RowFollowsWorker /\ [Next]_vars =>
          [\A j \in Jobs : row[j].result => row'[j] = row[j]]_vars
    BY RowsNext
  <1> QED BY <1>1, InvInit, InvNext, RowsInit, RowsNext, PTL DEF Spec, ResultIsFinal

-----------------------------------------------------------------------------
(* What run_job leaves behind, for every set of jobs, number of permits, of   *)
(* faults and of restarts: no process, a settled row, a free slot.  All of it *)
(* rests on the invariants above.                                             *)

Leaked(j)  == worker[j] \in Alive /\ task[j] \notin {"watching", "lost"}
Settled(j) == task[j] = "over" => /\ row[j].status \in Terminal
                                  /\ row[j].status = "done" => row[j].result /\ result[j] = "done"

(* The processes: a supervisor goes when its worker is gone or was killed.   *)
LEMMA NobodyLeaks ==
  ASSUME IInv, RowFollowsWorker, NoLeakedWorker, [Next]_vars
  PROVE  NoLeakedWorker'
PROOF
  <1> USE DEF loopVars, fileVars, countVars
  <1>1. \A j \in Jobs : ~Leaked(j)
    BY DEF NoLeakedWorker, Leaked
  <1>2. SUFFICES \A j \in Jobs : ~Leaked(j)'
    BY DEF NoLeakedWorker, Leaked
  <1>3. \A j \in Jobs : task[j] \in {"none", "ready", "waiting", "spawning"} => worker[j] = "none"
    BY DEF RowFollowsWorker
  <1>4. ASSUME NEW j \in Jobs, Submit(j) \/ LoopStep(j) \/ Poll(j) \/ PollKill(j)
        PROVE  \A i \in Jobs : ~Leaked(i)'
    <2>1. \A i \in Jobs \ {j} : worker'[i] = worker[i] /\ task'[i] = task[i]
      BY <1>4 DEF Submit, LoopStep, StartNow, StartQueued, Resume, Enter, Spawned, SpawnFailed,
                  Reaped, WorkerGone, Leave, Poll, PollKill, IInv, TypeOK
    <2>2. \/ task'[j] = "watching"
          \/ task'[j] = task[j] /\ worker'[j] = worker[j]
          \/ worker'[j] = "dead"
          \/ worker'[j] = worker[j] /\ worker[j] \in {"none", "exited", "dead"}
          \/ worker'[j] = worker[j] /\ task[j] = "killing"
      <3>1. CASE Submit(j)
        BY <1>3, <3>1 DEF Submit, IInv, FileInv, TypeOK
      <3>2. CASE StartNow(j) \/ StartQueued(j) \/ Resume(j)
        <4>1. task[j] \in {"ready", "waiting"}
          BY <3>2, RemoveHead
             DEF StartNow, StartQueued, Resume, IInv, TypeOK, QueueInv, LinesMatchTasks, ToSet
        <4> QED BY <1>3, <3>2, <4>1 DEF StartNow, StartQueued, Resume
      <3>3. CASE Spawned(j)
        BY <3>3 DEF Spawned, IInv, TypeOK
      <3>4. CASE SpawnFailed(j) \/ Reaped(j)
        BY <1>3, <3>4 DEF SpawnFailed, Reaped
      <3>5. CASE WorkerGone(j)
        BY <3>5 DEF WorkerGone
      <3>6. CASE Poll(j) \/ PollKill(j)
        BY <3>6 DEF Poll, PollKill, IInv, TypeOK
      <3> QED BY <1>4, <3>1, <3>2, <3>3, <3>4, <3>5, <3>6 DEF LoopStep
    <2>3. ~Leaked(j)'
      BY <1>1, <2>2 DEF Leaked, Alive, Beating
    <2> QED BY <1>1, <2>1, <2>3 DEF Leaked
  <1>5. ASSUME NEW j \in Jobs, WorkerStep(j)
        PROVE  \A i \in Jobs : ~Leaked(i)'
    <2>1. UNCHANGED task /\ worker[j] \in Alive
      BY <1>5 DEF WorkerStep, Boot, Beat, Emit, Conclude, ConcludeUnseen, WriteResult, Exit, Die,
                  Alive, Beating, Terminal
    <2>2. \A i \in Jobs \ {j} : worker'[i] = worker[i]
      BY <1>5 DEF WorkerStep, Boot, Beat, Emit, Conclude, ConcludeUnseen, WriteResult, Exit, Die,
                  IInv, TypeOK
    <2> QED BY <1>1, <2>1, <2>2 DEF Leaked
  <1>6. CASE Sweep
    BY <1>1, <1>6 DEF Sweep, Leaked
  <1>7. CASE Stop
    BY <1>1, <1>3, <1>7 DEF Stop, Leaked, Alive, Beating, IInv, TypeOK, TaskStates, Admitted
  <1>8. CASE Restart
    <2>1. \A i \in Jobs : worker'[i] \in {worker[i], "dead"}
      BY <1>8 DEF Restart, CleanupOrphans, IInv, TypeOK
    <2> QED BY <1>1, <1>8, <2>1 DEF Restart, Leaked, Alive, Beating
  <1>9. CASE UNCHANGED vars
    BY <1>1, <1>9 DEF vars, Leaked
  <1> QED BY <1>4, <1>5, <1>6, <1>7, <1>8, <1>9 DEF Next

(* run_job never returns, not even by an exception, while its process lives. *)
THEOREM NoWorkerLeaks == Spec => []NoLeakedWorker
PROOF
  <1>1. Init => NoLeakedWorker
    BY DEF Init, NoLeakedWorker, Alive, Beating
  <1> QED BY <1>1, InvInit, InvNext, RowsInit, RowsNext, NobodyLeaks, PTL DEF Spec

-----------------------------------------------------------------------------
(* The closing writes: without a fault the row is what they were given.      *)
LEMMA SettledWithoutFault ==
  ASSUME TypeOK, NEW j \in Jobs, NEW base, NEW best, NEW n \in Nat,
         Settle(j, base, best, n), faults' = 0
  PROVE  faults = 0 /\ row'[j] = best /\ \A i \in Jobs \ {j} : row'[i] = row[i]
PROOF
  <1>1. PICK k \in 0..n :
          /\ faults' = faults + k
          /\ row' = [row EXCEPT ![j] = IF k = 0 THEN best ELSE IF k < n THEN FailedRow ELSE base]
    BY DEF Settle
  <1>2. faults = 0 /\ k = 0
    BY <1>1 DEF TypeOK
  <1> QED BY <1>1, <1>2 DEF TypeOK

LEMMA NobodyIsLeftOpen ==
  ASSUME IInv, RowFollowsWorker, NoLeakedWorker, OverIsSettled, [Next]_vars
  PROVE  OverIsSettled'
PROOF
  <1> USE DEF loopVars, fileVars, countVars
  <1>1. SUFFICES ASSUME faults' = 0
                 PROVE  \A i \in Jobs : Settled(i)'
    BY DEF OverIsSettled, Settled
  <1>2. faults = 0 => \A i \in Jobs : Settled(i)
    BY DEF OverIsSettled, Settled
  <1>3. ASSUME NEW j \in Jobs, Submit(j) \/ StartNow(j) \/ StartQueued(j) \/ Resume(j) \/ Spawned(j)
        PROVE  \A i \in Jobs : Settled(i)'
    <2>1. faults = 0 /\ task'[j] # "over"
      BY <1>1, <1>3 DEF Submit, StartNow, StartQueued, Resume, Enter, Spawned, IInv, TypeOK
    <2>2. \A i \in Jobs \ {j} : task'[i] = task[i] /\ row'[i] = row[i] /\ result'[i] = result[i]
      BY <1>3 DEF Submit, StartNow, StartQueued, Resume, Enter, Spawned, IInv, TypeOK
    <2> QED BY <1>2, <2>1, <2>2 DEF Settled
  <1>4. ASSUME NEW j \in Jobs, SpawnFailed(j) \/ Reaped(j)
        PROVE  \A i \in Jobs : Settled(i)'
    <2>1. UNCHANGED result /\ \A i \in Jobs \ {j} : task'[i] = task[i]
      BY <1>4 DEF SpawnFailed, Reaped, Leave, IInv, TypeOK
    <2>2. faults = 0 /\ row'[j] = FailedRow /\ \A i \in Jobs \ {j} : row'[i] = row[i]
      BY <1>1, <1>4, SettledWithoutFault DEF SpawnFailed, Reaped, IInv
    <2> QED BY <1>2, <2>1, <2>2 DEF Settled, FailedRow, Terminal
  <1>5. ASSUME NEW j \in Jobs, WorkerGone(j)
        PROVE  \A i \in Jobs : Settled(i)'
    <2>1. UNCHANGED result /\ \A i \in Jobs \ {j} : task'[i] = task[i]
      BY <1>5 DEF WorkerGone, Leave, IInv, TypeOK
    <2>2. PICK r \in AfterProgress(j) :
            IF result[j] # "none"
            THEN Settle(j, r, [status |-> result[j], result |-> TRUE], 3)
            ELSE Settle(j, r, FailedRow, 2)
      BY <1>5 DEF WorkerGone
    <2>3. /\ faults = 0 /\ \A i \in Jobs \ {j} : row'[i] = row[i]
          /\ row'[j] = IF result[j] # "none" THEN [status |-> result[j], result |-> TRUE]
                                             ELSE FailedRow
      BY <1>1, <2>2, SettledWithoutFault DEF IInv
    <2>4. Settled(j)'
      BY <2>1, <2>3 DEF Settled, FailedRow, Terminal, IInv, TypeOK
    <2> QED BY <1>2, <2>1, <2>3, <2>4 DEF Settled
  <1>6. ASSUME NEW j \in Jobs, Poll(j) \/ PollKill(j)
        PROVE  \A i \in Jobs : Settled(i)'
    <2>1. PICK r \in AfterProgress(j) : /\ faults' = faults + ProgressFaults(j, r)
                                        /\ row' = [row EXCEPT ![j] = r]
      BY <1>6 DEF Poll, PollKill
    <2>2. faults = 0
      BY <1>1, <2>1 DEF ProgressFaults, IInv, TypeOK
    <2>3. /\ task'[j] # "over" /\ UNCHANGED result
          /\ \A i \in Jobs \ {j} : task'[i] = task[i]
      BY <1>6 DEF Poll, PollKill, IInv, TypeOK
    <2> QED BY <1>2, <2>1, <2>2, <2>3 DEF Settled, IInv, TypeOK
  <1>7. ASSUME NEW j \in Jobs, WorkerStep(j)
        PROVE  \A i \in Jobs : Settled(i)'
    <2>1. UNCHANGED <<task, row, faults>> /\ worker[j] \in Alive
      BY <1>7 DEF WorkerStep, Boot, Beat, Emit, Conclude, ConcludeUnseen, WriteResult, Exit, Die,
                  Alive, Beating, Terminal
    <2>2. task[j] # "over"
      BY <2>1 DEF NoLeakedWorker
    <2>3. \A i \in Jobs \ {j} : result'[i] = result[i]
      BY <1>7 DEF WorkerStep, Boot, Beat, Emit, Conclude, ConcludeUnseen, WriteResult, Exit, Die,
                  IInv, TypeOK
    <2> QED BY <1>1, <1>2, <2>1, <2>2, <2>3 DEF Settled
  <1>8. CASE Sweep
    <2>1. \A i \in Jobs : row'[i] = row[i] \/ row[i].status = "running"
      BY <1>8 DEF Sweep, Abandoned
    <2> QED BY <1>1, <1>2, <1>8, <2>1 DEF Sweep, Settled, Terminal
  <1>9. CASE Stop
    <2>1. \A i \in Jobs : task'[i] = "over" => task[i] = "over"
      BY <1>9 DEF Stop
    <2> QED BY <1>1, <1>2, <1>9, <2>1 DEF Stop, Settled
  <1>10. CASE Restart
    <2>1. UNCHANGED <<task, result>>
      BY <1>10 DEF Restart
    <2>2. TypeOK
      BY DEF IInv
    <2>3. faults <= faults' /\ \A i \in Jobs : row'[i] = row[i] \/ row[i].status \in Running
      BY <1>10, <2>2, RestartRows
    <2>4. faults = 0
      BY <1>1, <2>2, <2>3 DEF TypeOK
    <2> QED BY <1>2, <2>1, <2>3, <2>4 DEF Settled, Terminal, Running
  <1>11. CASE UNCHANGED vars
    BY <1>1, <1>2, <1>11 DEF vars, Settled
  <1> QED BY <1>3, <1>4, <1>5, <1>6, <1>7, <1>8, <1>9, <1>10, <1>11 DEF Next, LoopStep

(* When no database write raised, a job whose run_job returned has a         *)
(* terminal row, and "done" comes with the result of its worker.             *)
THEOREM JobsAreSettled == Spec => []OverIsSettled
PROOF
  <1>1. Init => NoLeakedWorker /\ OverIsSettled
    BY DEF Init, NoLeakedWorker, OverIsSettled, Alive, Beating
  <1> QED BY <1>1, InvInit, InvNext, RowsInit, RowsNext, NobodyLeaks, NobodyIsLeftOpen, PTL DEF Spec

-----------------------------------------------------------------------------
(* The slot is cleared by whoever leaves, so that it is right when nobody    *)
(* else can be inside: with one permit.                                      *)
LEMMA SlotFollows ==
  ASSUME MaxConcurrency = 1, IInv, RunningSlotHonest, [Next]_vars
  PROVE  RunningSlotHonest'
PROOF
  <1> USE DEF loopVars, fileVars, countVars
  <1>1. ASSUME NEW j \in Jobs, StartNow(j) \/ Resume(j)
        PROVE  RunningSlotHonest'
    <2>1. slot' = j /\ task'[j] = "spawning"
      BY <1>1 DEF StartNow, Resume, Enter, IInv, TypeOK
    <2> QED BY <2>1, JobsAssumption DEF RunningSlotHonest, Holders, Admitted
  <1>2. ASSUME NEW j \in Jobs, SpawnFailed(j) \/ Reaped(j) \/ WorkerGone(j)
        PROVE  RunningSlotHonest'
    <2>1. task[j] \in Admitted /\ task' = [task EXCEPT ![j] = "over"] /\ slot' = NoJob
      BY <1>2 DEF SpawnFailed, Reaped, WorkerGone, Leave, Admitted
    <2>2. /\ Cardinality(Holders) \in Nat
          /\ Cardinality(Holders') = Cardinality(Holders) - 1
      BY <2>1, HolderLeaves DEF IInv, Admitted
    <2>3. IsFiniteSet(Holders')
      BY JobsAssumption, FS_Subset DEF Holders
    <2>4. Cardinality(Holders) <= 1
      BY <2>2 DEF IInv, TypeOK, QueueInv, PermitsConserved
    <2>5. Cardinality(Holders') \in Nat
      BY <2>3, FS_CardinalityType
    <2>6. Cardinality(Holders') = 0
      BY <2>2, <2>4, <2>5
    <2>7. Holders' = {}
      BY <2>3, <2>6, FS_EmptySet
    <2> QED BY <2>1, <2>7 DEF RunningSlotHonest
  <1>3. ASSUME NEW j \in Jobs, Submit(j) \/ StartQueued(j) \/ Spawned(j) \/ Poll(j) \/ PollKill(j) \/ WorkerStep(j)
        PROVE  RunningSlotHonest'
    <2>1. UNCHANGED slot
      BY <1>3 DEF Submit, StartQueued, Spawned, Poll, PollKill, WorkerStep, Boot, Beat, Emit,
                  Conclude, ConcludeUnseen, WriteResult, Exit, Die
    <2>2. \/ UNCHANGED task
          \/ task[j] \in Admitted /\ \E t \in Admitted : task' = [task EXCEPT ![j] = t]
          \/ task[j] \notin Admitted /\ \E t \in {"ready", "waiting"} : task' = [task EXCEPT ![j] = t]
      <3>1. CASE Submit(j)
        BY <3>1 DEF Submit, IInv, FileInv, Admitted
      <3>2. CASE StartQueued(j)
        <4>1. task[j] = "ready"
          BY <3>2, RemoveHead DEF StartQueued, IInv, TypeOK, QueueInv, LinesMatchTasks, ToSet
        <4> QED BY <3>2, <4>1 DEF StartQueued, Admitted
      <3>3. CASE Spawned(j) \/ PollKill(j)
        BY <3>3 DEF Spawned, PollKill, Admitted
      <3>4. CASE Poll(j) \/ WorkerStep(j)
        BY <3>4 DEF Poll, WorkerStep, Boot, Beat, Emit, Conclude, ConcludeUnseen, WriteResult,
                    Exit, Die
      <3> QED BY <1>3, <3>1, <3>2, <3>3, <3>4
    <2>3. Holders' = Holders
      BY <2>2 DEF Holders, Admitted, IInv, TypeOK
    <2> QED BY <2>1, <2>3 DEF RunningSlotHonest
  <1>4. CASE Stop
    BY <1>4 DEF Stop, RunningSlotHonest, Holders, Admitted
  <1>5. CASE Sweep \/ Restart \/ UNCHANGED vars
    BY <1>5 DEF Sweep, Restart, vars, RunningSlotHonest, Holders
  <1> QED BY <1>1, <1>2, <1>3, <1>4, <1>5 DEF Next, LoopStep

(* With one permit, /health says that a job runs exactly when one does.      *)
THEOREM SlotIsHonest ==
  ASSUME MaxConcurrency = 1
  PROVE  Spec => []RunningSlotHonest
PROOF
  <1>1. Init => RunningSlotHonest
    BY DEF Init, RunningSlotHonest, Holders, Admitted
  <1>2. IInv /\ RunningSlotHonest /\ [Next]_vars => RunningSlotHonest'
    BY SlotFollows
  <1> QED BY <1>1, <1>2, InvInit, InvNext, PTL DEF Spec

-----------------------------------------------------------------------------
(* JobRunner implements BoundedExecutor.  The line is what is left of the    *)
(* semaphore's waiters behind those that were woken, and the tasks that were *)
(* not started; first come facts about such joined sequences, then one case  *)
(* per step of JobRunner.                                                    *)
Joined(w, k, r) == SubSeq(w, k + 1, Len(w)) \o r

(* A piece of a sequence: its type, its length, its elements.                *)
LEMMA Piece ==
  ASSUME NEW S, NEW w \in Seq(S), NEW k \in 0 .. Len(w), NEW n \in k .. Len(w)
  PROVE  /\ SubSeq(w, k + 1, n) \in Seq(S)
         /\ Len(SubSeq(w, k + 1, n)) = n - k
         /\ \A i \in 1 .. (n - k) : SubSeq(w, k + 1, n)[i] = w[k + i]
PROOF
  <1>1. Len(w) \in Nat /\ k \in Nat /\ n \in Nat /\ k <= n /\ n <= Len(w)
    BY LenProperties
  <1>2. \A i \in (k + 1) .. n : w[i] \in S
    BY <1>1, ElementOfSeq
  <1>3. k + 1 \in Int
    BY <1>1
  <1> DEFINE m == k + 1
  <1>4. /\ SubSeq(w, m, n) \in Seq(S)
        /\ Len(SubSeq(w, m, n)) = IF m <= n THEN n - m + 1 ELSE 0
        /\ \A i \in 1 .. n - m + 1 : SubSeq(w, m, n)[i] = w[m + i - 1]
    <2>1. m \in Int /\ n \in Int /\ \A i \in m .. n : w[i] \in S
      BY <1>1, <1>2
    <2> HIDE DEF m
    <2> QED BY <2>1, SubSeqProperties
  <1>5. n - m + 1 = n - k /\ (IF m <= n THEN n - m + 1 ELSE 0) = n - k
    BY <1>1
  <1>6. \A i \in 1 .. (n - k) : m + i - 1 = k + i
    BY <1>1
  <1> QED BY <1>4, <1>5, <1>6

(* Dropping the first part of a concatenation leaves the second.             *)
LEMMA DropFirst ==
  ASSUME NEW S, NEW u \in Seq(S), NEW v \in Seq(S), NEW x, x = u \o v
  PROVE  SubSeq(x, Len(u) + 1, Len(x)) = v
PROOF
  <1>1. Len(u) \in Nat /\ Len(v) \in Nat /\ Len(u \o v) = Len(u) + Len(v)
    BY LenProperties, ConcatProperties
  <1>2. CASE v = <<>>
    <2>1. Len(v) = 0
      BY <1>2
    <2>2. Len(u \o v) < Len(u) + 1 /\ Len(u \o v) \in Int /\ Len(u) + 1 \in Int
      BY <1>1, <2>1
    <2> QED BY <1>2, <2>2, SubSeqEmpty
  <1>3. CASE v # <<>>
    <2>1. Len(v) \in Nat \ {0}
      BY <1>3, EmptySeq
    <2>2. /\ Len(u) + 1 \in Len(u) + 1 .. Len(u) + Len(v)
          /\ Len(u) + Len(v) \in Len(u) + 1 .. Len(u) + Len(v)
      BY <1>1, <2>1
    <2>3. SubSeq(u \o v, Len(u) + 1, Len(u) + Len(v))
             = SubSeq(v, Len(u) + 1 - Len(u), Len(u) + Len(v) - Len(u))
      BY <2>2, SubSeqOfConcat2
    <2>4. Len(u) + 1 - Len(u) = 1 /\ Len(u) + Len(v) - Len(u) = Len(v)
      BY <1>1
    <2> QED BY <1>1, <2>3, <2>4, SubSeqFull
  <1> QED BY <1>2, <1>3

(* A task that was created stands at the end of the line.                    *)
LEMMA JoinedGrows ==
  ASSUME NEW S, NEW w \in Seq(S), NEW r \in Seq(S), NEW k \in 0 .. Len(w), NEW e \in S
  PROVE  Joined(w, k, Append(r, e)) = Append(Joined(w, k, r), e)
PROOF
  <1> DEFINE u == SubSeq(w, k + 1, Len(w))
  <1>1. u \in Seq(S) /\ <<e>> \in Seq(S)
    BY Piece, LenProperties
  <1> HIDE DEF u
  <1>2. u \o r \in Seq(S)
    BY <1>1, ConcatProperties
  <1>3. Append(r, e) = r \o <<e>> /\ Append(u \o r, e) = (u \o r) \o <<e>>
    BY <1>2, AppendIsConcat
  <1>4. (u \o r) \o <<e>> = u \o (r \o <<e>>)
    BY <1>1, ConcatAssociative
  <1> QED BY <1>3, <1>4 DEF Joined, u

(* A task that starts and has to wait keeps its place.                       *)
LEMMA JoinedMoves ==
  ASSUME NEW S, NEW w \in Seq(S), NEW r \in Seq(S), r # <<>>, NEW k \in 0 .. Len(w)
  PROVE  Joined(Append(w, Head(r)), k, Tail(r)) = Joined(w, k, r)
PROOF
  <1> DEFINE u == SubSeq(w, k + 1, Len(w))
             f == SubSeq(w, 1, k)
             h == Head(r)
  <1>1. Len(w) \in Nat /\ k \in Nat /\ k <= Len(w) /\ Len(r) \in Nat \ {0}
    BY LenProperties, EmptySeq
  <1>2. /\ h \in S /\ Tail(r) \in Seq(S) /\ <<h>> \in Seq(S) /\ h = r[1]
        /\ r = <<h>> \o Tail(r)
    <2>1. h \in S /\ Tail(r) \in Seq(S) /\ h = r[1]
      BY <1>1, HeadTailProperties
    <2>2. SubSeq(r, 1, Len(r)) = <<r[1]>> \o SubSeq(r, 1 + 1, Len(r))
      BY <1>1, SubSeqRecursiveFirst
    <2> QED BY <2>1, <2>2, SubSeqFull, TailIsSubSeq
  <1>3. u \in Seq(S)
    BY <1>1, Piece
  <1>4. f \in Seq(S) /\ Len(f) = k
    <2>1. 0 \in 0 .. Len(w) /\ k \in 0 .. Len(w) /\ 0 + 1 = 1 /\ k - 0 = k
      BY <1>1
    <2> QED BY <2>1, Piece
  <1>5. w = f \o u
    <2>1. 1 \in 1 .. Len(w) + 1 /\ k \in 1 - 1 .. Len(w) /\ Len(w) \in k .. Len(w)
      BY <1>1
    <2>2. SubSeq(w, 1, k) \o SubSeq(w, k + 1, Len(w)) = SubSeq(w, 1, Len(w))
      BY <2>1, ConcatAdjacentSubSeq
    <2> QED BY <2>2, SubSeqFull
  <1> HIDE DEF u, f, h
  <1>6. Append(w, h) = f \o (u \o <<h>>)
    <2>1. Append(w, h) = (f \o u) \o <<h>>
      BY <1>2, <1>5, AppendIsConcat
    <2>2. (f \o u) \o <<h>> = f \o (u \o <<h>>)
      BY <1>2, <1>3, <1>4, ConcatAssociative
    <2> QED BY <2>1, <2>2
  <1>7. u \o <<h>> \in Seq(S)
    BY <1>2, <1>3, ConcatProperties
  <1>8. SubSeq(Append(w, h), k + 1, Len(Append(w, h))) = u \o <<h>>
    BY <1>4, <1>6, <1>7, DropFirst
  <1>9. (u \o <<h>>) \o Tail(r) = u \o (<<h>> \o Tail(r))
    BY <1>2, <1>3, ConcatAssociative
  <1> QED BY <1>2, <1>8, <1>9 DEF Joined, u, h

(* Waking n more waiters takes n from the front of the line.                 *)
LEMMA JoinedAdvances ==
  ASSUME NEW S, NEW w \in Seq(S), NEW r \in Seq(S), NEW k \in 0 .. Len(w), NEW n \in 0 .. (Len(w) - k)
  PROVE  /\ Joined(w, k + n, r) = SubSeq(Joined(w, k, r), n + 1, Len(Joined(w, k, r)))
         /\ n \in 0 .. Len(Joined(w, k, r))
         /\ \A i \in 1 .. n : Joined(w, k, r)[i] = w[k + i]
PROOF
  <1> DEFINE a == SubSeq(w, k + 1, k + n)
             b == SubSeq(w, k + n + 1, Len(w))
  <1>1. /\ Len(w) \in Nat /\ k \in Nat /\ n \in Nat /\ Len(r) \in Nat
        /\ k + n \in k .. Len(w) /\ k + n \in 0 .. Len(w) /\ Len(w) \in (k + n) .. Len(w)
        /\ (k + n) - k = n
    BY LenProperties
  <1>2. a \in Seq(S) /\ Len(a) = n /\ \A i \in 1 .. n : a[i] = w[k + i]
    BY <1>1, Piece
  <1>3. b \in Seq(S)
    BY <1>1, Piece
  <1>4. SubSeq(w, k + 1, Len(w)) = a \o b
    <2> DEFINE m == k + 1
               i == k + n
    <2>1. m \in 1 .. Len(w) + 1 /\ i \in m - 1 .. Len(w) /\ Len(w) \in i .. Len(w)
      BY <1>1
    <2> HIDE DEF m, i
    <2>2. SubSeq(w, m, i) \o SubSeq(w, i + 1, Len(w)) = SubSeq(w, m, Len(w))
      BY <2>1, ConcatAdjacentSubSeq
    <2> QED BY <2>2 DEF m, i
  <1> HIDE DEF a, b
  <1>5. b \o r \in Seq(S) /\ (a \o b) \o r = a \o (b \o r)
    BY <1>2, <1>3, ConcatAssociative, ConcatProperties
  <1>6. Joined(w, k, r) = a \o (b \o r) /\ Joined(w, k + n, r) = b \o r
    BY <1>4, <1>5 DEF Joined, b
  <1>7. SubSeq(Joined(w, k, r), n + 1, Len(Joined(w, k, r))) = b \o r
    <2> DEFINE c == b \o r
               x == Joined(w, k, r)
    <2>1. a \in Seq(S) /\ c \in Seq(S) /\ x = a \o c
      BY <1>2, <1>5, <1>6
    <2> HIDE DEF c, x
    <2>2. SubSeq(x, Len(a) + 1, Len(x)) = c
      BY <2>1, DropFirst
    <2> QED BY <1>2, <2>2 DEF c, x
  <1>8. /\ Len(a \o (b \o r)) = Len(a) + Len(b \o r) /\ Len(b \o r) \in Nat
        /\ \A i \in 1 .. Len(a) + Len(b \o r) :
             (a \o (b \o r))[i] = IF i <= Len(a) THEN a[i] ELSE (b \o r)[i - Len(a)]
    BY <1>2, <1>5, ConcatProperties, LenProperties
  <1>9. n \in 0 .. Len(Joined(w, k, r))
    BY <1>1, <1>2, <1>6, <1>8
  <1>10. \A i \in 1 .. n : (a \o (b \o r))[i] = w[k + i]
    BY <1>1, <1>2, <1>8
  <1> QED BY <1>6, <1>7, <1>9, <1>10

(* The first waiter leaving does not change who stands behind the woken.     *)
LEMMA JoinedTail ==
  ASSUME NEW S, NEW w \in Seq(S), NEW r, w # <<>>, NEW k \in 1 .. Len(w)
  PROVE  Joined(Tail(w), k - 1, r) = Joined(w, k, r)
PROOF
  <1> DEFINE f == SubSeq(w, 1 + 1, k)
             u == SubSeq(w, k + 1, Len(w))
  <1>1. /\ Len(w) \in Nat /\ k \in Nat /\ 1 \in 0 .. Len(w) /\ k \in 1 .. Len(w) /\ k \in 0 .. Len(w)
        /\ Len(w) \in k .. Len(w) /\ (k - 1) + 1 = k
    BY LenProperties
  <1>2. f \in Seq(S) /\ Len(f) = k - 1 /\ u \in Seq(S)
    BY <1>1, Piece
  <1>3. Tail(w) = f \o u
    <2>1. 1 + 1 \in 1 .. Len(w) + 1 /\ k \in (1 + 1) - 1 .. Len(w)
      BY <1>1
    <2>2. f \o u = SubSeq(w, 1 + 1, Len(w))
      BY <1>1, <2>1, ConcatAdjacentSubSeq
    <2>3. Tail(w) = SubSeq(w, 2, Len(w)) /\ 1 + 1 = 2
      BY TailIsSubSeq
    <2> QED BY <2>2, <2>3
  <1> HIDE DEF f, u
  <1>4. SubSeq(Tail(w), (k - 1) + 1, Len(Tail(w))) = u
    BY <1>2, <1>3, DropFirst
  <1> QED BY <1>4 DEF Joined, u

-----------------------------------------------------------------------------
(* The first k elements of a sequence add at most k to a set.                *)
LEMMA FrontCount ==
  ASSUME NEW H, IsFiniteSet(H), NEW w, NEW k \in Nat
  PROVE  Cardinality(H \cup {w[i] : i \in 1 .. k}) <= Cardinality(H) + k
PROOF
  <1> DEFINE F == {w[i] : i \in 1 .. k}
             f == [i \in 1 .. k |-> w[i]]
  <1>1. IsFiniteSet(1 .. k) /\ Cardinality(1 .. k) = k
    BY FS_Interval
  <1>2. f \in Surjection(1 .. k, F)
    BY DEF Surjection
  <1> HIDE DEF f, F
  <1>3. IsFiniteSet(F) /\ Cardinality(F) <= k
    BY <1>1, <1>2, FS_Surjection
  <1>4. /\ Cardinality(H) \in Nat /\ Cardinality(F) \in Nat
        /\ Cardinality(H \cup F) = Cardinality(H) + Cardinality(F) - Cardinality(H \cap F)
    BY <1>3, FS_Union, FS_CardinalityType
  <1>5. IsFiniteSet(H \cap F)
    BY FS_Subset
  <1>6. Cardinality(H \cap F) \in Nat
    BY <1>5, FS_CardinalityType
  <1> QED BY <1>3, <1>4, <1>6 DEF F

(* What IInv says of the two sequences the line is joined from.              *)
LEMMA LineType ==
  ASSUME IInv
  PROVE  /\ waiters \in Seq(Jobs) /\ ready \in Seq(Jobs) /\ woken \in 0 .. Len(waiters)
         /\ Len(waiters) \in Nat /\ woken \in Nat /\ permits \in Nat
         /\ Line = Joined(waiters, woken, ready)
PROOF BY LenProperties DEF IInv, TypeOK, Line, Joined

(* A step that maps to Advance: places are left, the front takes them.  That *)
(* no more are active than there are permits follows from the invariant.     *)
LEMMA MapsToAdvance ==
  ASSUME IInv, IInv', NEW gone \in SUBSET Active, NEW n \in 0 .. Len(Line),
         Active' = (Active \ gone) \cup {Line[i] : i \in 1 .. n},
         Line' = SubSeq(Line, n + 1, Len(Line))
  PROVE  Executor!Next
PROOF
  <1>1. Holders' \in SUBSET Jobs
    BY DEF Holders
  <1>2. IsFiniteSet(Holders')
    BY <1>1, JobsAssumption, FS_Subset
  <1>3. woken' \in Nat /\ permits' \in Nat
    BY LenProperties DEF IInv, TypeOK
  <1>4. Cardinality(Active') <= Cardinality(Holders') + woken'
    BY <1>2, <1>3, FrontCount DEF Active
  <1>5. Cardinality(Holders') \in Nat /\ permits' + woken' + Cardinality(Holders') = MaxConcurrency
    BY <1>2, FS_CardinalityType DEF IInv, QueueInv, PermitsConserved
  <1>6. Active' \in SUBSET Jobs
    BY <1>1, ElementOfSeq DEF IInv, TypeOK, Active
  <1>7. Cardinality(Active') \in Nat
    BY <1>6, JobsAssumption, FS_Subset, FS_CardinalityType
  <1>8. Cardinality(Active') <= MaxConcurrency
    BY <1>3, <1>4, <1>5, <1>7, LimitAssumption
  <1>9. Executor!Advance(gone, n)
    BY <1>8 DEF Executor!Advance, Executor!Front, Executor!Cardinality, Cardinality
  <1> QED BY <1>9 DEF Executor!Next

LEMMA MapSubmit ==
  ASSUME IInv, NEW j \in Jobs, Submit(j)
  PROVE  Executor!Next
PROOF
  <1>1. /\ ready' = Append(ready, j) /\ UNCHANGED <<waiters, woken>>
        /\ task' = [task EXCEPT ![j] = "ready"] /\ task[j] = "none"
    BY DEF IInv, FileInv, Submit
  <1>2. Line' = Joined(waiters, woken, Append(ready, j))
    BY <1>1 DEF Line, Joined
  <1>3. Line' = Append(Line, j)
    BY <1>2, LineType, JoinedGrows
  <1>4. Holders' = Holders
    BY <1>1 DEF IInv, TypeOK, Holders, Admitted
  <1>5. UNCHANGED Active
    BY <1>1, <1>4 DEF Active
  <1> QED BY <1>3, <1>5 DEF Executor!Next, Executor!Arrive

LEMMA MapStartNow ==
  ASSUME IInv, IInv', NEW j \in Jobs, StartNow(j)
  PROVE  Executor!Next
PROOF
  <1>1. /\ ready # <<>> /\ j = Head(ready) /\ waiters = <<>> /\ ready' = Tail(ready)
        /\ UNCHANGED <<waiters, woken>>
        /\ task' = [task EXCEPT ![j] = "spawning"]
    BY DEF StartNow, Locked, Enter
  <1>2. woken = 0 /\ Len(waiters) = 0
    BY <1>1, LineType
  <1>3. ready \in Seq(Jobs) /\ Tail(ready) \in Seq(Jobs) /\ Len(ready) \in Nat \ {0}
    BY <1>1, LineType, HeadTailProperties, EmptySeq
  <1>4. SubSeq(waiters, 0 + 1, Len(waiters)) = <<>>
    BY <1>2, SubSeqEmpty
  <1>5. Line = ready /\ Line' = Tail(ready)
    BY <1>1, <1>2, <1>3, <1>4, ConcatEmptySeq DEF Line
  <1>6. Tail(ready) = SubSeq(ready, 2, Len(ready)) /\ 1 + 1 = 2
    BY <1>1, <1>3, TailIsSubSeq
  <1>7. Line' = SubSeq(Line, 1 + 1, Len(Line)) /\ 1 \in 0 .. Len(Line)
    BY <1>3, <1>5, <1>6
  <1>8. {Line[i] : i \in 1 .. 1} = {j}
    BY <1>1, <1>3, <1>5
  <1>9. Holders' = Holders \cup {j}
    BY <1>1 DEF IInv, TypeOK, Holders, Admitted
  <1>10. Active' = (Active \ {}) \cup {j}
    BY <1>1, <1>9 DEF Active
  <1> QED BY <1>7, <1>8, <1>10, MapsToAdvance

LEMMA MapStartQueued ==
  ASSUME IInv, NEW j \in Jobs, StartQueued(j)
  PROVE  UNCHANGED <<Line, Active>>
PROOF
  <1>1. /\ ready # <<>> /\ j = Head(ready) /\ ready' = Tail(ready)
        /\ waiters' = Append(waiters, j) /\ UNCHANGED woken
        /\ task' = [task EXCEPT ![j] = "waiting"]
    BY DEF StartQueued
  <1>2. Line' = Joined(Append(waiters, Head(ready)), woken, Tail(ready))
    BY <1>1 DEF Line, Joined
  <1>3. UNCHANGED Line
    BY <1>1, <1>2, LineType, JoinedMoves
  <1>4. task[j] = "ready"
    BY <1>1, LineType, HeadTailProperties, TailOfLine DEF IInv, QueueInv, LinesMatchTasks
  <1>5. Holders' = Holders
    BY <1>1, <1>4 DEF IInv, TypeOK, Holders, Admitted
  <1>6. \A i \in 1 .. woken : waiters'[i] = waiters[i]
    BY <1>1, LineType, AppendProperties
  <1>7. UNCHANGED Active
    BY <1>1, <1>5, <1>6 DEF Active
  <1> QED BY <1>3, <1>7

LEMMA MapResume ==
  ASSUME IInv, IInv', NEW j \in Jobs, Resume(j)
  PROVE  Executor!Next
PROOF
  <1> DEFINE n == Min({permits, Len(waiters) - woken})
             m == woken + n
  <1>1. /\ woken > 0 /\ j = Head(waiters) /\ waiters' = Tail(waiters)
        /\ woken' = (woken - 1) + n /\ ready' = ready
        /\ task' = [task EXCEPT ![j] = "spawning"]
    BY DEF Resume, Enter
  <1>2. n \in 0 .. (Len(waiters) - woken)
    BY LineType, MinOfTwo
  <1> HIDE DEF n
  <1>3. /\ m \in 1 .. Len(waiters) /\ woken' = m - 1 /\ m \in Nat
    BY <1>1, <1>2, LineType
  <1>4. /\ waiters # <<>> /\ Len(Tail(waiters)) = Len(waiters) - 1
        /\ \A i \in 1 .. Len(waiters) - 1 : Tail(waiters)[i] = waiters[i + 1]
        /\ waiters[1] = j
    <2>1. waiters # <<>>
      BY <1>3
    <2> QED BY <1>1, <2>1, LineType, HeadTailProperties
  <1>5. Line' = Joined(waiters, m, ready)
    <2>1. Line' = Joined(Tail(waiters), m - 1, ready)
      BY <1>1, <1>3 DEF Line, Joined
    <2> HIDE DEF m
    <2> QED BY <1>3, <1>4, <2>1, LineType, JoinedTail
  <1>6. /\ Joined(waiters, m, ready) = SubSeq(Line, n + 1, Len(Line))
        /\ n \in 0 .. Len(Line)
        /\ {Line[i] : i \in 1 .. n} = {waiters[woken + i] : i \in 1 .. n}
    <2> DEFINE l == Joined(waiters, woken, ready)
    <2>1. /\ Joined(waiters, woken + n, ready) = SubSeq(l, n + 1, Len(l))
          /\ n \in 0 .. Len(l)
          /\ \A i \in 1 .. n : l[i] = waiters[woken + i]
      BY <1>2, LineType, JoinedAdvances
    <2>2. Line = l
      BY LineType
    <2> HIDE DEF l
    <2> QED BY <2>1, <2>2
  <1>7. Holders' = Holders \cup {j}
    BY <1>1 DEF IInv, TypeOK, Holders, Admitted
  <1>8. Active' = Holders \cup {waiters[i] : i \in 1 .. m}
    <2>1. Active' = Holders \cup {j} \cup {Tail(waiters)[i] : i \in 1 .. (m - 1)}
      BY <1>1, <1>3, <1>7 DEF Active
    <2> HIDE DEF m
    <2>2. ASSUME NEW i \in 1 .. m, i # 1
          PROVE  waiters[i] \in {Tail(waiters)[l] : l \in 1 .. (m - 1)}
      <3>1. i - 1 \in 1 .. (m - 1) /\ i - 1 \in 1 .. Len(waiters) - 1 /\ (i - 1) + 1 = i
        BY <1>3, <2>2, LineType
      <3> QED BY <3>1, <1>4
    <2>3. ASSUME NEW l \in 1 .. (m - 1)
          PROVE  Tail(waiters)[l] \in {waiters[i] : i \in 1 .. m}
      <3>1. l + 1 \in 1 .. m /\ l \in 1 .. Len(waiters) - 1
        BY <1>3, LineType
      <3> QED BY <3>1, <1>4
    <2>4. j \in {waiters[i] : i \in 1 .. m}
      <3>1. 1 \in 1 .. m
        BY <1>3
      <3>2. waiters[1] = j
        BY <1>4
      <3> QED BY <3>1, <3>2
    <2>5. {waiters[i] : i \in 1 .. m} \subseteq {j} \cup {Tail(waiters)[l] : l \in 1 .. (m - 1)}
      <3> SUFFICES ASSUME NEW i \in 1 .. m
                   PROVE  waiters[i] \in {j} \cup {Tail(waiters)[l] : l \in 1 .. (m - 1)}
        OBVIOUS
      <3>1. CASE i = 1
        BY <1>4, <3>1
      <3>2. CASE i # 1
        BY <2>2, <3>2
      <3> QED BY <3>1, <3>2
    <2>6. {Tail(waiters)[l] : l \in 1 .. (m - 1)} \subseteq {waiters[i] : i \in 1 .. m}
      <3> SUFFICES ASSUME NEW l \in 1 .. (m - 1)
                   PROVE  Tail(waiters)[l] \in {waiters[i] : i \in 1 .. m}
        OBVIOUS
      <3> QED BY <2>3
    <2> DEFINE P == {waiters[i] : i \in 1 .. m}
               Q == {Tail(waiters)[l] : l \in 1 .. (m - 1)}
    <2>7. j \in P /\ P \subseteq {j} \cup Q /\ Q \subseteq P /\ Active' = Holders \cup {j} \cup Q
      BY <2>1, <2>4, <2>5, <2>6
    <2>8. Active' = Holders \cup P
      <3> HIDE DEF P, Q
      <3> QED BY <2>7
    <2> QED BY <2>8 DEF P
  <1>9. {waiters[i] : i \in 1 .. m} = {waiters[i] : i \in 1 .. woken} \cup {waiters[woken + i] : i \in 1 .. n}
    <2>1. ASSUME NEW i \in 1 .. m, ~(i \in 1 .. woken)
          PROVE  waiters[i] \in {waiters[woken + l] : l \in 1 .. n}
      <3>1. i - woken \in 1 .. n /\ woken + (i - woken) = i
        BY <1>2, <2>1, LineType
      <3> QED BY <3>1
    <2>2. \A l \in 1 .. n : woken + l \in 1 .. m
      BY <1>2, LineType
    <2>3. \A i \in 1 .. woken : i \in 1 .. m
      BY <1>2, LineType
    <2> HIDE DEF m
    <2> QED BY <2>1, <2>2, <2>3
  <1>10. Active' = (Active \ {}) \cup {Line[i] : i \in 1 .. n}
    BY <1>6, <1>8, <1>9 DEF Active
  <1>11. Line' = SubSeq(Line, n + 1, Len(Line))
    BY <1>5, <1>6
  <1> QED BY <1>6, <1>10, <1>11, MapsToAdvance

(* A job leaves `async with sem`, and hands its place on or back.            *)
LEMMA MapLeave ==
  ASSUME IInv, IInv', NEW j \in Jobs, task[j] \in Admitted, Leave(j)
  PROVE  Executor!Next
PROOF
  <1>1. /\ UNCHANGED <<ready, waiters>> /\ task' = [task EXCEPT ![j] = "over"]
    BY DEF Leave
  <1>2. Holders' = Holders \ {j} /\ j \in Holders
    BY <1>1 DEF IInv, TypeOK, Holders, Admitted
  <1>3. j \notin ToSet(waiters)
    BY DEF IInv, QueueInv, LinesMatchTasks, Admitted
  <1>4. ToSet(waiters) = {waiters[i] : i \in 1 .. Len(waiters)}
    BY LineType, LenProperties DEF ToSet
  <1>5. j \notin {waiters[i] : i \in 1 .. woken}
    BY <1>3, <1>4, LineType
  <1>6. {j} \in SUBSET Active
    BY <1>2 DEF Active
  <1>7. PICK n \in 0 .. (Len(waiters) - woken) : woken' = woken + n /\ n \in {0, 1}
    <2>1. CASE woken < Len(waiters)
      <3>1. 1 \in 0 .. (Len(waiters) - woken) /\ woken' = woken + 1
        BY <2>1, LineType DEF Leave
      <3> QED BY <3>1
    <2>2. CASE ~(woken < Len(waiters))
      <3>1. 0 \in 0 .. (Len(waiters) - woken) /\ woken' = woken + 0
        BY <2>2, LineType DEF Leave
      <3> QED BY <3>1
    <2> QED BY <2>1, <2>2
  <1>8. Line' = Joined(waiters, woken + n, ready)
    BY <1>1, <1>7 DEF Line, Joined
  <1>9. /\ Joined(waiters, woken + n, ready) = SubSeq(Line, n + 1, Len(Line))
        /\ n \in 0 .. Len(Line)
        /\ {Line[i] : i \in 1 .. n} = {waiters[woken + i] : i \in 1 .. n}
    <2> DEFINE l == Joined(waiters, woken, ready)
    <2>1. /\ Joined(waiters, woken + n, ready) = SubSeq(l, n + 1, Len(l))
          /\ n \in 0 .. Len(l)
          /\ \A i \in 1 .. n : l[i] = waiters[woken + i]
      BY LineType, JoinedAdvances
    <2>2. Line = l
      BY LineType
    <2> HIDE DEF l
    <2> QED BY <2>1, <2>2
  <1>10. Active' = (Holders \ {j}) \cup {waiters[i] : i \in 1 .. (woken + n)}
    BY <1>1, <1>2, <1>7 DEF Active
  <1>11. {waiters[i] : i \in 1 .. (woken + n)} = {waiters[i] : i \in 1 .. woken} \cup {waiters[woken + i] : i \in 1 .. n}
    <2>1. CASE n = 0
      BY <2>1, LineType
    <2>2. CASE n = 1
      <3>1. \A i : i \in 1 .. (woken + 1) <=> i \in 1 .. woken \/ i = woken + 1
        BY LineType
      <3>2. {waiters[woken + i] : i \in 1 .. 1} = {waiters[woken + 1]}
        OBVIOUS
      <3> QED BY <2>2, <3>1, <3>2
    <2> QED BY <1>7, <2>1, <2>2
  <1>12. Active' = (Active \ {j}) \cup {Line[i] : i \in 1 .. n}
    BY <1>5, <1>9, <1>10, <1>11 DEF Active
  <1>13. Line' = SubSeq(Line, n + 1, Len(Line))
    BY <1>8, <1>9
  <1> QED BY <1>6, <1>9, <1>12, <1>13, MapsToAdvance

LEMMA MapStop ==
  ASSUME Stop
  PROVE  Executor!Next
PROOF
  <1>1. ready' = <<>> /\ waiters' = <<>> /\ woken' = 0
    BY DEF Stop
  <1>2. Line' = <<>>
    BY <1>1, SubSeqEmpty, ConcatEmptySeq, EmptySeq DEF Line
  <1>3. Active' = {}
    BY <1>1 DEF Stop, Active, Holders, Admitted
  <1> QED BY <1>2, <1>3 DEF Executor!Next, Executor!Stop

(* A step that leaves the lines alone and moves nobody through the door.     *)
LEMMA MapRest ==
  ASSUME UNCHANGED <<ready, waiters, woken>>, Holders' = Holders
  PROVE  UNCHANGED <<Line, Active>>
PROOF BY DEF Line, Active

(* job_runner keeps the promise of BoundedExecutor: whatever the scheduling, *)
(* failures and restarts, submission order is admission order and never more *)
(* than job_max_concurrency jobs are active.                                 *)
THEOREM RunnerImplementsExecutor == Spec => ImplementsExecutor
PROOF
  <1>1. Init => Executor!Init
    <2> SUFFICES ASSUME Init PROVE Line = <<>> /\ Active = {}
      BY DEF Executor!Init
    <2>1. ready = <<>> /\ waiters = <<>> /\ woken = 0 /\ Holders = {}
      BY DEF Init, Holders, Admitted
    <2>2. Line = <<>>
      BY <2>1, SubSeqEmpty, ConcatEmptySeq, EmptySeq DEF Line
    <2> QED BY <2>1, <2>2 DEF Active
  <1>2. IInv /\ IInv' /\ [Next]_vars => [Executor!Next]_Executor!vars
    <2> SUFFICES ASSUME IInv, IInv', [Next]_vars
                 PROVE  Executor!Next \/ UNCHANGED <<Line, Active>>
      BY DEF Executor!vars
    <2>1. CASE UNCHANGED vars
      BY <2>1, MapRest DEF vars, loopVars, Holders
    <2>2. CASE Sweep \/ Restart
      BY <2>2, MapRest DEF Sweep, Restart, loopVars, Holders
    <2>3. CASE Stop
      BY <2>3, MapStop
    <2>4. ASSUME NEW j \in Jobs, Submit(j)
          PROVE  Executor!Next
      BY <2>4, MapSubmit
    <2>5. ASSUME NEW j \in Jobs, StartNow(j) \/ StartQueued(j) \/ Resume(j)
          PROVE  Executor!Next \/ UNCHANGED <<Line, Active>>
      BY <2>5, MapStartNow, MapStartQueued, MapResume
    <2>6. ASSUME NEW j \in Jobs, SpawnFailed(j) \/ Reaped(j) \/ WorkerGone(j)
          PROVE  Executor!Next
      BY <2>6, MapLeave DEF SpawnFailed, Reaped, WorkerGone, Admitted
    <2>7. ASSUME NEW j \in Jobs, Spawned(j) \/ PollKill(j)
          PROVE  UNCHANGED <<Line, Active>>
      <3>1. Holders' = Holders
        BY <2>7 DEF IInv, TypeOK, Spawned, PollKill, Holders, Admitted
      <3> QED BY <2>7, <3>1, MapRest DEF Spawned, PollKill, loopVars
    <2>8. ASSUME NEW j \in Jobs, Poll(j) \/ WorkerStep(j)
          PROVE  UNCHANGED <<Line, Active>>
      <3>1. UNCHANGED <<task, ready, waiters, woken>>
        BY <2>8 DEF Poll, WorkerStep, Boot, Beat, Emit, Conclude, ConcludeUnseen, WriteResult,
                    Exit, Die, loopVars
      <3> QED BY <3>1, MapRest DEF Holders
    <2> QED BY <2>1, <2>2, <2>3, <2>4, <2>5, <2>6, <2>7, <2>8 DEF Next, LoopStep
  <1>3. Spec => []IInv
    BY InvInit, InvNext, PTL DEF Spec
  <1> QED BY <1>1, <1>2, <1>3, PTL DEF Spec, ImplementsExecutor, Executor!Spec

-----------------------------------------------------------------------------
(* Supervision: what JobRunner leaves open, when a timeout strikes and whom   *)
(* the sweep meets, for every choice of its times that satisfies              *)
(* ClockAssumption, MarginAssumption and BeatAssumption.  The theorems above  *)
(* use none of the three.                                                     *)

Supervised == supervisor \in {"watching", "killing"}

(* What holds between two steps.  A job that waits has no worker, no row of  *)
(* its own making and nothing to read; one that is over has a final row.     *)
Stages ==
  /\ supervisor = "queued" => process = "none" /\ status = "pending" /\ failedBy = "nobody" /\ unseen = FALSE
  /\ Supervised => process # "none"
  /\ supervisor \in {"over", "crashed"} => process = "gone"
  /\ supervisor = "over" => status \in {"done", "failed"}

(* How long each clock can have run: what is due holds time back.            *)
Clocks ==
  /\ sinceSweep <= SweepEvery
  /\ process = "booting" => beatAge <= BootTime
  /\ process = "healthy" => beatAge <= BeatEvery
  /\ supervisor = "watching" => /\ sincePoll <= PollEvery
                                /\ elapsed <= JobTimeout + sincePoll
                                /\ process = "hung" => beatAge <= HeartbeatStale + sincePoll
  /\ supervisor = "killing" => /\ killing <= KillWait
                               /\ elapsed <= JobTimeout + PollEvery + killing
                               /\ process = "hung" => beatAge <= HeartbeatStale + PollEvery + killing

(* The time the sweep has lost since the last round that read the table.     *)
Behind == lost * SweepEvery

(* The row of a supervised job is younger than its process, since what the   *)
(* supervisor reads was emitted by that process; an abandoned one is older   *)
(* than the sweep allows by the rounds lost since the last that read the     *)
(* table, and the time since the last of them, at most.                      *)
Progress ==
  /\ Supervised /\ unseen = TRUE => emitAge <= elapsed
  /\ Supervised /\ status = "running" => progressAge <= elapsed
  /\ Supervised => failedBy # "sweep"
  /\ supervisor = "over" => failedBy # "sweep"
  /\ supervisor = "crashed" /\ status = "running" => progressAge <= StaleAfter + Behind + sinceSweep

ClocksInv == ClocksTypeOK /\ Stages /\ Clocks /\ Progress

-----------------------------------------------------------------------------
(* The lost time adds up round by round.                                     *)
LEMMA RoundsAddUp ==
  ASSUME NEW m \in Nat, NEW n \in Nat
  PROVE  /\ m * n \in Nat /\ 0 * n = 0
         /\ (m + 1) * n = m * n + n
PROOF OBVIOUS

LEMMA ClocksInitially == ClocksInit => ClocksInv
PROOF
  <1> SUFFICES ASSUME ClocksInit PROVE ClocksInv
    OBVIOUS
  <1> USE ClockAssumption DEF ClockAssumption, ClocksInit
  <1>1. ClocksTypeOK
    <2>1. lost \in 0..MaxLost
      OBVIOUS
    <2> HIDE ClockAssumption DEF ClockAssumption
    <2> QED BY <2>1 DEF ClocksTypeOK
  <1>2. Stages       BY DEF Stages, Supervised
  <1>3. Clocks       BY DEF Clocks
  <1>4. Progress     BY DEF Progress, Supervised
  <1> QED BY <1>1, <1>2, <1>3, <1>4 DEF ClocksInv

(* Every step keeps the times apart.                                         *)
LEMMA ClocksInductive == ClocksInv /\ [ClocksNext]_clockVars => ClocksInv'
PROOF
  <1> SUFFICES ASSUME ClocksInv, [ClocksNext]_clockVars PROVE ClocksInv'
    OBVIOUS
  <1> USE ClockAssumption, MarginAssumption, BeatAssumption
      DEF ClockAssumption, MarginAssumption, BeatAssumption,
          ClocksInv, ClocksTypeOK, Stages, Supervised, Clocks, Progress, StaleAfter
  <1>0. /\ Behind \in Nat
        /\ UNCHANGED lost => Behind' = Behind
        /\ lost' = 0 => Behind' = 0
        /\ lost' = lost + 1 => Behind' = Behind + SweepEvery
    BY RoundsAddUp DEF Behind
  <1> USE <1>0
  <1>1. CASE Tick                 BY <1>1 DEF Tick, Due
  <1>2. CASE Spawn                BY <1>2 DEF Spawn
  <1>3. CASE Heartbeat            BY <1>3 DEF Heartbeat
  <1>4. CASE EmitsProgress        BY <1>4 DEF EmitsProgress
  <1>5. CASE Hang                 BY <1>5 DEF Hang, ages
  <1>6. CASE WorkerExits          BY <1>6 DEF WorkerExits, ages
  <1>7. CASE PollRound
    <2>1. ClocksTypeOK'
      <3>1. status' \in {"running", status} /\ progressAge' \in {emitAge, progressAge} /\ unseen' = FALSE
        BY <1>7 DEF PollRound, Persist
      <3>2. /\ supervisor' \in {supervisor, "killing"} /\ failedBy' \in {failedBy, "timeout", "heartbeat"}
            /\ sincePoll' \in {sincePoll, 0} /\ killing' \in {killing, 0}
        BY <1>7 DEF PollRound
      <3>3. /\ process' = process /\ elapsed' = elapsed /\ beatAge' = beatAge /\ lost' = lost
            /\ emitAge' = emitAge /\ sinceSweep' = sinceSweep
        BY <1>7 DEF PollRound
      <3>4. /\ supervisor' \in {"queued", "watching", "killing", "over", "crashed"}
            /\ process' \in {"none", "booting", "healthy", "hung", "gone"}
            /\ status' \in {"pending", "running", "done", "failed"}
            /\ failedBy' \in {"nobody", "timeout", "heartbeat", "worker", "sweep"}
            /\ unseen' \in BOOLEAN
        BY <3>1, <3>2, <3>3
      <3>5. /\ elapsed' \in Nat /\ sincePoll' \in Nat /\ killing' \in Nat /\ beatAge' \in Nat
            /\ emitAge' \in Nat /\ progressAge' \in Nat /\ sinceSweep' \in Nat
            /\ lost' \in 0..MaxLost
        BY <3>1, <3>2, <3>3
      <3> QED BY <3>4, <3>5
    <2>2. Stages'   BY <1>7 DEF PollRound, Persist
    <2>3. Clocks'   BY <1>7 DEF PollRound
    <2>4. Progress' BY <1>7 DEF PollRound, Persist
    <2> QED BY <2>1, <2>2, <2>3, <2>4
  <1>8. CASE KillIsReaped         BY <1>8 DEF KillIsReaped, ages
  <1>9. CASE ProcessGone
    <2>1. ClocksTypeOK' BY <1>9 DEF ProcessGone, Persist
    <2>2. Stages'       BY <1>9 DEF ProcessGone, Persist
    <2>3. Clocks'       BY <1>9 DEF ProcessGone
    <2>4. Progress'     BY <1>9 DEF ProcessGone, Persist
    <2> QED BY <2>1, <2>2, <2>3, <2>4
  <1>10. CASE SweepRow            BY <1>10 DEF SweepRow
  <1>11. CASE LoseRound           BY <1>11 DEF LoseRound
  <1>12. CASE UNCHANGED clockVars BY <1>12 DEF clockVars, ages
  <1> QED BY <1>1, <1>2, <1>3, <1>4, <1>5, <1>6, <1>7, <1>8, <1>9, <1>10, <1>11, <1>12 DEF ClocksNext

(* The invariant holds.                                                      *)
THEOREM TimesAreKept == ClocksSpec => []ClocksInv
PROOF BY ClocksInitially, ClocksInductive, PTL DEF ClocksSpec

-----------------------------------------------------------------------------
(* Every variable has its type.                                              *)
THEOREM ClocksTypeCorrect == ClocksSpec => []ClocksTypeOK
PROOF
  <1>1. ClocksInv => ClocksTypeOK BY DEF ClocksInv
  <1> QED BY <1>1, TimesAreKept, PTL

(* For every timeout, poll, kill and margin that fit: the sweep fails no     *)
(* job while run_job watches over it.                                        *)
THEOREM SweepIsSafe == ClocksSpec => []SweepSparesSupervised
PROOF
  <1>1. ClocksInv => SweepSparesSupervised
    BY DEF ClocksInv, ClocksTypeOK, Stages, Progress, Supervised, SweepSparesSupervised
  <1> QED BY <1>1, TimesAreKept, PTL

(* The permit of a job comes back within the timeout, one poll and the kill. *)
THEOREM PermitsReturnInTime == ClocksSpec => []PermitIsReturned
PROOF
  <1>1. ClocksInv => PermitIsReturned
    BY ClockAssumption DEF ClocksInv, ClocksTypeOK, Clocks, PermitIsReturned
  <1> QED BY <1>1, TimesAreKept, PTL

(* A row that nobody looks after is failed within one sweep, and one more    *)
(* for every round lost to a locked table or an exception, however many.     *)
THEOREM SweepIsInTime == ClocksSpec => []AbandonedIsSwept
PROOF
  <1>1. ClocksInv => AbandonedIsSwept
    <2> SUFFICES ASSUME ClocksInv, supervisor = "crashed", status = "running"
                 PROVE  progressAge <= StaleAfter + (lost + 1) * SweepEvery
      BY DEF AbandonedIsSwept
    <2> USE ClockAssumption DEF ClockAssumption, ClocksInv, ClocksTypeOK
    <2>1. Behind \in Nat /\ (lost + 1) * SweepEvery = Behind + SweepEvery
      BY RoundsAddUp DEF Behind
    <2>2. progressAge <= StaleAfter + Behind + sinceSweep /\ sinceSweep <= SweepEvery
      BY DEF Progress, Clocks
    <2> QED BY <2>1, <2>2 DEF StaleAfter
  <1> QED BY <1>1, TimesAreKept, PTL

(* A worker that beats in time is never killed for a lost heartbeat.         *)
THEOREM HeartbeatsCount == ClocksSpec => BeatingIsNotLost
PROOF
  <1> DEFINE Lost == failedBy # "heartbeat" /\ failedBy' = "heartbeat" => process = "hung"
  <1>1. ClocksInv /\ [ClocksNext]_clockVars => [Lost]_clockVars
    <2> SUFFICES ASSUME ClocksInv, ClocksNext, failedBy # "heartbeat", failedBy' = "heartbeat"
                 PROVE  process = "hung"
      OBVIOUS
    <2>1. PollRound /\ beatAge > HeartbeatStale
      BY DEF ClocksNext, Tick, Spawn, Heartbeat, EmitsProgress, Hang, WorkerExits, PollRound, KillIsReaped,
             ProcessGone, SweepRow, LoseRound
    <2> QED
      BY <2>1, ClockAssumption, BeatAssumption DEF PollRound, ClocksInv, ClocksTypeOK, Stages, Supervised, Clocks
  <1> QED BY <1>1, TimesAreKept, PTL DEF ClocksSpec, BeatingIsNotLost
=============================================================================
