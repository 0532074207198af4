----------------------------- MODULE PageProofs -----------------------------
(***************************************************************************)
(* Theorems about the handlers of a page (module PageActions): what they   *)
(* announce is true, one busy flag keeps their transactions apart, and a   *)
(* page keeps showing the user's own action unless another load was under  *)
(* way when it first did; for every number of clicks, loads and invoices   *)
(* of a batch.                                                             *)
(***************************************************************************)
EXTENDS PageActions, FiniteSetTheorems, TLAPS

HandlerKinds == {KindOf(h) : h \in UNION {p.handlers : p \in Pages}} \cup {NoJob.kind}
JobStates == {"none", "build", "sign", "wait", "announce", "reload", "await", "over"}
ToldStates == {"none", "failed", "success"}
JobRecords == [at : JobStates, kind : HandlerKinds, item : Nat, number : Nat, made : Nat,
               told : ToldStates]
LoadRecords == [at : {"none", "asked", "read", "done"}, version : Nat]
TxRecords ==
    [job : JobIds, item : Nat, number : Nat,
     fate : {"queued", "bad", "applied", "failed"}, left : BOOLEAN]

PageTypeOK ==
    /\ shown \in Pages
    /\ jobs \in [JobIds -> JobRecords] /\ loads \in [LoadIds -> LoadRecords]
    /\ sent \subseteq TxRecords
    /\ sequence \in Nat /\ version \in Nat /\ view \in Nat /\ owed \in Nat

-----------------------------------------------------------------------------
(* The invariant of the jobs *)

\* Clicks take the slots in order, each for a button of the page.
ClickedInOrder ==
    /\ \E n \in Nat : Clicked = 1 .. n
    /\ \A j \in JobIds : IF jobs[j].at = "none" THEN jobs[j] = NoJob
                          ELSE jobs[j].kind \in Kinds

OwnIn(j, txs) == {t \in txs : t.job = j}
SuccessTrue(job, own) ==
    job.kind.sends = "nothing" \/ \E t \in own : t.item = job.item /\ t.fate = "applied"
FailureTrue(job, own) ==
    \/ job.kind.reload = "read"
    \/ \A t \in own : t.item = job.item => t.left \/ t.fate \in {"bad", "failed"}

\* A job with the transactions it has sent and its load.  A transaction belongs to an
\* item the job has come to, one for each; a load is awaited; and what the handler is
\* about to say, and what it has said, is so, for good.
SentInOrder(job, own) ==
    /\ \A t \in own :
          /\ job.at # "none" /\ 1 <= t.item /\ t.item <= job.item
          /\ job.at \in {"build", "sign"} => t.item < job.item
    /\ \A t, u \in own : t.item = u.item => t = u
    /\ job.at # "none" => 1 <= job.item
    /\ job.at = "wait" => \E t \in own : t.item = job.item
ToldTrue(job, own) ==
    /\ job.at = "announce" => SuccessTrue(job, own)
    /\ job.at \in {"reload", "await", "over"} =>
          /\ job.told = "success" => SuccessTrue(job, own)
          /\ job.told = "failed" => FailureTrue(job, own)
\* All that a handler of one transaction has sent is applied once it announces.
SingleApplied(job, own) ==
    job.at # "none" /\ job.kind.sends # "batch" =>
        /\ job.item = 1
        /\ job.at \in {"announce", "reload", "await"} => \A t \in own : t.fate = "applied"
LoadAwaited(job, load) == load.at \in {"asked", "read"} => job.at = "await"

JobOK(job, own, load) ==
    SentInOrder(job, own) /\ ToldTrue(job, own) /\ SingleApplied(job, own) /\ LoadAwaited(job, load)
AllJobsOK == \A j \in JobIds : JobOK(jobs[j], OwnIn(j, sent), loads[j])

JobsInv == PageTypeOK /\ ClickedInOrder /\ AllJobsOK

-----------------------------------------------------------------------------
(* The invariant of the flags and of the sequence number *)

\* A handler at work holds its flag, a batch until it reloads, and no other one has
\* the same.
Holds(job) ==
    /\ job.at \notin {"none", "over"}
    /\ ~(job.kind.sends = "batch" /\ job.at \in {"reload", "await"})
FlagsExclude ==
    /\ \A j \in JobIds :
          Holds(jobs[j]) /\ jobs[j].kind.flag # "none" => jobs[j].kind.flag \in busy
    /\ \A i, j \in JobIds :
          i # j /\ Holds(jobs[i]) /\ Holds(jobs[j]) /\ jobs[i].kind.flag # "none" =>
              jobs[i].kind.flag # jobs[j].kind.flag

\* Where one flag serves the whole page, and every wait was answered, the only
\* transaction on its way carries the next number.
NextInLine ==
    ~SeparateFlags /\ (\A t \in sent : ~t.left) =>
        /\ \A t \in sent : t.fate # "bad"
        /\ \A t \in sent : t.fate = "queued" =>
              /\ jobs[t.job].at = "wait" /\ t.item = jobs[t.job].item
              /\ t.number = sequence + 1
        /\ \A j \in JobIds : jobs[j].at = "sign" => jobs[j].number = sequence + 1

FlagInv == FlagsExclude /\ NextInLine

-----------------------------------------------------------------------------
(* The invariant of the loads *)

\* A handler awaits a load only if it asks for one.
AwaitsLoad == \A j \in JobIds : jobs[j].at = "await" => jobs[j].kind.reload \notin {"none", "local"}

NoLoadAgain == \A l \in ReloadIds : loads[l] = NoLoad
\* Before the mount's load is over only handlers that drop it have started.
MountPending == loads[0].at \in {"asked", "read"}
MountFirst ==
    MountPending =>
        /\ "mount" \in shown.loads /\ pageLoading /\ view = 0
        /\ \A j \in Clicked : jobs[j].kind.reload = "swr" /\ jobs[j].at # "await"

LoadsInOrder == ~LoadsMayCross => NoLoadAgain /\ ~crossed /\ MountFirst
LoadInv == AwaitsLoad /\ LoadsInOrder

\* On every page: unless loads crossed, neither the screen nor what a load has read is
\* older than what was shown.
MadeOnChain == owed <= version /\ \A j \in JobIds : jobs[j].made <= version
ReadsAreNew == \A l \in LoadIds : loads[l].at = "read" => owed <= loads[l].version
OwedIsShown == ~crossed => owed <= view /\ ReadsAreNew
ShownInv == MadeOnChain /\ OwedIsShown

-----------------------------------------------------------------------------
(* A step of one job *)

JobStep(j) ==
    /\ Running(j) /\ shown' = shown
    /\ jobs' \in [JobIds -> JobRecords] /\ \A i \in JobIds \ {j} : jobs'[i] = jobs[i]
    /\ jobs'[j].at # "none" /\ jobs'[j].kind = jobs[j].kind /\ jobs'[j].made = jobs[j].made
    /\ Holds(jobs'[j]) => Holds(jobs[j])
    /\ busy' = IF Holds(jobs[j]) /\ ~Holds(jobs'[j]) THEN busy \ {jobs[j].kind.flag} ELSE busy

LEMMA JobStepOrder ==
    ASSUME JobsInv, NEW j \in JobIds, JobStep(j)
    PROVE  ClickedInOrder'
<1>1. Clicked' = Clicked
    BY DEF Clicked, JobStep, Running
<1>2. Kinds' = Kinds
    BY DEF Kinds, JobStep
<1>3. \E n \in Nat : Clicked' = 1 .. n
    BY <1>1 DEF JobsInv, ClickedInOrder
<1>4. \A i \in JobIds : IF jobs'[i].at = "none" THEN jobs'[i] = NoJob ELSE jobs'[i].kind \in Kinds
    BY DEF JobsInv, ClickedInOrder, JobStep, Running
<1> QED
    BY <1>2, <1>3, <1>4 DEF ClickedInOrder

\* The other jobs are as they were when their transactions are, and their loads.
LEMMA OtherJobs ==
    ASSUME JobsInv, NEW j \in JobIds, JobStep(j),
           \A i \in JobIds \ {j} : OwnIn(i, sent') = OwnIn(i, sent),
           \A i \in JobIds \ {j} : loads'[i].at \in {"asked", "read"} => loads[i].at \in {"asked", "read"},
           JobOK(jobs'[j], OwnIn(j, sent'), loads'[j])
    PROVE  AllJobsOK'
<1>1. ASSUME NEW i \in JobIds, i # j
      PROVE  JobOK(jobs'[i], OwnIn(i, sent'), loads'[i])
    <2>1. JobOK(jobs[i], OwnIn(i, sent), loads[i])
        BY DEF JobsInv, AllJobsOK
    <2>2. jobs'[i] = jobs[i] /\ OwnIn(i, sent') = OwnIn(i, sent)
        BY <1>1 DEF JobStep
    <2>3. LoadAwaited(jobs[i], loads'[i])
        BY <1>1, <2>1 DEF JobOK, LoadAwaited
    <2> QED
        BY <2>1, <2>2, <2>3 DEF JobOK
<1> QED
    BY <1>1 DEF AllJobsOK

LEMMA JobType ==
    ASSUME JobsInv, NEW j \in JobIds
    PROVE  /\ jobs[j] \in JobRecords /\ loads[j] \in LoadRecords
           /\ JobOK(jobs[j], OwnIn(j, sent), loads[j])
           /\ \A t \in OwnIn(j, sent) : t \in TxRecords /\ t \in sent /\ t.job = j
<1>1. j \in LoadIds
    BY DEF LoadIds
<1>2. jobs[j] \in JobRecords /\ loads[j] \in LoadRecords
    BY <1>1 DEF JobsInv, PageTypeOK
<1>3. JobOK(jobs[j], OwnIn(j, sent), loads[j])
    BY DEF JobsInv, AllJobsOK
<1>4. \A t \in OwnIn(j, sent) : t \in TxRecords /\ t \in sent /\ t.job = j
    BY DEF JobsInv, PageTypeOK, OwnIn
<1> QED
    BY <1>2, <1>3, <1>4

\* What the updates of a job in the actions come to.
JobBecomes(j, s, i, n, m, w) ==
    /\ jobs' \in [JobIds -> JobRecords] /\ \A k \in JobIds \ {j} : jobs'[k] = jobs[k]
    /\ jobs'[j].at = s /\ jobs'[j].kind = jobs[j].kind /\ jobs'[j].item = i
    /\ jobs'[j].number = n /\ jobs'[j].made = m /\ jobs'[j].told = w

LEMMA JobUpdated ==
    ASSUME NEW j \in JobIds, jobs \in [JobIds -> JobRecords], NEW r \in JobRecords,
           jobs' = [jobs EXCEPT ![j] = r], r.kind = jobs[j].kind
    PROVE  JobBecomes(j, r.at, r.item, r.number, r.made, r.told)
BY DEF JobBecomes

LEMMA SetAt ==
    ASSUME NEW j \in JobIds, jobs \in [JobIds -> JobRecords], NEW s \in JobStates,
           jobs' = [jobs EXCEPT ![j].at = s]
    PROVE  JobBecomes(j, s, jobs[j].item, jobs[j].number, jobs[j].made, jobs[j].told)
<1> DEFINE r == [jobs[j] EXCEPT !.at = s]
<1>1. jobs[j] \in JobRecords
    OBVIOUS
<1>2. /\ r \in JobRecords /\ r.kind = jobs[j].kind
      /\ r.at = s /\ r.item = jobs[j].item /\ r.number = jobs[j].number /\ r.made = jobs[j].made /\ r.told = jobs[j].told
    BY <1>1 DEF JobRecords
<1>3. jobs' = [jobs EXCEPT ![j] = r]
    OBVIOUS
<1> HIDE DEF r
<1>4. JobBecomes(j, r.at, r.item, r.number, r.made, r.told)
    BY <1>2, <1>3, JobUpdated
<1> QED
    BY <1>2, <1>4

LEMMA SetAtNumber ==
    ASSUME NEW j \in JobIds, jobs \in [JobIds -> JobRecords], NEW s \in JobStates, NEW n \in Nat,
           jobs' = [jobs EXCEPT ![j].at = s, ![j].number = n]
    PROVE  JobBecomes(j, s, jobs[j].item, n, jobs[j].made, jobs[j].told)
<1> DEFINE r == [jobs[j] EXCEPT !.at = s, !.number = n]
<1>1. jobs[j] \in JobRecords
    OBVIOUS
<1>2. /\ r \in JobRecords /\ r.kind = jobs[j].kind
      /\ r.at = s /\ r.item = jobs[j].item /\ r.number = n /\ r.made = jobs[j].made /\ r.told = jobs[j].told
    BY <1>1 DEF JobRecords
<1>3. jobs' = [jobs EXCEPT ![j] = r]
    OBVIOUS
<1> HIDE DEF r
<1>4. JobBecomes(j, r.at, r.item, r.number, r.made, r.told)
    BY <1>2, <1>3, JobUpdated
<1> QED
    BY <1>2, <1>4

LEMMA SetToldAt ==
    ASSUME NEW j \in JobIds, jobs \in [JobIds -> JobRecords], NEW w \in ToldStates, NEW s \in JobStates,
           jobs' = [jobs EXCEPT ![j].told = w, ![j].at = s]
    PROVE  JobBecomes(j, s, jobs[j].item, jobs[j].number, jobs[j].made, w)
<1> DEFINE r == [jobs[j] EXCEPT !.told = w, !.at = s]
<1>1. jobs[j] \in JobRecords
    OBVIOUS
<1>2. /\ r \in JobRecords /\ r.kind = jobs[j].kind
      /\ r.at = s /\ r.item = jobs[j].item /\ r.number = jobs[j].number /\ r.made = jobs[j].made /\ r.told = w
    BY <1>1 DEF JobRecords
<1>3. jobs' = [jobs EXCEPT ![j] = r]
    OBVIOUS
<1> HIDE DEF r
<1>4. JobBecomes(j, r.at, r.item, r.number, r.made, r.told)
    BY <1>2, <1>3, JobUpdated
<1> QED
    BY <1>2, <1>4

LEMMA SetToldItemAt ==
    ASSUME NEW j \in JobIds, jobs \in [JobIds -> JobRecords], NEW w \in ToldStates, NEW i \in Nat, NEW s \in JobStates,
           jobs' = [jobs EXCEPT ![j].told = w, ![j].item = i, ![j].at = s]
    PROVE  JobBecomes(j, s, i, jobs[j].number, jobs[j].made, w)
<1> DEFINE r == [jobs[j] EXCEPT !.told = w, !.item = i, !.at = s]
<1>1. jobs[j] \in JobRecords
    OBVIOUS
<1>2. /\ r \in JobRecords /\ r.kind = jobs[j].kind
      /\ r.at = s /\ r.item = i /\ r.number = jobs[j].number /\ r.made = jobs[j].made /\ r.told = w
    BY <1>1 DEF JobRecords
<1>3. jobs' = [jobs EXCEPT ![j] = r]
    OBVIOUS
<1> HIDE DEF r
<1>4. JobBecomes(j, r.at, r.item, r.number, r.made, r.told)
    BY <1>2, <1>3, JobUpdated
<1> QED
    BY <1>2, <1>4

LEMMA SetAtTold ==
    ASSUME NEW j \in JobIds, jobs \in [JobIds -> JobRecords], NEW s \in JobStates, NEW w \in ToldStates,
           jobs' = [jobs EXCEPT ![j].at = s, ![j].told = w]
    PROVE  JobBecomes(j, s, jobs[j].item, jobs[j].number, jobs[j].made, w)
<1> DEFINE r == [jobs[j] EXCEPT !.at = s, !.told = w]
<1>1. jobs[j] \in JobRecords
    OBVIOUS
<1>2. /\ r \in JobRecords /\ r.kind = jobs[j].kind
      /\ r.at = s /\ r.item = jobs[j].item /\ r.number = jobs[j].number /\ r.made = jobs[j].made /\ r.told = w
    BY <1>1 DEF JobRecords
<1>3. jobs' = [jobs EXCEPT ![j] = r]
    OBVIOUS
<1> HIDE DEF r
<1>4. JobBecomes(j, r.at, r.item, r.number, r.made, r.told)
    BY <1>2, <1>3, JobUpdated
<1> QED
    BY <1>2, <1>4

LEMMA SetMade ==
    ASSUME NEW j \in JobIds, jobs \in [JobIds -> JobRecords], NEW m \in Nat,
           jobs' = [jobs EXCEPT ![j].made = m]
    PROVE  JobBecomes(j, jobs[j].at, jobs[j].item, jobs[j].number, m, jobs[j].told)
<1> DEFINE r == [jobs[j] EXCEPT !.made = m]
<1>1. jobs[j] \in JobRecords
    OBVIOUS
<1>2. /\ r \in JobRecords /\ r.kind = jobs[j].kind
      /\ r.at = jobs[j].at /\ r.item = jobs[j].item /\ r.number = jobs[j].number /\ r.made = m /\ r.told = jobs[j].told
    BY <1>1 DEF JobRecords
<1>3. jobs' = [jobs EXCEPT ![j] = r]
    OBVIOUS
<1> HIDE DEF r
<1>4. JobBecomes(j, r.at, r.item, r.number, r.made, r.told)
    BY <1>2, <1>3, JobUpdated
<1> QED
    BY <1>2, <1>4

LEMMA JobStateNames ==
    /\ {"none", "build", "sign", "wait", "announce", "reload", "await", "over"} \subseteq JobStates
    /\ {"none", "failed", "success"} \subseteq ToldStates
BY DEF JobStates, ToldStates

LEMMA BuildKeeps ==
    ASSUME JobsInv, NEW j \in JobIds, Build(j)
    PROVE  JobsInv' /\ JobStep(j)
<1> DEFINE job == jobs[j]
           own == OwnIn(j, sent)
<1>1. job \in JobRecords /\ JobOK(job, own, loads[j])
    BY JobType
<1>2. /\ job.at = "build" /\ jobs' = [jobs EXCEPT ![j].at = "sign", ![j].number = sequence + 1]
      /\ UNCHANGED <<shown, pageLoading, busy, loads, sequence, version, view, owed, crossed, sent>>
    BY DEF Build
<1>3. JobBecomes(j, "sign", job.item, sequence + 1, job.made, job.told)
    <2>1. sequence + 1 \in Nat /\ jobs \in [JobIds -> JobRecords]
        BY DEF JobsInv, PageTypeOK
    <2> QED
        BY <1>2, <2>1, SetAtNumber, JobStateNames
<1>4. JobStep(j)
    BY <1>2, <1>3 DEF JobStep, Running, Holds, JobBecomes
<1>5. JobOK(jobs'[j], own, loads[j])
    BY <1>1, <1>2, <1>3 DEF JobBecomes, JobOK, SentInOrder, ToldTrue, SingleApplied, LoadAwaited
<1>6. AllJobsOK'
    BY <1>2, <1>4, <1>5, OtherJobs
<1> QED
    BY <1>2, <1>3, <1>4, <1>6, JobStepOrder DEF JobsInv, PageTypeOK, JobBecomes

LEMMA SignAndSendKeeps ==
    ASSUME JobsInv, NEW j \in JobIds, SignAndSend(j)
    PROVE  JobsInv' /\ JobStep(j)
<1> DEFINE job == jobs[j]
           own == OwnIn(j, sent)
           new == [job |-> j, item |-> job.item, number |-> job.number, fate |-> "queued", left |-> FALSE]
<1>1. job \in JobRecords /\ JobOK(job, own, loads[j])
    BY JobType
<1>2. /\ job.at = "sign" /\ jobs' = [jobs EXCEPT ![j].at = "wait", ![j].number = 0]
      /\ sent' = sent \cup {new}
      /\ UNCHANGED <<shown, pageLoading, busy, loads, sequence, version, view, owed, crossed>>
    BY DEF SignAndSend
<1>3. JobBecomes(j, "wait", job.item, 0, job.made, job.told)
    <2>1. jobs \in [JobIds -> JobRecords] /\ 0 \in Nat
        BY DEF JobsInv, PageTypeOK
    <2> QED
        BY <1>2, <2>1, SetAtNumber, JobStateNames
<1>4. JobStep(j)
    BY <1>2, <1>3 DEF JobStep, Running, Holds, JobBecomes
<1>5. new \in TxRecords /\ new.job = j /\ new.item = job.item
    BY <1>1 DEF TxRecords, JobRecords
<1> HIDE DEF new
<1>6. OwnIn(j, sent') = own \cup {new} /\ \A i \in JobIds \ {j} : OwnIn(i, sent') = OwnIn(i, sent)
    BY <1>2, <1>5 DEF OwnIn
<1>7. SentInOrder(jobs'[j], own \cup {new})
    <2>1. /\ 1 <= job.item /\ \A t \in own : 1 <= t.item /\ t.item < job.item /\ t \in TxRecords
          /\ \A t, u \in own : t.item = u.item => t = u
        BY <1>1, <1>2, JobType DEF JobOK, SentInOrder
    <2>2. /\ job.item \in Nat /\ jobs'[j].at = "wait" /\ jobs'[j].item = job.item
          /\ \A t \in own : t.item \in Nat /\ t.item # job.item
        BY <1>1, <1>3, <2>1 DEF JobBecomes, JobRecords, TxRecords
    <2>3. \A t \in own \cup {new} : 1 <= t.item /\ t.item <= job.item
        BY <1>5, <2>1, <2>2
    <2>4. \A t, u \in own \cup {new} : t.item = u.item => t = u
        BY <1>5, <2>1, <2>2
    <2> QED
        BY <1>5, <2>1, <2>2, <2>3, <2>4 DEF SentInOrder
<1>8. JobOK(jobs'[j], own \cup {new}, loads[j])
    BY <1>1, <1>2, <1>3, <1>7 DEF JobBecomes, JobOK, ToldTrue, SingleApplied, LoadAwaited
<1>9. AllJobsOK'
    BY <1>2, <1>4, <1>6, <1>8, OtherJobs
<1> QED
    BY <1>2, <1>3, <1>4, <1>5, <1>9, JobStepOrder DEF JobsInv, PageTypeOK, JobBecomes

-----------------------------------------------------------------------------
(* Exceptions *)

ThrewTo(j) ==
    \/ /\ jobs[j].kind.sends = "batch"
       /\ JobBecomes(j, "build", jobs[j].item + 1, jobs[j].number, jobs[j].made, "failed")
    \/ /\ jobs[j].kind.sends = "batch"
       /\ JobBecomes(j, "reload", jobs[j].item, jobs[j].number, jobs[j].made, "failed")
    \/ /\ jobs[j].kind.sends # "batch"
       /\ JobBecomes(j, "over", jobs[j].item, jobs[j].number, jobs[j].made, "failed")

LEMMA ThrowFacts ==
    ASSUME JobsInv, NEW j \in JobIds, jobs[j].at \in {"build", "sign", "wait"}, Throw(j), shown' = shown
    PROVE  ThrewTo(j) /\ JobStep(j)
<1> DEFINE job == jobs[j]
<1>1. jobs \in [JobIds -> JobRecords] /\ job.item + 1 \in Nat
    BY JobType DEF JobsInv, PageTypeOK, JobRecords
<1>2. CASE LastItem(j) /\ job.kind.sends = "batch"
    <2>1. /\ jobs' = [jobs EXCEPT ![j].told = "failed", ![j].at = "reload"]
          /\ busy' = busy \ {job.kind.flag}
        BY <1>2 DEF Throw, Finally, IsBatch
    <2>2. JobBecomes(j, "reload", job.item, job.number, job.made, "failed")
        BY <1>1, <2>1, SetToldAt, JobStateNames
    <2> QED
        BY <1>2, <2>1, <2>2 DEF ThrewTo, JobStep, JobBecomes, Running, Holds
<1>3. CASE LastItem(j) /\ job.kind.sends # "batch"
    <2>1. /\ jobs' = [jobs EXCEPT ![j].told = "failed", ![j].at = "over"]
          /\ busy' = busy \ {job.kind.flag}
        BY <1>3 DEF Throw, Finally, IsBatch
    <2>2. JobBecomes(j, "over", job.item, job.number, job.made, "failed")
        BY <1>1, <2>1, SetToldAt, JobStateNames
    <2> QED
        BY <1>3, <2>1, <2>2 DEF ThrewTo, JobStep, JobBecomes, Running, Holds
<1>4. CASE ~LastItem(j)
    <2>1. /\ jobs' = [jobs EXCEPT ![j].told = "failed", ![j].item = job.item + 1, ![j].at = "build"]
          /\ busy' = busy
        BY <1>4 DEF Throw
    <2>2. JobBecomes(j, "build", job.item + 1, job.number, job.made, "failed")
        BY <1>1, <2>1, SetToldItemAt, JobStateNames
    <2> QED
        BY <1>4, <2>1, <2>2 DEF ThrewTo, JobStep, JobBecomes, Running, Holds, LastItem, IsBatch
<1> QED
    BY <1>2, <1>3, <1>4

LEMMA NotSentKeeps ==
    ASSUME JobsInv, NEW j \in JobIds, NotSent(j)
    PROVE  JobsInv' /\ JobStep(j) /\ ThrewTo(j)
<1> DEFINE job == jobs[j]
           own == OwnIn(j, sent)
<1>1. job \in JobRecords /\ JobOK(job, own, loads[j]) /\ job.item \in Nat
    BY JobType DEF JobRecords
<1>2. /\ job.at \in {"build", "sign"} /\ Throw(j)
      /\ UNCHANGED <<shown, pageLoading, loads, sequence, version, view, owed, crossed, sent>>
    BY DEF NotSent
<1>3. ThrewTo(j) /\ JobStep(j)
    BY <1>2, ThrowFacts
<1>4. \A t \in own : t.item \in Nat /\ 1 <= t.item /\ t.item < job.item
    BY <1>1, <1>2, JobType DEF JobOK, SentInOrder, TxRecords
<1>5. SentInOrder(jobs'[j], own)
    BY <1>1, <1>2, <1>3, <1>4 DEF ThrewTo, JobBecomes, JobOK, SentInOrder
<1>6. ToldTrue(jobs'[j], own)
    BY <1>3, <1>4 DEF ThrewTo, JobBecomes, ToldTrue, FailureTrue
<1>7. SingleApplied(jobs'[j], own) /\ LoadAwaited(jobs'[j], loads[j])
    BY <1>1, <1>2, <1>3 DEF ThrewTo, JobBecomes, JobOK, SingleApplied, LoadAwaited
<1>8. AllJobsOK'
    BY <1>2, <1>3, <1>5, <1>6, <1>7, OtherJobs DEF JobOK
<1> QED
    BY <1>2, <1>3, <1>8, JobStepOrder DEF JobsInv, PageTypeOK, JobStep

\* The transaction a handler waits for is the one it has sent for its item.
LEMMA MyTxIsMine ==
    ASSUME JobsInv, NEW j \in JobIds, jobs[j].at = "wait"
    PROVE  /\ MyTx(j) \in sent /\ MyTx(j) \in OwnIn(j, sent) /\ MyTx(j).item = jobs[j].item
           /\ \A t \in OwnIn(j, sent) : t.item = jobs[j].item => t = MyTx(j)
<1>1. SentInOrder(jobs[j], OwnIn(j, sent))
    BY JobType DEF JobOK
<1>2. \E t \in sent : t.job = j /\ t.item = jobs[j].item
    BY <1>1 DEF SentInOrder, OwnIn
<1>3. MyTx(j) \in sent /\ MyTx(j).job = j /\ MyTx(j).item = jobs[j].item
    BY <1>2 DEF MyTx
<1>4. MyTx(j) \in OwnIn(j, sent)
    BY <1>3 DEF OwnIn
<1> QED
    BY <1>1, <1>3, <1>4 DEF SentInOrder

\* One transaction is replaced by its later self.
LEMMA Replaced ==
    ASSUME NEW m \in sent, NEW c, c.job = m.job
    PROVE  /\ OwnIn(m.job, With(m, c)) = (OwnIn(m.job, sent) \ {m}) \cup {c}
           /\ \A i : i # m.job => OwnIn(i, With(m, c)) = OwnIn(i, sent)
BY DEF OwnIn, With

LEMMA ReplacedInOrder ==
    ASSUME NEW job, NEW own, NEW m \in own, NEW c, c.item = m.item, SentInOrder(job, own)
    PROVE  SentInOrder(job, (own \ {m}) \cup {c})
BY DEF SentInOrder

LEMMA SubmitThrowsKeeps ==
    ASSUME JobsInv, NEW j \in JobIds, SubmitThrows(j)
    PROVE  JobsInv' /\ JobStep(j) /\ ThrewTo(j)
<1> DEFINE job == jobs[j]
           own == OwnIn(j, sent)
           m == MyTx(j)
           c == [m EXCEPT !.left = TRUE]
           own2 == OwnIn(j, sent')
<1>1. job \in JobRecords /\ JobOK(job, own, loads[j]) /\ job.item \in Nat
    BY JobType DEF JobRecords
<1>2. /\ job.at = "wait" /\ Throw(j)
      /\ sent' = IF m.fate \in {"bad", "failed"} THEN sent ELSE With(m, c)
      /\ UNCHANGED <<shown, pageLoading, loads, sequence, version, view, owed, crossed>>
    BY DEF SubmitThrows
<1>3. ThrewTo(j) /\ JobStep(j)
    BY <1>2, ThrowFacts
<1>4. /\ m \in sent /\ m \in own /\ m.item = job.item /\ m.job = j /\ m \in TxRecords
      /\ \A t \in own : t.item = job.item => t = m
    BY <1>2, MyTxIsMine, JobType
<1>5. c \in TxRecords /\ c.job = m.job /\ c.item = m.item /\ c.left = TRUE
    BY <1>4 DEF TxRecords
<1> HIDE DEF m, c
<1>6. sent' \subseteq TxRecords
    BY <1>2, <1>5 DEF With, JobsInv, PageTypeOK
<1>7. /\ own2 = IF m.fate \in {"bad", "failed"} THEN own ELSE (own \ {m}) \cup {c}
      /\ \A i \in JobIds \ {j} : OwnIn(i, sent') = OwnIn(i, sent)
    BY <1>2, <1>4, <1>5, Replaced
<1>8. SentInOrder(job, own2)
    BY <1>1, <1>4, <1>5, <1>7, ReplacedInOrder DEF JobOK
<1>9. \A t \in own2 : t.item = job.item => t.left \/ t.fate \in {"bad", "failed"}
    BY <1>4, <1>5, <1>7
<1>10. \A t \in own2 : t \in TxRecords /\ t.item \in Nat
    BY <1>6 DEF OwnIn, TxRecords
<1> HIDE DEF own2
<1>11. SentInOrder(jobs'[j], own2)
    <2>1. job.at # "none"
        BY <1>2
    <2>2. \A t \in own2 : 1 <= t.item /\ t.item <= job.item /\ t.item < job.item + 1
        BY <1>1, <1>8, <1>10 DEF SentInOrder
    <2>3. /\ 1 <= job.item /\ 1 <= job.item + 1
          /\ \A t \in own2 : t.item <= job.item + 1
          /\ \A t, u \in own2 : t.item = u.item => t = u
        BY <1>1, <1>8, <1>10, <2>1, <2>2 DEF SentInOrder
    <2>4. \/ jobs'[j].at = "build" /\ jobs'[j].item = job.item + 1
          \/ jobs'[j].at \in {"reload", "over"} /\ jobs'[j].item = job.item
        BY <1>3 DEF ThrewTo, JobBecomes
    <2> QED
        BY <2>2, <2>3, <2>4 DEF SentInOrder
<1>12. ToldTrue(jobs'[j], own2)
    BY <1>3, <1>9 DEF ThrewTo, JobBecomes, ToldTrue, FailureTrue
<1>13. SingleApplied(jobs'[j], own2) /\ LoadAwaited(jobs'[j], loads[j])
    BY <1>1, <1>2, <1>3 DEF ThrewTo, JobBecomes, JobOK, SingleApplied, LoadAwaited
<1>14. AllJobsOK'
    BY <1>2, <1>3, <1>7, <1>11, <1>12, <1>13, OtherJobs DEF JobOK, own2
<1> QED
    BY <1>2, <1>3, <1>6, <1>14, JobStepOrder DEF JobsInv, PageTypeOK, JobStep

-----------------------------------------------------------------------------
(* The ledger, the announcement and the reload *)

\* What the ledger does to a transaction and to its job.
LEMMA LedgerFacts ==
    ASSUME JobsInv, NEW t \in sent, NEW succeeds \in BOOLEAN, LedgerTakes(t, succeeds)
    PROVE  /\ t \in TxRecords /\ t.job \in JobIds /\ t.fate = "queued"
           /\ \E c \in TxRecords :
                 /\ sent' = With(t, c) /\ c.job = t.job /\ c.item = t.item /\ c.left = t.left
                 /\ c.fate \in {"bad", "applied", "failed"}
                 /\ c.fate = "bad" => t.number # sequence + 1
           /\ jobs' \in [JobIds -> JobRecords]
           /\ \A j \in JobIds :
                 /\ jobs'[j].at = jobs[j].at /\ jobs'[j].kind = jobs[j].kind
                 /\ jobs'[j].item = jobs[j].item /\ jobs'[j].told = jobs[j].told
                 /\ jobs'[j].number = jobs[j].number
                 /\ jobs'[j].made = jobs[j].made \/ (j = t.job /\ jobs'[j].made = version')
           /\ \A j \in JobIds : jobs[j].at = "none" /\ j # t.job => jobs'[j] = jobs[j]
           /\ version \in Nat /\ version' \in Nat /\ version <= version'
           /\ sequence' = IF t.number = sequence + 1 THEN sequence + 1 ELSE sequence
           /\ UNCHANGED <<shown, pageLoading, busy, loads, view, owed, crossed>>
<1> DEFINE next == t.number = sequence + 1
           fate == IF ~next THEN "bad" ELSE IF succeeds THEN "applied" ELSE "failed"
           c == [t EXCEPT !.number = 0, !.fate = fate]
<1>1. t \in TxRecords /\ t.job \in JobIds /\ jobs \in [JobIds -> JobRecords] /\ version \in Nat
    BY DEF JobsInv, PageTypeOK, TxRecords
<1>2. /\ t.fate = "queued" /\ sent' = With(t, c)
      /\ sequence' = IF next THEN sequence + 1 ELSE sequence
      /\ version' = IF next /\ succeeds THEN version + 1 ELSE version
      /\ jobs' = IF next /\ succeeds THEN [jobs EXCEPT ![t.job].made = version'] ELSE jobs
      /\ UNCHANGED <<shown, pageLoading, busy, loads, view, owed, crossed>>
    BY DEF LedgerTakes
<1>3. fate \in {"bad", "applied", "failed"} /\ (fate = "bad" => ~next)
    OBVIOUS
<1> HIDE DEF fate
<1>4. /\ c \in TxRecords /\ c.job = t.job /\ c.item = t.item /\ c.left = t.left /\ c.fate = fate
    BY <1>1, <1>3 DEF TxRecords
<1> HIDE DEF c
<1>5. version' \in Nat /\ version <= version'
    BY <1>1, <1>2
<1>6. CASE jobs' = jobs
    BY <1>1, <1>2, <1>3, <1>4, <1>5, <1>6
<1>7. CASE jobs' = [jobs EXCEPT ![t.job].made = version']
    <2>1. JobBecomes(t.job, jobs[t.job].at, jobs[t.job].item, jobs[t.job].number, version', jobs[t.job].told)
        BY <1>1, <1>5, <1>7, SetMade
    <2> QED
        BY <1>1, <1>2, <1>3, <1>4, <1>5, <2>1 DEF JobBecomes
<1> QED
    BY <1>2, <1>6, <1>7

LEMMA LedgerTakesKeeps ==
    ASSUME JobsInv, NEW t \in sent, NEW succeeds \in BOOLEAN, LedgerTakes(t, succeeds)
    PROVE  JobsInv'
<1>1. /\ t \in TxRecords /\ t.job \in JobIds /\ t.fate = "queued"
      /\ jobs' \in [JobIds -> JobRecords]
      /\ \A j \in JobIds :
            /\ jobs'[j].at = jobs[j].at /\ jobs'[j].kind = jobs[j].kind
            /\ jobs'[j].item = jobs[j].item /\ jobs'[j].told = jobs[j].told
      /\ \A j \in JobIds : jobs[j].at = "none" /\ j # t.job => jobs'[j] = jobs[j]
      /\ version' \in Nat
      /\ sequence' = IF t.number = sequence + 1 THEN sequence + 1 ELSE sequence
      /\ UNCHANGED <<shown, pageLoading, busy, loads, view, owed, crossed>>
    BY LedgerFacts
<1>2. PICK c \in TxRecords :
          /\ sent' = With(t, c) /\ c.job = t.job /\ c.item = t.item /\ c.left = t.left
          /\ c.fate \in {"bad", "applied", "failed"}
    BY LedgerFacts
<1>3. PageTypeOK'
    BY <1>1, <1>2 DEF JobsInv, PageTypeOK, With
<1>4. jobs[t.job].at # "none" /\ t \in OwnIn(t.job, sent)
    BY <1>1, JobType DEF JobOK, SentInOrder, OwnIn
<1>5. ClickedInOrder'
    <2>1. Clicked' = Clicked /\ Kinds' = Kinds
        BY <1>1 DEF Clicked, Kinds
    <2>2. \E n \in Nat : Clicked' = 1 .. n
        BY <2>1 DEF JobsInv, ClickedInOrder
    <2>3. \A i \in JobIds : IF jobs'[i].at = "none" THEN jobs'[i] = NoJob ELSE jobs'[i].kind \in Kinds
        BY <1>1, <1>4 DEF JobsInv, ClickedInOrder
    <2> QED
        BY <2>1, <2>2, <2>3 DEF ClickedInOrder
<1>6. ASSUME NEW j \in JobIds
      PROVE  JobOK(jobs'[j], OwnIn(j, sent'), loads'[j])
    <2> DEFINE own == OwnIn(j, sent)
    <2>1. JobOK(jobs[j], own, loads[j]) /\ loads' = loads
        BY <1>1, JobType
    <2>2. CASE j # t.job
        <3>1. OwnIn(j, sent') = own
            BY <1>2, <2>2, Replaced
        <3> QED
            BY <1>1, <2>1, <3>1 DEF JobOK, SentInOrder, ToldTrue, SingleApplied, LoadAwaited,
                                    SuccessTrue, FailureTrue
    <2>3. CASE j = t.job
        <3> DEFINE own2 == (own \ {t}) \cup {c}
        <3>1. OwnIn(j, sent') = own2 /\ t \in own
            BY <1>2, <1>4, <2>3, Replaced
        <3>2. SentInOrder(jobs[j], own2)
            BY <1>2, <2>1, <3>1, ReplacedInOrder DEF JobOK
        <3>3. SuccessTrue(jobs[j], own) => SuccessTrue(jobs[j], own2)
            BY <1>1, <3>1 DEF SuccessTrue
        <3>4. FailureTrue(jobs[j], own) => FailureTrue(jobs[j], own2)
            BY <1>1, <1>2, <3>1 DEF FailureTrue
        <3>5. SingleApplied(jobs[j], own2)
            BY <1>1, <2>1, <3>1 DEF JobOK, SingleApplied
        <3>6. JobOK(jobs[j], own2, loads[j])
            BY <2>1, <3>2, <3>3, <3>4, <3>5 DEF JobOK, ToldTrue
        <3> HIDE DEF own2
        <3> QED
            BY <1>1, <2>1, <3>1, <3>6 DEF JobOK, SentInOrder, ToldTrue, SingleApplied, LoadAwaited,
                                    SuccessTrue, FailureTrue
    <2> QED
        BY <2>2, <2>3
<1> QED
    BY <1>3, <1>5, <1>6 DEF JobsInv, AllJobsOK

LEMMA ConfirmedKeeps ==
    ASSUME JobsInv, NEW j \in JobIds, Confirmed(j)
    PROVE  JobsInv' /\ JobStep(j)
<1> DEFINE job == jobs[j]
           own == OwnIn(j, sent)
<1>1. job \in JobRecords /\ JobOK(job, own, loads[j])
    BY JobType
<1>2. /\ job.at = "wait" /\ MyTx(j).fate = "applied" /\ jobs' = [jobs EXCEPT ![j].at = "announce"]
      /\ UNCHANGED <<shown, pageLoading, busy, loads, sequence, version, view, owed, crossed, sent>>
    BY DEF Confirmed
<1>3. JobBecomes(j, "announce", job.item, job.number, job.made, job.told)
    BY <1>2, SetAt, JobStateNames DEF JobsInv, PageTypeOK
<1>4. JobStep(j)
    BY <1>2, <1>3 DEF JobStep, Running, Holds, JobBecomes
<1>5. /\ \E t \in own : t.item = job.item /\ t.fate = "applied"
      /\ \A t \in own : t.item = job.item => t.fate = "applied"
    BY <1>2, MyTxIsMine
<1>6. SentInOrder(jobs'[j], own) /\ LoadAwaited(jobs'[j], loads[j])
    BY <1>1, <1>2, <1>3 DEF JobBecomes, JobOK, SentInOrder, LoadAwaited
<1>7. ToldTrue(jobs'[j], own)
    BY <1>3, <1>5 DEF JobBecomes, ToldTrue, SuccessTrue
<1>8. SingleApplied(jobs'[j], own)
    <2> SUFFICES ASSUME job.kind.sends # "batch", NEW t \in own
                 PROVE  job.item = 1 /\ t.fate = "applied"
        BY <1>1, <1>2, <1>3 DEF JobBecomes, SingleApplied, JobOK
    <2>1. job.item = 1 /\ 1 <= t.item /\ t.item <= job.item /\ t.item \in Nat
        BY <1>1, <1>2, JobType DEF JobOK, SingleApplied, SentInOrder, TxRecords
    <2> QED
        BY <1>5, <2>1
<1>9. AllJobsOK'
    BY <1>2, <1>4, <1>6, <1>7, <1>8, OtherJobs DEF JobOK
<1> QED
    BY <1>2, <1>3, <1>4, <1>9, JobStepOrder DEF JobsInv, PageTypeOK, JobBecomes

LEMMA AnnounceKeeps ==
    ASSUME JobsInv, NEW j \in JobIds, Announce(j)
    PROVE  JobsInv' /\ JobStep(j)
<1> DEFINE job == jobs[j]
           own == OwnIn(j, sent)
<1>1. job \in JobRecords /\ JobOK(job, own, loads[j]) /\ job.item \in Nat
    BY JobType DEF JobRecords
<1>2. /\ job.at = "announce"
      /\ busy' = IF IsBatch(j) /\ LastItem(j) THEN busy \ {job.kind.flag} ELSE busy
      /\ UNCHANGED <<shown, pageLoading, loads, sequence, version, view, owed, crossed, sent>>
    BY DEF Announce, Finally
<1>3. \/ /\ LastItem(j)
         /\ JobBecomes(j, "reload", job.item, job.number, job.made, "success")
      \/ /\ job.kind.sends = "batch" /\ ~LastItem(j)
         /\ JobBecomes(j, "build", job.item + 1, job.number, job.made, "success")
    <2>0. jobs \in [JobIds -> JobRecords] /\ job.item + 1 \in Nat
        BY <1>1 DEF JobsInv, PageTypeOK
    <2>1. CASE LastItem(j)
        <3>1. jobs' = [jobs EXCEPT ![j].told = "success", ![j].at = "reload"]
            BY <2>1 DEF Announce
        <3> QED
            BY <2>0, <2>1, <3>1, SetToldAt, JobStateNames
    <2>2. CASE ~LastItem(j)
        <3>1. jobs' = [jobs EXCEPT ![j].told = "success", ![j].item = job.item + 1, ![j].at = "build"]
            BY <2>2 DEF Announce
        <3>2. job.kind.sends = "batch"
            BY <2>2 DEF LastItem, IsBatch
        <3> QED
            BY <2>0, <2>2, <3>1, <3>2, SetToldItemAt, JobStateNames
    <2> QED
        BY <2>1, <2>2
<1>4. JobStep(j)
    BY <1>2, <1>3 DEF JobStep, Running, Holds, JobBecomes, IsBatch
<1>5. SentInOrder(jobs'[j], own)
    <2>1. /\ 1 <= job.item /\ 1 <= job.item + 1
          /\ \A t \in own : 1 <= t.item /\ t.item <= job.item /\ t.item < job.item + 1 /\ t.item <= job.item + 1
          /\ \A t, u \in own : t.item = u.item => t = u
        BY <1>1, <1>2, JobType DEF JobOK, SentInOrder, TxRecords
    <2> QED
        BY <1>3, <2>1 DEF JobBecomes, SentInOrder
<1>6. ToldTrue(jobs'[j], own) /\ SingleApplied(jobs'[j], own) /\ LoadAwaited(jobs'[j], loads[j])
    BY <1>1, <1>2, <1>3 DEF JobBecomes, JobOK, ToldTrue, SuccessTrue, SingleApplied, LoadAwaited
<1>7. AllJobsOK'
    BY <1>2, <1>4, <1>5, <1>6, OtherJobs DEF JobOK
<1> QED
    BY <1>2, <1>3, <1>4, <1>7, JobStepOrder DEF JobsInv, PageTypeOK, JobBecomes

LEMMA LoadNames ==
    /\ NoLoad \in LoadRecords /\ NoLoad.at = "none" /\ Done \in LoadRecords /\ Done.at = "done"
    /\ Asked \in LoadRecords /\ Asked.at = "asked"
BY DEF NoLoad, Done, Asked, LoadRecords

\* A reload: which loads it starts and which it drops.
LEMMA ReloadFacts ==
    ASSUME JobsInv, NEW j \in JobIds, Reload(j)
    PROVE  /\ jobs[j].at = "reload" /\ UNCHANGED <<shown, sequence, version, sent>>
           /\ JobBecomes(j, IF jobs[j].kind.reload \in {"none", "local"} THEN "over" ELSE "await",
                         jobs[j].item, jobs[j].number, jobs[j].made, jobs[j].told)
           /\ busy' = IF jobs'[j].at = "over" /\ jobs[j].kind.sends # "batch"
                      THEN busy \ {jobs[j].kind.flag} ELSE busy
           /\ loads' \in [LoadIds -> LoadRecords]
           /\ loads'[j] = Asked \/ loads'[j] = loads[j]
           /\ jobs[j].kind.reload \in {"none", "local"} => loads' = loads
           /\ \A l \in LoadIds \ {j} : loads'[l] = loads[l] \/ loads'[l] \in {NoLoad, Done}
           /\ jobs[j].kind.reload = "swr" => \A l \in LoadIds \ {j} : loads'[l] \in {NoLoad, Done}
<1> DEFINE reload == jobs[j].kind.reload
           s == IF reload \in {"none", "local"} THEN "over" ELSE "await"
<1>1. /\ jobs[j].at = "reload" /\ UNCHANGED <<shown, sequence, version, sent>>
      /\ jobs' = [jobs EXCEPT ![j].at = s]
      /\ busy' = IF reload \in {"none", "local"} /\ jobs[j].kind.sends # "batch"
                 THEN busy \ {jobs[j].kind.flag} ELSE busy
    BY DEF Reload, FinallyAfterReload, Finally, IsBatch
<1>2. s \in JobStates /\ (s = "over" <=> reload \in {"none", "local"})
    BY JobStateNames
<1>3. JobBecomes(j, s, jobs[j].item, jobs[j].number, jobs[j].made, jobs[j].told)
    <2> HIDE DEF s
    <2> QED
        BY <1>1, <1>2, SetAt DEF JobsInv, PageTypeOK
<1>4. loads' = CASE reload = "swr" ->
                        [l \in LoadIds |-> IF l = j THEN Asked
                                           ELSE IF loads[l] = NoLoad THEN NoLoad ELSE Done]
                 [] reload \in {"load", "read"} -> [loads EXCEPT ![j] = Asked]
                 [] OTHER -> loads
    BY DEF Reload
<1>5. j \in LoadIds /\ loads \in [LoadIds -> LoadRecords]
    BY DEF LoadIds, JobsInv, PageTypeOK
<1>6. CASE reload = "swr"
    BY <1>1, <1>2, <1>3, <1>4, <1>5, <1>6, LoadNames DEF JobBecomes
<1>7. CASE reload \in {"load", "read"}
    <2>1. loads' = [loads EXCEPT ![j] = Asked] /\ reload # "swr"
        BY <1>4, <1>7
    <2> QED
        BY <1>1, <1>2, <1>3, <1>5, <1>7, <2>1, LoadNames DEF JobBecomes
<1>8. CASE reload \notin {"swr", "load", "read"}
    <2>1. loads' = loads /\ reload # "swr"
        BY <1>4, <1>8
    <2> QED
        BY <1>1, <1>2, <1>3, <1>5, <2>1 DEF JobBecomes
<1> QED
    BY <1>6, <1>7, <1>8

LEMMA ReloadKeeps ==
    ASSUME JobsInv, NEW j \in JobIds, Reload(j)
    PROVE  JobsInv' /\ JobStep(j)
<1> DEFINE job == jobs[j]
           own == OwnIn(j, sent)
<1>1. job \in JobRecords /\ JobOK(job, own, loads[j])
    BY JobType
<1>2. job.at = "reload" /\ UNCHANGED <<shown, sequence, version, sent>>
    BY ReloadFacts
<1>3. /\ jobs'[j].at \in {"over", "await"} /\ jobs'[j].kind = job.kind /\ jobs'[j].item = job.item
      /\ jobs'[j].told = job.told /\ jobs' \in [JobIds -> JobRecords]
    BY ReloadFacts DEF JobBecomes
<1>4. JobStep(j)
    BY <1>2, <1>3, ReloadFacts DEF JobStep, Running, Holds, JobBecomes
<1>5. LoadAwaited(jobs'[j], loads'[j])
    <2>1. CASE job.kind.reload \in {"none", "local"}
        BY <1>1, <1>2, <2>1, ReloadFacts DEF LoadAwaited, JobOK
    <2>2. CASE job.kind.reload \notin {"none", "local"}
        BY <2>2, ReloadFacts DEF LoadAwaited, JobBecomes
    <2> QED
        BY <2>1, <2>2
<1>6. JobOK(jobs'[j], own, loads'[j])
    BY <1>1, <1>2, <1>3, <1>5 DEF JobOK, SentInOrder, ToldTrue, SuccessTrue, FailureTrue, SingleApplied
<1>7. \A i \in JobIds \ {j} :
          loads'[i].at \in {"asked", "read"} => loads[i].at \in {"asked", "read"}
    BY ReloadFacts, LoadNames DEF LoadIds
<1>8. AllJobsOK'
    BY <1>2, <1>4, <1>6, <1>7, OtherJobs
<1>9. view' \in Nat /\ owed' \in Nat
    BY <1>1 DEF Reload, Shows, JobsInv, PageTypeOK, JobRecords
<1> QED
    BY <1>2, <1>3, <1>4, <1>8, <1>9, JobStepOrder, ReloadFacts DEF JobsInv, PageTypeOK

-----------------------------------------------------------------------------
(* Loads *)

LEMMA ReloadIdsApart ==
    ASSUME NEW l \in ReloadIds
    PROVE  l \in LoadIds /\ l \notin JobIds /\ l # 0
BY PageAssumption DEF ReloadIds, JobIds, LoadIds

LEMMA ZeroApart == 0 \in LoadIds /\ 0 \notin JobIds
BY PageAssumption DEF JobIds, LoadIds

\* Where the jobs stay as they are and no load of a job starts.
LEMMA LoadsOnly ==
    ASSUME JobsInv, UNCHANGED <<shown, jobs, sent>>,
           \A j \in JobIds : loads'[j].at \in {"asked", "read"} => loads[j].at \in {"asked", "read"}
    PROVE  ClickedInOrder' /\ AllJobsOK'
<1>1. Clicked' = Clicked /\ Kinds' = Kinds
    BY DEF Clicked, Kinds
<1>2. ClickedInOrder'
    BY <1>1 DEF ClickedInOrder, JobsInv
<1>3. AllJobsOK'
    BY DEF JobsInv, AllJobsOK, JobOK, LoadAwaited
<1> QED
    BY <1>2, <1>3

LEMMA LoadAgainKeeps ==
    ASSUME JobsInv, NEW l \in LoadIds, LoadAgain(l)
    PROVE  JobsInv'
<1>1. /\ l \in ReloadIds
      /\ UNCHANGED <<shown, busy, jobs, sequence, version, view, owed, crossed, sent>>
    BY DEF LoadAgain
<1>2. loads' \in [LoadIds -> LoadRecords]
    BY LoadNames DEF LoadAgain, JobsInv, PageTypeOK
<1>3. \A j \in JobIds : loads'[j] = loads[j]
    BY <1>1, ReloadIdsApart DEF LoadAgain, LoadIds
<1>4. ClickedInOrder' /\ AllJobsOK'
    BY <1>1, <1>3, LoadsOnly
<1> QED
    BY <1>1, <1>2, <1>4 DEF JobsInv, PageTypeOK

LEMMA LoadReadsKeeps ==
    ASSUME JobsInv, NEW l \in LoadIds, LoadReads(l)
    PROVE  JobsInv'
<1> DEFINE read == [at |-> "read", version |-> version]
<1>1. /\ loads[l] = Asked /\ loads' = [loads EXCEPT ![l] = read]
      /\ UNCHANGED <<shown, pageLoading, busy, jobs, sequence, version, view, owed, crossed, sent>>
    BY DEF LoadReads
<1>2. read \in LoadRecords
    BY DEF LoadRecords, JobsInv, PageTypeOK
<1> HIDE DEF read
<1>3. \A j \in JobIds : loads'[j] = loads[j] \/ loads[j] = Asked
    BY <1>1 DEF JobsInv, PageTypeOK, LoadIds
<1>4. ClickedInOrder' /\ AllJobsOK'
    BY <1>1, <1>3, LoadsOnly, LoadNames
<1> QED
    BY <1>1, <1>2, <1>4 DEF JobsInv, PageTypeOK

\* A load ends, and with it the handler that awaits it.
LoadEnded(l) ==
    /\ l \in JobIds => JobStep(l) /\ jobs'[l].at = "over" /\ jobs[l].at = "await"
    /\ l \notin JobIds => UNCHANGED <<jobs, busy>>
    /\ loads' = [loads EXCEPT ![l] = Done] /\ loads[l].at \in {"asked", "read"}
    /\ UNCHANGED <<shown, sequence, version, sent>>

TellsOf(l, told) ==
    l \in JobIds => told = jobs[l].told \/ (told = "failed" /\ jobs[l].kind.reload = "read")

LEMMA SettleKeeps ==
    ASSUME JobsInv, NEW l \in LoadIds, loads[l].at \in {"asked", "read"}, NEW told, Settle(l, told),
           TellsOf(l, told),
           UNCHANGED <<shown, sequence, version, sent>>, view' \in Nat, owed' \in Nat
    PROVE  JobsInv' /\ LoadEnded(l)
<1>1. loads' = [loads EXCEPT ![l] = Done] /\ loads \in [LoadIds -> LoadRecords]
    BY DEF Settle, JobsInv, PageTypeOK
<1>2. loads' \in [LoadIds -> LoadRecords] /\ loads'[l] = Done
      /\ \A k \in LoadIds \ {l} : loads'[k] = loads[k]
    BY <1>1, LoadNames
<1>3. CASE l \in JobIds
    <2> DEFINE job == jobs[l]
               own == OwnIn(l, sent)
    <2>1. job \in JobRecords /\ JobOK(job, own, loads[l]) /\ jobs \in [JobIds -> JobRecords]
        BY <1>3, JobType DEF JobsInv, PageTypeOK
    <2>2. job.at = "await"
        BY <2>1 DEF JobOK, LoadAwaited
    <2>3. /\ jobs' = [jobs EXCEPT ![l].at = "over", ![l].told = told]
          /\ busy' = IF job.kind.sends = "batch" THEN busy ELSE busy \ {job.kind.flag}
        BY <1>3 DEF Settle, FinallyAfterReload, Finally, IsBatch
    <2>4. told \in ToldStates
        BY <1>3, <2>1, JobStateNames DEF JobRecords, TellsOf
    <2>5. JobBecomes(l, "over", job.item, job.number, job.made, told)
        BY <1>3, <2>1, <2>3, <2>4, SetAtTold, JobStateNames
    <2>6. JobStep(l)
        BY <2>2, <2>3, <2>5 DEF JobStep, Running, Holds, JobBecomes
    <2>7. SentInOrder(jobs'[l], own) /\ SingleApplied(jobs'[l], own)
        BY <2>1, <2>2, <2>5 DEF JobBecomes, JobOK, SentInOrder, SingleApplied
    <2>8. ToldTrue(jobs'[l], own)
        BY <1>3, <2>1, <2>2, <2>5 DEF JobBecomes, JobOK, ToldTrue, SuccessTrue, FailureTrue, TellsOf
    <2>9. LoadAwaited(jobs'[l], loads'[l])
        BY <1>2, LoadNames DEF LoadAwaited
    <2>10. \A i \in JobIds \ {l} : loads'[i] = loads[i]
        BY <1>2 DEF LoadIds
    <2>11. AllJobsOK'
        BY <1>3, <2>6, <2>7, <2>8, <2>9, <2>10, OtherJobs DEF JobOK
    <2> QED
        BY <1>1, <1>2, <1>3, <2>2, <2>5, <2>6, <2>11, JobStepOrder
           DEF JobsInv, PageTypeOK, JobBecomes, LoadEnded
<1>4. CASE l \notin JobIds
    <2>1. UNCHANGED <<jobs, busy>>
        BY <1>4 DEF Settle
    <2>2. \A j \in JobIds : loads'[j] = loads[j]
        BY <1>2, <1>4 DEF LoadIds
    <2>3. ClickedInOrder' /\ AllJobsOK'
        BY <2>1, <2>2, LoadsOnly
    <2> QED
        BY <1>1, <1>2, <1>4, <2>1, <2>3 DEF JobsInv, PageTypeOK, LoadEnded
<1> QED
    BY <1>3, <1>4

LEMMA LoadAnswersKeeps ==
    ASSUME JobsInv, NEW l \in LoadIds, LoadAnswers(l)
    PROVE  JobsInv' /\ LoadEnded(l)
<1>1. /\ loads[l].at = "read" /\ view' = loads[l].version
      /\ owed' = owed \/ (l \in JobIds /\ owed' = jobs[l].made)
      /\ Settle(l, IF l \in JobIds THEN jobs[l].told ELSE "none")
      /\ UNCHANGED <<shown, sequence, version, sent>>
    BY DEF LoadAnswers, Shows
<1>2. view' \in Nat
    BY <1>1 DEF JobsInv, PageTypeOK, LoadRecords
<1>3. owed' \in Nat
    BY <1>1, JobType DEF JobsInv, PageTypeOK, JobRecords
<1>4. loads[l].at \in {"asked", "read"}
    BY <1>1
<1>5. \E told : Settle(l, told) /\ TellsOf(l, told)
    BY <1>1 DEF TellsOf
<1> QED
    BY <1>1, <1>2, <1>3, <1>4, <1>5, SettleKeeps

LEMMA LoadFailsKeeps ==
    ASSUME JobsInv, NEW l \in LoadIds, LoadFails(l)
    PROVE  JobsInv' /\ LoadEnded(l)
<1> DEFINE told == IF l \notin JobIds THEN "none"
                   ELSE IF jobs[l].kind.reload = "read" THEN "failed" ELSE jobs[l].told
<1>1. /\ loads[l] = Asked /\ Settle(l, told)
      /\ UNCHANGED <<shown, sequence, version, view, owed, crossed, sent>>
    BY DEF LoadFails
<1>2. loads[l].at \in {"asked", "read"} /\ view' \in Nat /\ owed' \in Nat
    BY <1>1, LoadNames DEF JobsInv, PageTypeOK
<1>3. TellsOf(l, told)
    BY DEF TellsOf
<1> HIDE DEF told
<1> QED
    BY <1>1, <1>2, <1>3, SettleKeeps

LEMMA LoadDroppedKeeps ==
    ASSUME JobsInv, NEW j \in JobIds, LoadDropped(j)
    PROVE  JobsInv' /\ JobStep(j)
<1> DEFINE job == jobs[j]
           own == OwnIn(j, sent)
<1>1. job \in JobRecords /\ JobOK(job, own, loads[j])
    BY JobType
<1>2. /\ job.at = "await" /\ loads[j] = Done /\ jobs' = [jobs EXCEPT ![j].at = "over"]
      /\ busy' = IF job.kind.sends = "batch" THEN busy ELSE busy \ {job.kind.flag}
      /\ UNCHANGED <<shown, pageLoading, loads, sequence, version, view, owed, crossed, sent>>
    BY DEF LoadDropped, FinallyAfterReload, Finally, IsBatch
<1>3. JobBecomes(j, "over", job.item, job.number, job.made, job.told)
    BY <1>2, SetAt, JobStateNames DEF JobsInv, PageTypeOK
<1>4. JobStep(j)
    BY <1>2, <1>3 DEF JobStep, Running, Holds, JobBecomes
<1>5. JobOK(jobs'[j], own, loads[j])
    BY <1>1, <1>2, <1>3, LoadNames DEF JobBecomes, JobOK, SentInOrder, ToldTrue, SuccessTrue,
                FailureTrue, SingleApplied, LoadAwaited
<1>6. AllJobsOK'
    BY <1>2, <1>4, <1>5, OtherJobs
<1> QED
    BY <1>2, <1>3, <1>4, <1>6, JobStepOrder DEF JobsInv, PageTypeOK, JobBecomes

-----------------------------------------------------------------------------
(* Clicks *)

LEMMA NoJobIsJob ==
    /\ NoJob \in JobRecords /\ NoJob.at = "none" /\ NoJob.told = "none" /\ NoJob.made = 0
    /\ NoJob.number = 0
<1>1. NoJob.kind \in HandlerKinds
    BY DEF HandlerKinds
<1>2. NoJob = [at |-> "none", kind |-> NoJob.kind, item |-> 0, number |-> 0, made |-> 0, told |-> "none"]
    BY DEF NoJob
<1>3. [at |-> "none", kind |-> NoJob.kind, item |-> 0, number |-> 0, made |-> 0, told |-> "none"]
          \in JobRecords
    BY <1>1, JobStateNames DEF JobRecords
<1> QED
    BY <1>2, <1>3

LEMMA KindsAreKinds ==
    ASSUME JobsInv
    PROVE  Kinds \subseteq HandlerKinds
BY DEF Kinds, HandlerKinds, JobsInv, PageTypeOK

\* A click takes the first free slot.
ClickedSlot(j, kind) ==
    /\ j \in JobIds /\ jobs[j] = NoJob /\ OwnIn(j, sent) = {}
    /\ jobs' \in [JobIds -> JobRecords] /\ \A i \in JobIds \ {j} : jobs'[i] = jobs[i]
    /\ jobs'[j].at = (IF kind.sends = "nothing" THEN "announce" ELSE "build")
    /\ jobs'[j].kind = kind /\ jobs'[j].item = 1 /\ jobs'[j].made = 0 /\ jobs'[j].told = "none"

LEMMA ClickFacts ==
    ASSUME JobsInv, NEW kind \in Kinds, Click(kind)
    PROVE  \E j \in JobIds :
               /\ ClickedSlot(j, kind)
               /\ \E n \in Nat : Clicked = 1 .. n /\ j = n + 1
<1>1. PICK n \in Nat : Clicked = 1 .. n
    BY DEF JobsInv, ClickedInOrder
<1>2. Cardinality(Clicked) = n
    <2>1. Cardinality(1 .. n) = IF 1 > n THEN 0 ELSE n - 1 + 1
        BY FS_Interval
    <2> QED
        BY <1>1, <2>1
<1> DEFINE s == IF kind.sends = "nothing" THEN "announce" ELSE "build"
           r == [NoJob EXCEPT !.at = s, !.kind = kind, !.item = 1]
           j == n + 1
<1>3. n < MaxClicks /\ jobs' = [jobs EXCEPT ![n + 1] = r]
    BY <1>2 DEF Click
<1>4. j \in JobIds /\ j \notin Clicked
    BY <1>1, <1>3, PageAssumption DEF JobIds
<1>5. jobs[j] = NoJob
    BY <1>4 DEF Clicked, JobsInv, ClickedInOrder
<1>6. OwnIn(j, sent) = {}
    BY <1>4, <1>5, JobType, NoJobIsJob DEF JobOK, SentInOrder
<1>7. s \in JobStates /\ kind \in HandlerKinds
    BY JobStateNames, KindsAreKinds
<1> HIDE DEF s
<1>8. /\ r \in JobRecords /\ r.at = s /\ r.kind = kind /\ r.item = 1 /\ r.made = 0 /\ r.told = "none"
    BY <1>7, NoJobIsJob DEF JobRecords
<1> HIDE DEF r
<1>9. /\ jobs' \in [JobIds -> JobRecords] /\ \A i \in JobIds \ {j} : jobs'[i] = jobs[i]
      /\ jobs'[j] = r
    BY <1>3, <1>4, <1>8 DEF JobsInv, PageTypeOK
<1>10. ClickedSlot(j, kind)
    BY <1>4, <1>5, <1>6, <1>8, <1>9 DEF ClickedSlot, s
<1> QED
    BY <1>1, <1>4, <1>10

LEMMA ClickKeeps ==
    ASSUME JobsInv, NEW kind \in Kinds, Click(kind)
    PROVE  JobsInv'
<1>1. PICK j \in JobIds : ClickedSlot(j, kind) /\ \E n \in Nat : Clicked = 1 .. n /\ j = n + 1
    BY ClickFacts
<1>2. UNCHANGED <<shown, pageLoading, loads, sequence, version, view, owed, crossed, sent>>
    BY DEF Click
<1>3. jobs'[j].at \in {"announce", "build"}
    BY <1>1 DEF ClickedSlot
<1>4. ClickedInOrder'
    <2>1. Clicked' = Clicked \cup {j} /\ Kinds' = Kinds
        BY <1>1, <1>2, <1>3 DEF Clicked, Kinds, ClickedSlot
    <2>2. PICK n \in Nat : Clicked = 1 .. n /\ j = n + 1
        BY <1>1
    <2>3. (1 .. n) \cup {n + 1} = 1 .. (n + 1)
        OBVIOUS
    <2>4. \E k \in Nat : Clicked' = 1 .. k
        BY <2>1, <2>2, <2>3
    <2>5. \A i \in JobIds : IF jobs'[i].at = "none" THEN jobs'[i] = NoJob ELSE jobs'[i].kind \in Kinds
        BY <1>1, <1>3 DEF ClickedSlot, JobsInv, ClickedInOrder
    <2> QED
        BY <2>1, <2>4, <2>5 DEF ClickedInOrder
<1>5. ASSUME NEW i \in JobIds
      PROVE  JobOK(jobs'[i], OwnIn(i, sent), loads[i])
    <2>1. JobOK(jobs[i], OwnIn(i, sent), loads[i])
        BY JobType
    <2>2. CASE i # j
        BY <1>1, <2>1, <2>2 DEF ClickedSlot
    <2>3. CASE i = j
        <3>1. OwnIn(i, sent) = {} /\ loads[i].at \notin {"asked", "read"}
            BY <1>1, <2>1, <2>3, NoJobIsJob DEF ClickedSlot, JobOK, LoadAwaited
        <3> QED
            BY <1>1, <1>3, <2>3, <3>1 DEF ClickedSlot, JobOK, SentInOrder, ToldTrue, SuccessTrue,
                    SingleApplied, LoadAwaited
    <2> QED
        BY <2>2, <2>3
<1> QED
    BY <1>1, <1>2, <1>4, <1>5 DEF JobsInv, PageTypeOK, AllJobsOK, ClickedSlot

-----------------------------------------------------------------------------
(* What the pages have in common *)

FlagNames ==
    {"actionLoading", "collateralLoading", "privacyLoading", "commitLoading"}
      \cup {"loading", "step", "batchRunning", "txLoading"}
      \cup {"token1", "token2", "depositing", "saving"}
      \cup {"purchaseLoading", "claimLoading", "none", "pauseSubmitting"}
      \cup {"cleanupLoading", "submitting", "proposal1", "proposal2"}

\* A button appears in one of three ways, and where a page has a batch it also loads by
\* itself or has nothing to reload.
HandlerFits(h, page) ==
    /\ h.flag \in FlagNames /\ h.gate \in {"loaded", "rows", "open"}
    /\ h.sends = "batch" =>
          (\A g \in page.handlers : g.reload = "none") \/ page.loads \cap {"timer", "input"} # {}
PageFits(page) == \A h \in page.handlers : HandlerFits(h, page)

LEMMA InvoicePagesFit ==
    /\ PageFits(InvoicePage) /\ PageFits(NewInvoicePage) /\ PageFits(ImportPage)
    /\ PageFits(AdminInvoicesPage) /\ PageFits(DefaultsPage)
<1> USE DEF PageFits, HandlerFits, FlagNames, Handler, Shape
<1>1. PageFits(InvoicePage)
    BY DEF InvoicePage, InvoiceLoads, InvoiceActions, InvoiceCollateral, InvoicePrivacyAndCommit
<1>2. PageFits(NewInvoicePage) /\ PageFits(ImportPage)
    BY DEF NewInvoicePage, ImportPage
<1>3. PageFits(AdminInvoicesPage) /\ PageFits(DefaultsPage)
    BY DEF AdminInvoicesPage, AdminInvoiceLoads, DefaultsPage
<1> QED
    BY <1>1, <1>2, <1>3

LEMMA PoolPagesFit ==
    /\ PageFits(InvestPage) /\ PageFits(PortfolioPage) /\ PageFits(LiquidityPage)
    /\ PageFits(TranchesPage) /\ PageFits(AdminTranchesPage) /\ PageFits(YieldPage)
    /\ PageFits(ExchangeRatesPage) /\ PageFits(InsurancePage) /\ PageFits(InsuranceBadge)
    /\ PageFits(LenderPortfolioCard) /\ PageFits(DashboardPage) /\ PageFits(StoragePage)
<1> USE DEF PageFits, HandlerFits, FlagNames, Handler, Shape
<1>1. PageFits(InvestPage) /\ PageFits(TranchesPage) /\ PageFits(AdminTranchesPage)
    BY DEF InvestPage, InvestLoads, TranchesPage, AdminTranchesPage
<1>2. PageFits(PortfolioPage) /\ PageFits(LiquidityPage)
    BY DEF PortfolioPage, LiquidityPage
<1>3. PageFits(YieldPage) /\ PageFits(ExchangeRatesPage)
    BY DEF YieldPage, YieldLoads, ExchangeRatesPage
<1>4. PageFits(InsurancePage) /\ PageFits(InsuranceBadge)
    BY DEF InsurancePage, InsuranceBadge
<1>5. PageFits(LenderPortfolioCard) /\ PageFits(DashboardPage) /\ PageFits(StoragePage)
    BY DEF LenderPortfolioCard, DashboardPage, StoragePage
<1> QED
    BY <1>1, <1>2, <1>3, <1>4, <1>5

LEMMA RegistryPagesFit ==
    /\ PageFits(KycPage) /\ PageFits(CompliancePage) /\ PageFits(OraclesPage)
    /\ PageFits(AttestorsPage) /\ PageFits(RolesPage) /\ PageFits(GovernancePage)
    /\ PageFits(AdminGovernancePage) /\ PageFits(JurorsPage) /\ PageFits(CreditPage)
<1> USE DEF PageFits, HandlerFits, FlagNames, Handler, Shape
<1>1. PageFits(KycPage) /\ PageFits(CompliancePage)
    BY DEF KycPage, CompliancePage
<1>2. PageFits(OraclesPage) /\ PageFits(AttestorsPage)
    BY DEF OraclesPage, AttestorsPage
<1>3. PageFits(RolesPage) /\ PageFits(GovernancePage) /\ PageFits(AdminGovernancePage)
    BY DEF RolesPage, GovernancePage, AdminGovernancePage
<1>4. PageFits(JurorsPage) /\ PageFits(CreditPage)
    BY DEF JurorsPage, CreditPage
<1> QED
    BY <1>1, <1>2, <1>3, <1>4

LEMMA OtherPagesFit ==
    /\ PageFits(SecondaryMarketPage) /\ PageFits(CoFundingPage) /\ PageFits(AgingPage)
    /\ PageFits(AnalyticsPage) /\ PageFits(RevenuePage) /\ PageFits(SmeDashboardPage)
    /\ PageFits(HistoryPage)
BY DEF PageFits, HandlerFits, FlagNames, Handler, Shape, SecondaryMarketPage, CoFundingPage,
       AgingPage, AnalyticsPage, RevenuePage, SmeDashboardPage, HistoryPage

LEMMA PagesFit == ASSUME NEW page \in Pages PROVE PageFits(page)
BY InvoicePagesFit, PoolPagesFit, RegistryPagesFit, OtherPagesFit DEF Pages

LEMMA FourFinite ==
    ASSUME NEW a, NEW b, NEW c, NEW d
    PROVE  IsFiniteSet({a, b, c, d})
<1>1. IsFiniteSet({a}) /\ IsFiniteSet({b}) /\ IsFiniteSet({c}) /\ IsFiniteSet({d})
    BY FS_Singleton
<1>2. IsFiniteSet({a} \cup {b}) /\ IsFiniteSet({c} \cup {d})
    BY <1>1, FS_Union
<1>3. IsFiniteSet(({a} \cup {b}) \cup ({c} \cup {d}))
    BY <1>2, FS_Union
<1>4. ({a} \cup {b}) \cup ({c} \cup {d}) = {a, b, c, d}
    OBVIOUS
<1> QED
    BY <1>3, <1>4

LEMMA FlagNamesFinite == IsFiniteSet(FlagNames)
<1>1. \A S, T : IsFiniteSet(S) /\ IsFiniteSet(T) => IsFiniteSet(S \cup T)
    BY FS_Union
<1> QED
    BY <1>1, FourFinite, Zenon DEF FlagNames

\* On a page without separate flags one flag serves all its buttons.
LEMMA OneFlag ==
    ASSUME shown \in Pages, ~SeparateFlags, NEW k \in Kinds, NEW m \in Kinds
    PROVE  k.flag = m.flag /\ k.flag # "none"
<1>1. k.flag \in Flags(shown) /\ m.flag \in Flags(shown)
    BY DEF Kinds, KindOf, Flags
<1>2. Flags(shown) \subseteq FlagNames
    BY PagesFit DEF PageFits, HandlerFits, Flags
<1>3. IsFiniteSet(Flags(shown))
    BY <1>2, FlagNamesFinite, FS_Subset
<1>4. Cardinality(Flags(shown)) \in Nat /\ ~(Cardinality(Flags(shown)) > 1)
    BY <1>3, FS_CardinalityType DEF SeparateFlags
<1>5. ASSUME k.flag # m.flag PROVE FALSE
    <2>1. {k.flag} \cup {m.flag} \subseteq Flags(shown)
        BY <1>1
    <2>2. IsFiniteSet({k.flag}) /\ Cardinality({k.flag}) = 1
        BY FS_Singleton
    <2>3. IsFiniteSet({k.flag} \cup {m.flag}) /\ Cardinality({k.flag} \cup {m.flag}) = 2
        <3>1. m.flag \notin {k.flag}
            BY <1>5
        <3>2. /\ IsFiniteSet({k.flag} \cup {m.flag})
              /\ Cardinality({k.flag} \cup {m.flag}) =
                    IF m.flag \in {k.flag} THEN Cardinality({k.flag}) ELSE Cardinality({k.flag}) + 1
            BY <2>2, FS_AddElement, Zenon
        <3> QED
            BY <2>2, <3>1, <3>2
    <2>4. Cardinality({k.flag} \cup {m.flag}) <= Cardinality(Flags(shown))
        BY <1>3, <2>1, FS_Subset
    <2> QED
        BY <1>4, <2>3, <2>4
<1> QED
    BY <1>1, <1>5 DEF SeparateFlags

-----------------------------------------------------------------------------
(* The flags *)

LEMMA JobStepFlags ==
    ASSUME FlagsExclude, NEW j \in JobIds, JobStep(j)
    PROVE  FlagsExclude'
<1>1. ASSUME NEW i \in JobIds, Holds(jobs'[i]), jobs'[i].kind.flag # "none"
      PROVE  jobs'[i].kind.flag \in busy'
    BY <1>1 DEF FlagsExclude, JobStep
<1>2. ASSUME NEW i \in JobIds, NEW k \in JobIds, i # k, Holds(jobs'[i]), Holds(jobs'[k]),
             jobs'[i].kind.flag # "none"
      PROVE  jobs'[i].kind.flag # jobs'[k].kind.flag
    BY <1>2 DEF FlagsExclude, JobStep
<1> QED
    BY <1>1, <1>2 DEF FlagsExclude

LEMMA SameFlags ==
    ASSUME FlagsExclude, busy' = busy,
           \A j \in JobIds : jobs'[j].at = jobs[j].at /\ jobs'[j].kind = jobs[j].kind
    PROVE  FlagsExclude'
BY DEF FlagsExclude, Holds

LEMMA ClickFlags ==
    ASSUME JobsInv, FlagsExclude, NEW kind \in Kinds, Click(kind)
    PROVE  FlagsExclude'
<1>1. PICK j \in JobIds : ClickedSlot(j, kind)
    BY ClickFacts
<1>2. kind.flag \notin busy /\ busy' = busy \cup ({kind.flag} \ {"none"})
    BY DEF Click, Enabled
<1>3. \A i \in JobIds \ {j} : jobs'[i] = jobs[i]
    BY <1>1 DEF ClickedSlot
<1>4. jobs'[j].kind = kind
    BY <1>1 DEF ClickedSlot
<1> QED
    BY <1>2, <1>3, <1>4 DEF FlagsExclude, Holds

\* Where one flag serves the page, one handler holds it.
LEMMA OneAtWork ==
    ASSUME JobsInv, FlagsExclude, ~SeparateFlags,
           NEW i \in JobIds, NEW j \in JobIds, Holds(jobs[i]), Holds(jobs[j])
    PROVE  i = j
<1>1. jobs[i].kind \in Kinds /\ jobs[j].kind \in Kinds
    BY DEF JobsInv, ClickedInOrder, Holds
<1>2. jobs[i].kind.flag = jobs[j].kind.flag /\ jobs[i].kind.flag # "none"
    BY <1>1, OneFlag DEF JobsInv, PageTypeOK
<1> QED
    BY <1>2 DEF FlagsExclude

-----------------------------------------------------------------------------
(* The sequence number *)

LEMMA ShownFlags == ASSUME shown' = shown PROVE SeparateFlags' = SeparateFlags
BY DEF SeparateFlags, Flags

\* A transaction on its way is the one its handler waits for.
LEMMA QueuedIsMine ==
    ASSUME JobsInv, NEW t \in sent, jobs[t.job].at = "wait", t.item = jobs[t.job].item
    PROVE  t.job \in JobIds /\ Holds(jobs[t.job]) /\ t = MyTx(t.job)
<1>1. t.job \in JobIds /\ t \in OwnIn(t.job, sent)
    BY DEF JobsInv, PageTypeOK, TxRecords, OwnIn
<1> QED
    BY <1>1, MyTxIsMine DEF Holds

\* A handler that neither waits nor comes to sign leaves the line alone.
LEMMA StepAside ==
    ASSUME JobsInv, NextInLine, NEW j \in JobIds, JobStep(j),
           jobs[j].at # "wait", jobs'[j].at # "sign", sent' = sent, sequence' = sequence
    PROVE  NextInLine'
<1> SUFFICES ASSUME ~SeparateFlags, \A t \in sent : ~t.left
             PROVE  /\ \A t \in sent : t.fate # "bad"
                    /\ \A t \in sent : t.fate = "queued" =>
                          /\ jobs'[t.job].at = "wait" /\ t.item = jobs'[t.job].item
                          /\ t.number = sequence + 1
                    /\ \A i \in JobIds : jobs'[i].at = "sign" => jobs'[i].number = sequence + 1
    BY ShownFlags DEF NextInLine, JobStep
<1>1. \A t \in sent : t.job \in JobIds
    BY DEF JobsInv, PageTypeOK, TxRecords
<1>2. \A i \in JobIds \ {j} : jobs'[i] = jobs[i]
    BY DEF JobStep
<1> QED
    BY <1>1, <1>2 DEF NextInLine

LEMMA BuildInLine ==
    ASSUME JobsInv, FlagsExclude, NextInLine, NEW j \in JobIds, Build(j)
    PROVE  NextInLine'
<1>1. JobStep(j)
    BY BuildKeeps
<1>2. /\ jobs[j].at = "build" /\ jobs'[j].number = sequence + 1
      /\ shown' = shown /\ sent' = sent /\ sequence' = sequence
    BY JobType DEF Build, JobsInv, PageTypeOK, JobRecords
<1> SUFFICES ASSUME ~SeparateFlags, \A t \in sent : ~t.left
             PROVE  /\ \A t \in sent : t.fate # "bad"
                    /\ \A t \in sent : t.fate # "queued"
                    /\ \A i \in JobIds : jobs'[i].at = "sign" => jobs'[i].number = sequence + 1
    BY <1>2, ShownFlags DEF NextInLine
<1>3. Holds(jobs[j])
    BY <1>2 DEF Holds
<1>4. ASSUME NEW t \in sent, t.fate = "queued" PROVE FALSE
    <2>1. jobs[t.job].at = "wait" /\ t.item = jobs[t.job].item
        BY <1>4 DEF NextInLine
    <2> QED
        BY <1>2, <1>3, <2>1, QueuedIsMine, OneAtWork
<1>5. \A i \in JobIds : jobs'[i].at = "sign" => i = j
    BY <1>1, <1>3, OneAtWork DEF JobStep, Holds
<1> QED
    BY <1>2, <1>4, <1>5 DEF NextInLine

LEMMA SignAndSendInLine ==
    ASSUME JobsInv, FlagsExclude, NextInLine, NEW j \in JobIds, SignAndSend(j)
    PROVE  NextInLine'
<1> DEFINE new == [job |-> j, item |-> jobs[j].item, number |-> jobs[j].number,
                   fate |-> "queued", left |-> FALSE]
<1>1. JobStep(j) /\ Holds(jobs[j])
    BY SignAndSendKeeps DEF SignAndSend, Holds
<1>2. /\ jobs[j].at = "sign" /\ jobs'[j].at = "wait" /\ jobs'[j].item = jobs[j].item
      /\ shown' = shown /\ sent' = sent \cup {new} /\ sequence' = sequence
    BY JobType DEF SignAndSend, JobsInv, PageTypeOK, JobRecords
<1>3. /\ new.job = j /\ new.item = jobs[j].item /\ new.number = jobs[j].number
      /\ new.fate = "queued"
    OBVIOUS
<1> HIDE DEF new
<1> SUFFICES ASSUME ~SeparateFlags, \A t \in sent : ~t.left
             PROVE  /\ \A t \in sent \cup {new} : t.fate # "bad"
                    /\ \A t \in sent \cup {new} : t.fate = "queued" =>
                          /\ jobs'[t.job].at = "wait" /\ t.item = jobs'[t.job].item
                          /\ t.number = sequence + 1
                    /\ \A i \in JobIds : jobs'[i].at # "sign"
    BY <1>2, ShownFlags DEF NextInLine
<1>4. \A t \in sent : t.fate # "queued" /\ t.fate # "bad"
    <2>1. ASSUME NEW t \in sent, t.fate = "queued" PROVE FALSE
        <3>1. jobs[t.job].at = "wait" /\ t.item = jobs[t.job].item
            BY <2>1 DEF NextInLine
        <3> QED
            BY <1>1, <1>2, <3>1, QueuedIsMine, OneAtWork
    <2> QED
        BY <2>1 DEF NextInLine
<1>5. new.number = sequence + 1
    BY <1>2, <1>3 DEF NextInLine
<1>6. \A i \in JobIds : jobs'[i].at # "sign"
    <2>1. ASSUME NEW i \in JobIds, i # j, jobs'[i].at = "sign" PROVE FALSE
        <3>1. Holds(jobs[i])
            BY <1>1, <2>1 DEF JobStep, Holds
        <3> QED
            BY <1>1, <2>1, <3>1, OneAtWork
    <2> QED
        BY <1>2, <2>1
<1> QED
    BY <1>2, <1>3, <1>4, <1>5, <1>6

\* The end of a wait: the transaction is no longer queued, or the wait was left.
LEMMA WaitOverInLine ==
    ASSUME JobsInv, FlagsExclude, NextInLine, NEW j \in JobIds, JobStep(j),
           jobs[j].at = "wait", jobs'[j].at # "sign", sequence' = sequence,
           \/ sent' = sent /\ MyTx(j).fate # "queued"
           \/ \E t \in sent' : t.left
    PROVE  NextInLine'
<1> SUFFICES ASSUME ~SeparateFlags, \A t \in sent' : ~t.left
             PROVE  /\ \A t \in sent' : t.fate # "bad"
                    /\ \A t \in sent' : t.fate # "queued"
                    /\ \A i \in JobIds : jobs'[i].at # "sign"
    BY ShownFlags DEF NextInLine, JobStep
<1>1. sent' = sent /\ MyTx(j).fate # "queued" /\ Holds(jobs[j])
    BY DEF Holds
<1>2. ASSUME NEW t \in sent, t.fate = "queued" PROVE FALSE
    <2>1. jobs[t.job].at = "wait" /\ t.item = jobs[t.job].item
        BY <1>1, <1>2 DEF NextInLine
    <2>2. t.job = j /\ t = MyTx(t.job)
        BY <1>1, <2>1, QueuedIsMine, OneAtWork
    <2> QED
        BY <1>1, <1>2, <2>2
<1>3. \A i \in JobIds : jobs'[i].at # "sign"
    BY <1>1, OneAtWork DEF JobStep, Holds
<1> QED
    BY <1>1, <1>2, <1>3 DEF NextInLine

LEMMA SubmitThrowsInLine ==
    ASSUME JobsInv, FlagsExclude, NextInLine, NEW j \in JobIds, SubmitThrows(j)
    PROVE  NextInLine'
<1> DEFINE m == MyTx(j)
           c == [m EXCEPT !.left = TRUE]
<1>1. JobStep(j) /\ jobs'[j].at # "sign"
    BY SubmitThrowsKeeps DEF ThrewTo, JobBecomes
<1>2. /\ jobs[j].at = "wait" /\ sequence' = sequence
      /\ sent' = IF m.fate \in {"bad", "failed"} THEN sent ELSE With(m, c)
    BY DEF SubmitThrows
<1>3. m \in TxRecords
    BY <1>2, MyTxIsMine DEF JobsInv, PageTypeOK
<1>4. c.left
    BY <1>3 DEF TxRecords
<1> HIDE DEF c, m
<1>5. (sent' = sent /\ m.fate # "queued") \/ \E t \in sent' : t.left
    BY <1>2, <1>4 DEF With
<1> QED
    BY <1>1, <1>2, <1>5, WaitOverInLine DEF m

LEMMA LedgerInLine ==
    ASSUME JobsInv, FlagsExclude, NextInLine, NEW t \in sent, NEW succeeds \in BOOLEAN,
           LedgerTakes(t, succeeds)
    PROVE  NextInLine'
<1>1. /\ t.job \in JobIds /\ t.fate = "queued" /\ shown' = shown
      /\ \A j \in JobIds : jobs'[j].at = jobs[j].at
    BY LedgerFacts
<1>2. PICK c \in TxRecords :
          /\ sent' = With(t, c) /\ c.left = t.left
          /\ c.fate \in {"bad", "applied", "failed"} /\ (c.fate = "bad" => t.number # sequence + 1)
    BY LedgerFacts
<1> SUFFICES ASSUME ~SeparateFlags, \A u \in sent' : ~u.left
             PROVE  /\ \A u \in sent' : u.fate # "bad"
                    /\ \A u \in sent' : u.fate # "queued"
                    /\ \A i \in JobIds : jobs[i].at # "sign"
    BY <1>1, ShownFlags DEF NextInLine
<1>3. \A u \in sent : ~u.left
    BY <1>2 DEF With
<1>4. /\ \A u \in sent : u.fate # "bad"
      /\ \A u \in sent : u.fate = "queued" =>
            /\ jobs[u.job].at = "wait" /\ u.item = jobs[u.job].item
            /\ u.number = sequence + 1
    BY <1>3 DEF NextInLine
<1>5. Holds(jobs[t.job]) /\ t = MyTx(t.job)
    BY <1>1, <1>4, QueuedIsMine
<1>6. \A u \in sent : u.fate = "queued" => u = t
    <2>1. ASSUME NEW u \in sent, u.fate = "queued" PROVE u = t
        <3>1. u.job \in JobIds /\ Holds(jobs[u.job]) /\ u = MyTx(u.job)
            BY <1>4, <2>1, QueuedIsMine
        <3>2. u.job = t.job
            BY <1>1, <1>5, <3>1, OneAtWork
        <3> QED
            BY <1>5, <3>1, <3>2
    <2> QED
        BY <2>1
<1>7. c.fate # "bad" /\ c.fate # "queued"
    BY <1>1, <1>2, <1>4
<1>8. \A i \in JobIds : jobs[i].at # "sign"
    <2>1. ASSUME NEW i \in JobIds, jobs[i].at = "sign" PROVE FALSE
        <3>1. Holds(jobs[i]) /\ jobs[t.job].at = "wait"
            BY <1>1, <1>4, <2>1 DEF Holds
        <3> QED
            BY <1>1, <1>5, <2>1, <3>1, OneAtWork
    <2> QED
        BY <2>1
<1> QED
    BY <1>2, <1>4, <1>6, <1>7, <1>8 DEF With

\* The line does not depend on anything else.
LEMMA LineUntouched ==
    ASSUME NextInLine, shown' = shown, sent' = sent, sequence' = sequence, jobs' = jobs
    PROVE  NextInLine'
BY ShownFlags DEF NextInLine

LEMMA ClickInLine ==
    ASSUME JobsInv, NextInLine, NEW kind \in Kinds, Click(kind)
    PROVE  NextInLine'
<1>1. PICK j \in JobIds : ClickedSlot(j, kind)
    BY ClickFacts
<1>2. UNCHANGED <<shown, sequence, sent>>
    BY DEF Click
<1>3. /\ jobs[j].at = "none" /\ jobs'[j].at # "sign" /\ \A i \in JobIds \ {j} : jobs'[i] = jobs[i]
    BY <1>1, NoJobIsJob DEF ClickedSlot
<1>4. \A t \in sent : t.job \in JobIds /\ t.job # j
    BY <1>1 DEF ClickedSlot, OwnIn, JobsInv, PageTypeOK, TxRecords
<1> SUFFICES ASSUME ~SeparateFlags, \A t \in sent : ~t.left
             PROVE  /\ \A t \in sent : t.fate # "bad"
                    /\ \A t \in sent : t.fate = "queued" =>
                          /\ jobs'[t.job].at = "wait" /\ t.item = jobs'[t.job].item
                          /\ t.number = sequence + 1
                    /\ \A i \in JobIds : jobs'[i].at = "sign" => jobs'[i].number = sequence + 1
    BY <1>2, ShownFlags DEF NextInLine
<1> QED
    BY <1>3, <1>4 DEF NextInLine

-----------------------------------------------------------------------------
(* One flag keeps the transactions apart *)

LEMMA FlagInit == PageInit => FlagInv
<1> SUFFICES ASSUME PageInit PROVE FlagInv
    OBVIOUS
<1>1. \A j \in JobIds : jobs[j].at = "none"
    BY NoJobIsJob DEF PageInit
<1>2. sent = {}
    BY DEF PageInit
<1> QED
    BY <1>1, <1>2 DEF FlagInv, FlagsExclude, NextInLine, Holds

LEMMA FlagStep ==
    ASSUME JobsInv, FlagInv, [PageNext]_pageVars
    PROVE  FlagInv'
<1> USE DEF FlagInv
<1>1. CASE UNCHANGED pageVars
    BY <1>1, SameFlags, LineUntouched DEF pageVars
<1>2. CASE \E kind \in Kinds : Click(kind)
    BY <1>2, ClickFlags, ClickInLine
<1>3. ASSUME NEW j \in JobIds, Build(j) PROVE FlagInv'
    BY <1>3, BuildKeeps, JobStepFlags, BuildInLine
<1>4. ASSUME NEW j \in JobIds, SignAndSend(j) PROVE FlagInv'
    BY <1>4, SignAndSendKeeps, JobStepFlags, SignAndSendInLine
<1>5. ASSUME NEW j \in JobIds, NotSent(j) PROVE FlagInv'
    <2>1. JobStep(j) /\ jobs'[j].at # "sign"
        BY <1>5, NotSentKeeps DEF ThrewTo, JobBecomes
    <2>2. jobs[j].at # "wait" /\ sent' = sent /\ sequence' = sequence
        BY <1>5 DEF NotSent
    <2> QED
        BY <2>1, <2>2, JobStepFlags, StepAside
<1>6. ASSUME NEW j \in JobIds, Confirmed(j) PROVE FlagInv'
    <2>1. JobStep(j)
        BY <1>6, ConfirmedKeeps
    <2>2. /\ jobs[j].at = "wait" /\ jobs'[j].at # "sign" /\ sequence' = sequence
          /\ sent' = sent /\ MyTx(j).fate # "queued"
        BY <1>6, JobType DEF Confirmed, JobsInv, PageTypeOK, JobRecords
    <2> QED
        BY <2>1, <2>2, JobStepFlags, WaitOverInLine
<1>7. ASSUME NEW j \in JobIds, SubmitThrows(j) PROVE FlagInv'
    BY <1>7, SubmitThrowsKeeps, JobStepFlags, SubmitThrowsInLine
<1>8. ASSUME NEW j \in JobIds, Announce(j) PROVE FlagInv'
    <2>1. JobStep(j)
        BY <1>8, AnnounceKeeps
    <2>2. jobs[j].at # "wait" /\ jobs'[j].at # "sign" /\ sent' = sent /\ sequence' = sequence
        BY <1>8, JobType DEF Announce, JobsInv, PageTypeOK, JobRecords
    <2> QED
        BY <2>1, <2>2, JobStepFlags, StepAside
<1>9. ASSUME NEW j \in JobIds, Reload(j) PROVE FlagInv'
    <2>1. JobStep(j)
        BY <1>9, ReloadKeeps
    <2>2. jobs[j].at # "wait" /\ jobs'[j].at # "sign" /\ sent' = sent /\ sequence' = sequence
        BY <1>9, ReloadFacts DEF JobBecomes
    <2> QED
        BY <2>1, <2>2, JobStepFlags, StepAside
<1>10. ASSUME NEW j \in JobIds, LoadDropped(j) PROVE FlagInv'
    <2>1. JobStep(j)
        BY <1>10, LoadDroppedKeeps
    <2>2. jobs[j].at # "wait" /\ jobs'[j].at # "sign" /\ sent' = sent /\ sequence' = sequence
        BY <1>10, JobType DEF LoadDropped, JobsInv, PageTypeOK, JobRecords
    <2> QED
        BY <2>1, <2>2, JobStepFlags, StepAside
<1>11. CASE \E t \in sent, succeeds \in BOOLEAN : LedgerTakes(t, succeeds)
    <2>1. PICK t \in sent, succeeds \in BOOLEAN : LedgerTakes(t, succeeds)
        BY <1>11
    <2>2. /\ busy' = busy
          /\ \A j \in JobIds : jobs'[j].at = jobs[j].at /\ jobs'[j].kind = jobs[j].kind
        BY <2>1, LedgerFacts
    <2> QED
        BY <2>1, <2>2, SameFlags, LedgerInLine
<1>12. ASSUME NEW l \in LoadIds, LoadAgain(l) \/ LoadReads(l) PROVE FlagInv'
    <2>1. UNCHANGED <<shown, busy, jobs, sequence, sent>>
        BY <1>12 DEF LoadAgain, LoadReads
    <2> QED
        BY <2>1, SameFlags, LineUntouched
<1>13. ASSUME NEW l \in LoadIds, LoadAnswers(l) \/ LoadFails(l) PROVE FlagInv'
    <2>1. LoadEnded(l)
        BY <1>13, LoadAnswersKeeps, LoadFailsKeeps
    <2>2. CASE l \in JobIds
        BY <2>1, <2>2, JobStepFlags, StepAside DEF LoadEnded
    <2>3. CASE l \notin JobIds
        BY <2>1, <2>3, SameFlags, LineUntouched DEF LoadEnded
    <2> QED
        BY <2>2, <2>3
<1> HIDE DEF FlagInv
<1> QED
    BY <1>1, <1>2, <1>3, <1>4, <1>5, <1>6, <1>7, <1>8, <1>9, <1>10, <1>11, <1>12, <1>13 DEF PageNext

-----------------------------------------------------------------------------
(* The loads *)

LEMMA ShownCross == ASSUME shown' = shown PROVE LoadsMayCross' = LoadsMayCross
BY ShownFlags DEF LoadsMayCross

\* A handler at work is the only one where loads cannot cross, so no other awaits a load.
LEMMA NoOtherLoad ==
    ASSUME JobsInv, FlagsExclude, AwaitsLoad, ~LoadsMayCross, NEW j \in JobIds, Running(j),
           NEW i \in JobIds, i # j
    PROVE  ~InFlight(i)
<1> SUFFICES ASSUME InFlight(i) PROVE FALSE
    OBVIOUS
<1>1. jobs[i].at = "await"
    BY JobType DEF JobOK, LoadAwaited, InFlight
<1>2. jobs[i].kind \in Kinds /\ jobs[j].kind \in Kinds /\ jobs[i].kind.reload # "none"
    BY <1>1 DEF AwaitsLoad, JobsInv, ClickedInOrder, Running
<1>3. PICK g \in shown.handlers, h \in shown.handlers :
          jobs[i].kind = KindOf(g) /\ jobs[j].kind = KindOf(h)
    BY <1>2 DEF Kinds
<1>4. /\ jobs[i].kind.reload = g.reload /\ jobs[i].kind.sends = g.sends
      /\ jobs[j].kind.sends = h.sends
    BY <1>3 DEF KindOf
<1>5. HandlerFits(g, shown) /\ HandlerFits(h, shown)
    BY <1>3, PagesFit DEF PageFits, JobsInv, PageTypeOK
<1>6. shown.loads \cap {"timer", "input"} = {} /\ ~SeparateFlags
    BY DEF LoadsMayCross
<1>7. jobs[i].kind.sends # "batch" /\ jobs[j].kind.sends # "batch"
    BY <1>2, <1>3, <1>4, <1>5, <1>6 DEF HandlerFits
<1>8. Holds(jobs[i]) /\ Holds(jobs[j])
    BY <1>1, <1>7 DEF Holds, Running
<1> QED
    BY <1>6, <1>8, OneAtWork

\* Steps of a handler that touch no load.
LEMMA JobStepLoads ==
    ASSUME JobsInv, LoadInv, NEW j \in JobIds, JobStep(j), jobs'[j].at # "await",
           UNCHANGED <<pageLoading, loads, view, crossed>>
    PROVE  LoadInv'
<1>1. AwaitsLoad'
    BY DEF LoadInv, AwaitsLoad, JobStep
<1>2. \A i \in JobIds : jobs'[i].kind = jobs[i].kind
    BY DEF JobStep
<1>3. Clicked' = Clicked
    BY DEF Clicked, JobStep, Running
<1> SUFFICES ASSUME ~LoadsMayCross
             PROVE  NoLoadAgain' /\ ~crossed' /\ MountFirst'
    BY <1>1, ShownCross DEF LoadInv, LoadsInOrder, JobStep
<1>4. NoLoadAgain' /\ ~crossed'
    BY DEF LoadInv, LoadsInOrder, NoLoadAgain
<1>5. MountFirst'
    BY <1>2, <1>3 DEF LoadInv, LoadsInOrder, MountFirst, MountPending, Clicked, JobStep
<1> QED
    BY <1>4, <1>5

LEMMA ClickLoads ==
    ASSUME JobsInv, LoadInv, NEW kind \in Kinds, Click(kind)
    PROVE  LoadInv'
<1>1. PICK j \in JobIds : ClickedSlot(j, kind)
    BY ClickFacts
<1>2. UNCHANGED <<shown, pageLoading, loads, view, crossed>> /\ Offered(kind)
    BY DEF Click
<1>3. /\ jobs'[j].at \notin {"await", "none"}
      /\ jobs'[j].kind = kind /\ \A i \in JobIds \ {j} : jobs'[i] = jobs[i]
    BY <1>1 DEF ClickedSlot
<1>4. AwaitsLoad'
    BY <1>3 DEF LoadInv, AwaitsLoad
<1> SUFFICES ASSUME ~LoadsMayCross
             PROVE  NoLoadAgain' /\ ~crossed' /\ MountFirst'
    BY <1>2, <1>4, ShownCross DEF LoadInv, LoadsInOrder
<1>5. NoLoadAgain' /\ ~crossed'
    BY <1>2 DEF LoadInv, LoadsInOrder, NoLoadAgain
<1>6. MountFirst'
    <2> SUFFICES ASSUME MountPending
                 PROVE  /\ "mount" \in shown.loads /\ pageLoading /\ view = 0
                        /\ \A i \in JobIds : jobs'[i].at # "none" =>
                              jobs'[i].kind.reload = "swr" /\ jobs'[i].at # "await"
        BY <1>2 DEF MountFirst, MountPending, Clicked
    <2>1. /\ "mount" \in shown.loads /\ pageLoading /\ view = 0
          /\ \A i \in JobIds : jobs[i].at # "none" =>
                jobs[i].kind.reload = "swr" /\ jobs[i].at # "await"
        BY DEF LoadInv, LoadsInOrder, MountFirst, Clicked
    <2>2. PICK h \in shown.handlers : kind = KindOf(h)
        BY DEF Kinds
    <2>3. kind.gate = h.gate /\ kind.reload = h.reload
        BY <2>2 DEF KindOf
    <2>4. h.gate \in {"loaded", "rows", "open"}
        BY PagesFit DEF PageFits, HandlerFits, JobsInv, PageTypeOK
    <2>5. h.gate = "open"
        BY <1>2, <2>1, <2>3, <2>4 DEF Offered
    <2>6. h.reload = "swr"
        BY <2>1, <2>5 DEF LoadsMayCross
    <2> QED
        BY <1>3, <2>1, <2>3, <2>6
<1> QED
    BY <1>5, <1>6

LEMMA ReloadLoads ==
    ASSUME JobsInv, FlagsExclude, LoadInv, NEW j \in JobIds, Reload(j)
    PROVE  LoadInv'
<1> DEFINE job == jobs[j]
           reload == job.kind.reload
<1>1. JobStep(j)
    BY ReloadKeeps
<1>2. /\ job.at = "reload" /\ shown' = shown
      /\ jobs'[j].at = (IF reload \in {"none", "local"} THEN "over" ELSE "await")
      /\ \A l \in LoadIds \ {j} : loads'[l] = loads[l] \/ loads'[l] \in {NoLoad, Done}
      /\ reload = "swr" => \A l \in LoadIds \ {j} : loads'[l] \in {NoLoad, Done}
    BY ReloadFacts DEF JobBecomes
<1>3. AwaitsLoad'
    BY <1>1, <1>2 DEF LoadInv, AwaitsLoad, JobStep
<1> SUFFICES ASSUME ~LoadsMayCross
             PROVE  NoLoadAgain' /\ ~crossed' /\ MountFirst'
    BY <1>2, <1>3, ShownCross DEF LoadInv, LoadsInOrder
<1>4. NoLoadAgain /\ ~crossed /\ MountFirst /\ AwaitsLoad
    BY DEF LoadInv, LoadsInOrder
<1>5. NoLoadAgain'
    <2>1. ASSUME NEW l \in ReloadIds PROVE loads'[l] = NoLoad
        <3>1. l \in LoadIds /\ l # j /\ loads[l] = NoLoad
            BY <1>4, ReloadIdsApart DEF NoLoadAgain
        <3>2. loads' = CASE reload = "swr" ->
                            [k \in LoadIds |-> IF k = j THEN Asked
                                               ELSE IF loads[k] = NoLoad THEN NoLoad ELSE Done]
                     [] reload \in {"load", "read"} -> [loads EXCEPT ![j] = Asked]
                     [] OTHER -> loads
            BY DEF Reload
        <3>3. CASE reload = "swr"
            BY <3>1, <3>2, <3>3
        <3>4. CASE reload \in {"load", "read"}
            BY <3>1, <3>2, <3>4 DEF JobsInv, PageTypeOK
        <3>5. CASE reload \notin {"swr", "load", "read"}
            BY <3>1, <3>2, <3>5
        <3> QED
            BY <3>3, <3>4, <3>5
    <2> QED
        BY <2>1 DEF NoLoadAgain
<1>6. reload # "swr" => ~MountPending
    BY <1>2, <1>4 DEF MountFirst, Clicked
<1>7. ~MountPending'
    <2>1. 0 \in LoadIds \ {j}
        BY ZeroApart
    <2>2. CASE reload = "swr"
        BY <1>2, <2>1, <2>2, LoadNames DEF MountPending
    <2>3. CASE reload # "swr"
        BY <1>2, <1>6, <2>1, <2>3, LoadNames DEF MountPending
    <2> QED
        BY <2>2, <2>3
<1>8. ~crossed'
    <2>1. CASE reload # "local"
        BY <1>4, <2>1 DEF Reload
    <2>2. CASE reload = "local"
        <3>1. ASSUME NEW l \in LoadIds PROVE ~InFlight(l)
            <4>1. CASE l = 0
                BY <1>6, <2>2, <4>1 DEF InFlight, MountPending
            <4>2. CASE l = j
                BY <1>2, <4>2, JobType DEF InFlight, JobOK, LoadAwaited
            <4>3. CASE l \in JobIds \ {j}
                BY <1>1, <1>4, <4>3, NoOtherLoad DEF JobStep
            <4>4. CASE l \in ReloadIds
                BY <1>4, <4>4, LoadNames DEF NoLoadAgain, InFlight
            <4> QED
                BY <4>1, <4>2, <4>3, <4>4 DEF LoadIds
        <3>2. Shows(job.made, LoadIds)
            BY <2>2 DEF Reload
        <3> QED
            BY <1>4, <3>1, <3>2 DEF Shows
    <2> QED
        BY <2>1, <2>2
<1> QED
    BY <1>5, <1>7, <1>8 DEF MountFirst

LEMMA LedgerLoads ==
    ASSUME JobsInv, LoadInv, NEW t \in sent, NEW succeeds \in BOOLEAN, LedgerTakes(t, succeeds)
    PROVE  LoadInv'
<1>1. /\ \A j \in JobIds : jobs'[j].at = jobs[j].at /\ jobs'[j].kind = jobs[j].kind
      /\ UNCHANGED <<shown, pageLoading, busy, loads, view, owed, crossed>>
    BY LedgerFacts
<1>2. AwaitsLoad'
    BY <1>1 DEF LoadInv, AwaitsLoad
<1> SUFFICES ASSUME ~LoadsMayCross
             PROVE  NoLoadAgain' /\ ~crossed' /\ MountFirst'
    BY <1>1, <1>2, ShownCross DEF LoadInv, LoadsInOrder
<1>3. NoLoadAgain /\ ~crossed /\ MountFirst
    BY DEF LoadInv, LoadsInOrder
<1>4. MountFirst'
    BY <1>1, <1>3 DEF MountFirst, MountPending, Clicked
<1> QED
    BY <1>1, <1>3, <1>4 DEF NoLoadAgain

LEMMA LoadReadsLoads ==
    ASSUME JobsInv, LoadInv, NEW l \in LoadIds, LoadReads(l)
    PROVE  LoadInv'
<1>1. /\ loads[l] = Asked /\ \A k \in LoadIds \ {l} : loads'[k] = loads[k]
      /\ UNCHANGED <<shown, pageLoading, busy, jobs, sequence, version, view, owed, crossed, sent>>
    BY DEF LoadReads, JobsInv, PageTypeOK
<1>2. AwaitsLoad'
    BY <1>1 DEF LoadInv, AwaitsLoad
<1> SUFFICES ASSUME ~LoadsMayCross
             PROVE  NoLoadAgain' /\ ~crossed' /\ MountFirst'
    BY <1>1, <1>2, ShownCross DEF LoadInv, LoadsInOrder
<1>3. NoLoadAgain /\ ~crossed /\ MountFirst
    BY DEF LoadInv, LoadsInOrder
<1>4. NoLoadAgain'
    BY <1>1, <1>3, ReloadIdsApart, LoadNames DEF NoLoadAgain
<1>5. MountPending' => MountPending
    BY <1>1, LoadNames, ZeroApart DEF MountPending
<1> QED
    BY <1>1, <1>3, <1>4, <1>5 DEF MountFirst, Clicked

\* The end of a load, where loads cannot cross: no other is under way when it is a
\* handler's.
LEMMA EndedLoads ==
    ASSUME JobsInv, FlagsExclude, LoadInv, NEW l \in LoadIds, LoadEnded(l), ~LoadsMayCross
    PROVE  /\ NoLoadAgain' /\ MountFirst'
           /\ l \in JobIds => \A k \in LoadIds \ {l} : ~InFlight(k)
<1>1. /\ loads'[l] = Done /\ \A k \in LoadIds \ {l} : loads'[k] = loads[k]
      /\ loads[l].at \in {"asked", "read"} /\ shown' = shown
    BY LoadNames DEF LoadEnded, JobsInv, PageTypeOK
<1>2. NoLoadAgain /\ MountFirst /\ AwaitsLoad
    BY DEF LoadInv, LoadsInOrder
<1>3. l \notin ReloadIds
    BY <1>1, <1>2, LoadNames DEF NoLoadAgain
<1>4. NoLoadAgain'
    BY <1>1, <1>2, <1>3, ReloadIdsApart DEF NoLoadAgain
<1>5. CASE l \in JobIds
    <2>1. JobStep(l) /\ jobs[l].at = "await" /\ Running(l)
        BY <1>5 DEF LoadEnded, JobStep
    <2>2. ~MountPending
        BY <1>2, <1>5, <2>1 DEF MountFirst, Clicked
    <2>3. ~MountPending'
        BY <1>1, <1>5, <2>2, ZeroApart DEF MountPending
    <2>4. ASSUME NEW k \in LoadIds \ {l} PROVE ~InFlight(k)
        <3>1. CASE k = 0
            BY <2>2, <3>1 DEF InFlight, MountPending
        <3>2. CASE k \in JobIds
            BY <1>2, <1>5, <2>1, <3>2, NoOtherLoad
        <3>3. CASE k \in ReloadIds
            BY <1>2, <3>3, LoadNames DEF NoLoadAgain, InFlight
        <3> QED
            BY <3>1, <3>2, <3>3 DEF LoadIds
    <2> QED
        BY <1>4, <2>3, <2>4 DEF MountFirst
<1>6. CASE l \notin JobIds
    <2>1. l = 0
        BY <1>3, <1>6 DEF LoadIds
    <2>2. ~MountPending'
        BY <1>1, <2>1, LoadNames DEF MountPending
    <2> QED
        BY <1>4, <1>6, <2>2 DEF MountFirst
<1> QED
    BY <1>5, <1>6

LEMMA EndedAwaits ==
    ASSUME LoadInv, NEW l \in LoadIds, LoadEnded(l)
    PROVE  AwaitsLoad'
BY DEF LoadInv, AwaitsLoad, LoadEnded, JobStep

LEMMA LoadAnswersLoads ==
    ASSUME JobsInv, FlagsExclude, LoadInv, NEW l \in LoadIds, LoadAnswers(l)
    PROVE  LoadInv'
<1>1. LoadEnded(l) /\ shown' = shown
    BY LoadAnswersKeeps DEF LoadEnded
<1> SUFFICES ASSUME ~LoadsMayCross
             PROVE  NoLoadAgain' /\ ~crossed' /\ MountFirst'
    BY <1>1, EndedAwaits, ShownCross DEF LoadInv, LoadsInOrder
<1>2. /\ NoLoadAgain' /\ MountFirst'
      /\ l \in JobIds => \A k \in LoadIds \ {l} : ~InFlight(k)
    BY <1>1, EndedLoads
<1>3. ~crossed
    BY DEF LoadInv, LoadsInOrder
<1>4. \/ l \in JobIds /\ Shows(jobs[l].made, LoadIds \ {l})
      \/ UNCHANGED crossed
    BY DEF LoadAnswers
<1>5. ~crossed'
    BY <1>2, <1>3, <1>4 DEF Shows
<1> QED
    BY <1>2, <1>5

LEMMA LoadFailsLoads ==
    ASSUME JobsInv, FlagsExclude, LoadInv, NEW l \in LoadIds, LoadFails(l)
    PROVE  LoadInv'
<1>1. LoadEnded(l) /\ shown' = shown /\ crossed' = crossed
    BY LoadFailsKeeps DEF LoadFails, LoadEnded
<1> SUFFICES ASSUME ~LoadsMayCross
             PROVE  NoLoadAgain' /\ ~crossed' /\ MountFirst'
    BY <1>1, EndedAwaits, ShownCross DEF LoadInv, LoadsInOrder
<1> QED
    BY <1>1, EndedLoads DEF LoadInv, LoadsInOrder

LEMMA LoadsInit == PageInit => LoadInv
<1> SUFFICES ASSUME PageInit PROVE LoadInv
    OBVIOUS
<1>1. /\ \A j \in JobIds : jobs[j].at = "none"
      /\ view = 0 /\ ~crossed
    BY NoJobIsJob DEF PageInit
<1>2. \A l \in LoadIds : l # 0 => loads[l] = NoLoad
    BY DEF PageInit
<1>3. NoLoadAgain
    BY <1>2, ReloadIdsApart DEF NoLoadAgain
<1>4. MountPending => pageLoading /\ "mount" \in shown.loads
    <2>1. ~pageLoading => loads[0] = NoLoad
        BY ZeroApart DEF PageInit
    <2>2. pageLoading => "mount" \in shown.loads
        BY Zenon DEF PageInit
    <2> QED
        BY <2>1, <2>2, LoadNames DEF MountPending
<1>5. MountFirst
    BY <1>1, <1>4 DEF MountFirst, Clicked
<1> QED
    BY <1>1, <1>3, <1>5 DEF LoadInv, LoadsInOrder, AwaitsLoad

LEMMA LoadsStep ==
    ASSUME JobsInv, FlagInv, LoadInv, [PageNext]_pageVars
    PROVE  LoadInv'
<1>0. FlagsExclude
    BY DEF FlagInv
<1>1. CASE UNCHANGED pageVars
    BY <1>1, ShownCross DEF pageVars, LoadInv, AwaitsLoad, LoadsInOrder, NoLoadAgain,
       MountFirst, MountPending, Clicked
<1>2. CASE \E kind \in Kinds : Click(kind)
    BY <1>2, ClickLoads
<1>3. ASSUME NEW j \in JobIds,
             \/ Build(j) \/ SignAndSend(j) \/ NotSent(j) \/ Confirmed(j) \/ SubmitThrows(j)
             \/ Announce(j) \/ LoadDropped(j)
      PROVE  LoadInv'
    <2>1. JobStep(j)
        BY <1>3, BuildKeeps, SignAndSendKeeps, NotSentKeeps, ConfirmedKeeps, SubmitThrowsKeeps,
           AnnounceKeeps, LoadDroppedKeeps
    <2>2. UNCHANGED <<pageLoading, loads, view, crossed>>
        BY <1>3 DEF Build, SignAndSend, NotSent, Confirmed, SubmitThrows, Announce, LoadDropped
    <2>3. jobs'[j].at # "await"
        <3>1. jobs \in [JobIds -> JobRecords] /\ jobs[j] \in JobRecords
            BY DEF JobsInv, PageTypeOK
        <3>2. CASE Build(j)
            BY <3>1, <3>2 DEF Build, JobRecords
        <3>3. CASE SignAndSend(j)
            BY <3>1, <3>3 DEF SignAndSend, JobRecords
        <3>4. CASE NotSent(j) \/ SubmitThrows(j)
            BY <3>4, NotSentKeeps, SubmitThrowsKeeps DEF ThrewTo, JobBecomes
        <3>5. CASE Confirmed(j)
            BY <3>1, <3>5 DEF Confirmed, JobRecords
        <3>6. CASE Announce(j)
            BY <3>1, <3>6 DEF Announce, JobRecords
        <3>7. CASE LoadDropped(j)
            BY <3>1, <3>7 DEF LoadDropped, JobRecords
        <3> QED
            BY <1>3, <3>2, <3>3, <3>4, <3>5, <3>6, <3>7
    <2> QED
        BY <2>1, <2>2, <2>3, JobStepLoads
<1>4. ASSUME NEW j \in JobIds, Reload(j) PROVE LoadInv'
    BY <1>0, <1>4, ReloadLoads
<1>5. CASE \E t \in sent, succeeds \in BOOLEAN : LedgerTakes(t, succeeds)
    BY <1>5, LedgerLoads
<1>6. ASSUME NEW l \in LoadIds, LoadAgain(l) PROVE LoadInv'
    <2>1. LoadsMayCross /\ shown' = shown /\ jobs' = jobs
        BY <1>6 DEF LoadAgain, LoadsMayCross
    <2> QED
        BY <2>1, ShownCross DEF LoadInv, LoadsInOrder, AwaitsLoad
<1>7. ASSUME NEW l \in LoadIds, LoadReads(l) \/ LoadAnswers(l) \/ LoadFails(l) PROVE LoadInv'
    BY <1>0, <1>7, LoadReadsLoads, LoadAnswersLoads, LoadFailsLoads
<1> QED
    BY <1>1, <1>2, <1>3, <1>4, <1>5, <1>6, <1>7 DEF PageNext

-----------------------------------------------------------------------------
(* What was shown stays shown *)

\* Where what was shown, and what the loads have read of it, is left alone.
LEMMA ShownUntouched ==
    ASSUME JobsInv, ShownInv, UNCHANGED <<owed, view, crossed>>,
           version' \in Nat, version <= version',
           \A j \in JobIds : jobs'[j].made = jobs[j].made \/ jobs'[j].made = version',
           \A l \in LoadIds : loads'[l].at = "read" =>
               loads'[l] = loads[l] \/ loads'[l].version = version
    PROVE  ShownInv'
<1>1. owed \in Nat /\ version \in Nat /\ \A j \in JobIds : jobs[j].made \in Nat
    BY JobType DEF JobsInv, PageTypeOK, JobRecords
<1>2. MadeOnChain'
    BY <1>1 DEF ShownInv, MadeOnChain
<1>3. OwedIsShown'
    BY <1>1 DEF ShownInv, MadeOnChain, OwedIsShown, ReadsAreNew
<1> QED
    BY <1>2, <1>3 DEF ShownInv

LEMMA ReloadShown ==
    ASSUME JobsInv, ShownInv, NEW j \in JobIds, Reload(j)
    PROVE  ShownInv'
<1> DEFINE reload == jobs[j].kind.reload
           made == jobs[j].made
<1>1. /\ version' = version /\ \A i \in JobIds : jobs'[i].made = jobs[i].made
      /\ \A l \in LoadIds : loads'[l].at = "read" => loads'[l] = loads[l]
      /\ reload \in {"none", "local"} => loads' = loads
    BY ReloadFacts, LoadNames DEF JobBecomes
<1>2. made \in Nat /\ owed \in Nat /\ view \in Nat /\ version \in Nat /\ made <= version
    BY JobType DEF JobsInv, PageTypeOK, JobRecords, ShownInv, MadeOnChain
<1>3. CASE reload # "local"
    <2>1. UNCHANGED <<owed, view, crossed>>
        BY <1>3 DEF Reload
    <2> QED
        BY <1>1, <1>2, <2>1, ShownUntouched
<1>4. CASE reload = "local"
    <2>1. /\ view' = IF made > view THEN made ELSE view
          /\ owed' = IF made > owed THEN made ELSE owed
          /\ crossed' = IF made > owed THEN \E l \in LoadIds : InFlight(l) ELSE crossed
          /\ loads' = loads
        BY <1>1, <1>4 DEF Reload, Shows
    <2>2. MadeOnChain'
        BY <1>1, <1>2, <2>1 DEF ShownInv, MadeOnChain
    <2>3. CASE made > owed
        <3>1. ~crossed' => \A l \in LoadIds : loads[l].at # "read"
            BY <2>1, <2>3 DEF InFlight
        <3>2. owed' = made /\ owed' <= view'
            BY <1>2, <2>1, <2>3
        <3>3. ~crossed' => (owed <= view)' /\ ReadsAreNew'
            BY <2>1, <3>1, <3>2 DEF ReadsAreNew
        <3> QED
            BY <2>2, <3>3 DEF ShownInv, OwedIsShown
    <2>4. CASE ~(made > owed)
        <3>0. crossed' = crossed
            BY <2>1, <2>4, Zenon
        <3>1. owed' = owed /\ crossed' = crossed /\ view <= view'
            <4>1. owed' = owed /\ view <= view'
                BY <1>2, <2>1, <2>4
            <4> QED
                BY <3>0, <4>1, Zenon
        <3>2. view' \in Nat
            BY <1>2, <2>1
        <3>3. ~crossed => owed <= view' /\ ReadsAreNew
            BY <1>2, <3>1, <3>2 DEF ShownInv, OwedIsShown
        <3>4. ~crossed => (owed <= view)' /\ ReadsAreNew'
            BY <2>1, <3>1, <3>3 DEF ReadsAreNew
        <3> QED
            BY <2>2, <3>1, <3>4 DEF ShownInv, OwedIsShown
    <2> QED
        BY <2>3, <2>4
<1> QED
    BY <1>3, <1>4

\* An answer: what it shows of its handler's change is in what the load has read.
LEMMA LoadAnswersShown ==
    ASSUME JobsInv, ShownInv, NEW l \in LoadIds, LoadAnswers(l)
    PROVE  ShownInv'
<1>1. LoadEnded(l)
    BY LoadAnswersKeeps
<1>2. /\ loads[l].at = "read" /\ view' = loads[l].version /\ version' = version
      /\ \/ /\ l \in JobIds /\ jobs[l].made <= loads[l].version
            /\ Shows(jobs[l].made, LoadIds \ {l})
         \/ UNCHANGED <<owed, crossed>>
    BY DEF LoadAnswers
<1>3. \A j \in JobIds : jobs'[j].made = jobs[j].made
    BY <1>1 DEF LoadEnded, JobStep
<1>4. loads'[l] = Done /\ \A k \in LoadIds \ {l} : loads'[k] = loads[k]
    BY <1>1 DEF LoadEnded, JobsInv, PageTypeOK
<1>5. /\ owed \in Nat /\ version \in Nat /\ loads[l].version \in Nat
      /\ l \in JobIds => jobs[l].made \in Nat /\ jobs[l].made <= version
    BY JobType DEF JobsInv, PageTypeOK, JobRecords, LoadRecords, ShownInv, MadeOnChain
<1>6. CASE UNCHANGED <<owed, crossed>>
    <2>1. MadeOnChain'
        BY <1>2, <1>3, <1>6 DEF ShownInv, MadeOnChain
    <2>2. OwedIsShown'
        BY <1>2, <1>4, <1>6, LoadNames DEF ShownInv, OwedIsShown, ReadsAreNew
    <2> QED
        BY <2>1, <2>2 DEF ShownInv
<1>7. CASE /\ l \in JobIds /\ jobs[l].made <= loads[l].version /\ jobs[l].made > owed
           /\ Shows(jobs[l].made, LoadIds \ {l})
    <2>1. /\ owed' = jobs[l].made
          /\ crossed' = \E k \in LoadIds \ {l} : InFlight(k)
        BY <1>7 DEF Shows
    <2>2. MadeOnChain'
        BY <1>2, <1>3, <1>5, <1>7, <2>1 DEF ShownInv, MadeOnChain
    <2>3. ~crossed' => \A k \in LoadIds : loads'[k].at # "read"
        BY <1>4, <2>1, LoadNames DEF InFlight
    <2> QED
        BY <1>2, <1>7, <2>1, <2>2, <2>3 DEF ShownInv, OwedIsShown, ReadsAreNew
<1>8. CASE ~(jobs[l].made > owed) /\ Shows(jobs[l].made, LoadIds \ {l})
    BY <1>6, <1>8 DEF Shows
<1> QED
    BY <1>2, <1>6, <1>7, <1>8

LEMMA ShownInit == PageInit => ShownInv
<1> SUFFICES ASSUME PageInit PROVE ShownInv
    OBVIOUS
<1>1. /\ version = 1 /\ view = 0 /\ owed = 0
      /\ \A j \in JobIds : jobs[j].made = 0
    BY NoJobIsJob DEF PageInit
<1>2. \A l \in LoadIds : loads[l].at # "read"
    BY LoadNames DEF PageInit
<1> QED
    BY <1>1, <1>2 DEF ShownInv, MadeOnChain, OwedIsShown, ReadsAreNew

LEMMA ShownStep ==
    ASSUME JobsInv, ShownInv, [PageNext]_pageVars
    PROVE  ShownInv'
<1>0. version \in Nat
    BY DEF JobsInv, PageTypeOK
<1>1. CASE UNCHANGED pageVars
    BY <1>0, <1>1, ShownUntouched DEF pageVars
<1>2. CASE \E kind \in Kinds : Click(kind)
    <2>1. PICK kind \in Kinds : Click(kind)
        BY <1>2
    <2>2. PICK j \in JobIds : ClickedSlot(j, kind)
        BY <2>1, ClickFacts
    <2>3. \A i \in JobIds : jobs'[i].made = jobs[i].made
        BY <2>2, NoJobIsJob DEF ClickedSlot
    <2>4. UNCHANGED <<loads, version, view, owed, crossed>>
        BY <2>1 DEF Click
    <2> QED
        BY <1>0, <2>3, <2>4, ShownUntouched
<1>3. ASSUME NEW j \in JobIds,
             \/ Build(j) \/ SignAndSend(j) \/ NotSent(j) \/ Confirmed(j) \/ SubmitThrows(j)
             \/ Announce(j) \/ LoadDropped(j)
      PROVE  ShownInv'
    <2>1. \A i \in JobIds : jobs'[i].made = jobs[i].made
        BY <1>3, BuildKeeps, SignAndSendKeeps, NotSentKeeps, ConfirmedKeeps, SubmitThrowsKeeps,
           AnnounceKeeps, LoadDroppedKeeps DEF JobStep
    <2>2. UNCHANGED <<loads, version, view, owed, crossed>>
        BY <1>3 DEF Build, SignAndSend, NotSent, Confirmed, SubmitThrows, Announce, LoadDropped
    <2> QED
        BY <1>0, <2>1, <2>2, ShownUntouched
<1>4. ASSUME NEW j \in JobIds, Reload(j) PROVE ShownInv'
    BY <1>4, ReloadShown
<1>5. CASE \E t \in sent, succeeds \in BOOLEAN : LedgerTakes(t, succeeds)
    <2>1. PICK t \in sent, succeeds \in BOOLEAN : LedgerTakes(t, succeeds)
        BY <1>5
    <2>2. /\ \A j \in JobIds : jobs'[j].made = jobs[j].made \/ jobs'[j].made = version'
          /\ version' \in Nat /\ version <= version'
          /\ UNCHANGED <<loads, view, owed, crossed>>
        BY <2>1, LedgerFacts
    <2> QED
        BY <2>2, ShownUntouched
<1>6. ASSUME NEW l \in LoadIds, LoadAgain(l) PROVE ShownInv'
    <2>1. UNCHANGED <<jobs, version, view, owed, crossed>>
        BY <1>6 DEF LoadAgain
    <2>2. \A m \in LoadIds : loads'[m] \in {Asked, Done, loads[m]}
        BY <1>6 DEF LoadAgain
    <2>3. \A m \in LoadIds : loads'[m].at = "read" => loads'[m] = loads[m]
        BY <2>2, LoadNames
    <2> QED
        BY <1>0, <2>1, <2>3, ShownUntouched
<1>7. ASSUME NEW l \in LoadIds, LoadReads(l) PROVE ShownInv'
    <2>1. UNCHANGED <<jobs, version, view, owed, crossed>>
        BY <1>7 DEF LoadReads
    <2>2. \A m \in LoadIds : loads'[m] = loads[m] \/ loads'[m].version = version
        BY <1>7 DEF LoadReads, JobsInv, PageTypeOK
    <2> QED
        BY <1>0, <2>1, <2>2, ShownUntouched
<1>8. ASSUME NEW l \in LoadIds, LoadFails(l) PROVE ShownInv'
    <2>1. UNCHANGED <<version, view, owed, crossed>> /\ LoadEnded(l)
        BY <1>8, LoadFailsKeeps DEF LoadFails
    <2>2. \A j \in JobIds : jobs'[j].made = jobs[j].made
        BY <2>1 DEF LoadEnded, JobStep
    <2>3. \A m \in LoadIds : loads'[m].at = "read" => loads'[m] = loads[m]
        BY <2>1, LoadNames DEF LoadEnded, JobsInv, PageTypeOK
    <2> QED
        BY <1>0, <2>1, <2>2, <2>3, ShownUntouched
<1>9. ASSUME NEW l \in LoadIds, LoadAnswers(l) PROVE ShownInv'
    BY <1>9, LoadAnswersShown
<1> QED
    BY <1>1, <1>2, <1>3, <1>4, <1>5, <1>6, <1>7, <1>8, <1>9 DEF PageNext

-----------------------------------------------------------------------------
(* What the handlers announce *)

LEMMA JobsInit == PageInit => JobsInv
<1> SUFFICES ASSUME PageInit PROVE JobsInv
    OBVIOUS
<1>1. /\ shown \in Pages /\ jobs = [j \in JobIds |-> NoJob] /\ sent = {}
      /\ sequence = 0 /\ version = 1 /\ view = 0 /\ owed = 0
    BY DEF PageInit
<1>2. loads \in [LoadIds -> LoadRecords] /\ \A l \in LoadIds : l # 0 => loads[l] = NoLoad
    BY LoadNames DEF PageInit
<1>3. PageTypeOK
    BY <1>1, <1>2, NoJobIsJob DEF PageTypeOK
<1>4. ClickedInOrder
    <2>1. Clicked = 1 .. 0
        BY <1>1, NoJobIsJob DEF Clicked
    <2> QED
        BY <1>1, <2>1, NoJobIsJob DEF ClickedInOrder
<1>5. ASSUME NEW j \in JobIds
      PROVE  JobOK(jobs[j], OwnIn(j, sent), loads[j])
    <2>1. j \in LoadIds /\ j # 0
        BY ZeroApart DEF LoadIds
    <2>2. jobs[j].at = "none" /\ OwnIn(j, sent) = {} /\ loads[j].at = "none"
        BY <1>1, <1>2, <2>1, NoJobIsJob, LoadNames DEF OwnIn
    <2> QED
        BY <2>2 DEF JobOK, SentInOrder, ToldTrue, SingleApplied, LoadAwaited
<1> QED
    BY <1>3, <1>4, <1>5 DEF JobsInv, AllJobsOK

LEMMA JobsStep ==
    ASSUME JobsInv, [PageNext]_pageVars
    PROVE  JobsInv'
<1>1. CASE UNCHANGED pageVars
    <2>1. ClickedInOrder' /\ AllJobsOK'
        BY <1>1, LoadsOnly DEF pageVars
    <2> QED
        BY <1>1, <2>1 DEF pageVars, JobsInv, PageTypeOK
<1>2. CASE \E kind \in Kinds : Click(kind)
    BY <1>2, ClickKeeps
<1>3. CASE \E j \in JobIds : \/ Build(j) \/ SignAndSend(j) \/ NotSent(j) \/ Confirmed(j)
                              \/ SubmitThrows(j) \/ Announce(j) \/ Reload(j) \/ LoadDropped(j)
    BY <1>3, BuildKeeps, SignAndSendKeeps, NotSentKeeps, ConfirmedKeeps, SubmitThrowsKeeps,
       AnnounceKeeps, ReloadKeeps, LoadDroppedKeeps
<1>4. CASE \E t \in sent, succeeds \in BOOLEAN : LedgerTakes(t, succeeds)
    BY <1>4, LedgerTakesKeeps
<1>5. CASE \E l \in LoadIds : LoadAgain(l) \/ LoadReads(l) \/ LoadAnswers(l) \/ LoadFails(l)
    BY <1>5, LoadAgainKeeps, LoadReadsKeeps, LoadAnswersKeeps, LoadFailsKeeps
<1> QED
    BY <1>1, <1>2, <1>3, <1>4, <1>5 DEF PageNext

\* The handlers of the pages: what the invariant of the jobs says holds of every page,
\* whatever clicks, loads and answers of the ledger come between their awaits.
THEOREM PageInvariant == PageSpec => []JobsInv
BY JobsInit, JobsStep, PTL DEF PageSpec

\* The handlers of the pages (frontend/app): what toast.success or toast.error says
\* last of a handler is so, and stays so: no transaction a handler has reported as
\* failed is applied afterwards, unless the wait for it ended unanswered.
THEOREM AnnouncementsTrue == PageSpec => []AnnouncementIsTrue
<1>1. JobsInv => AnnouncementIsTrue
    <2> SUFFICES ASSUME JobsInv, NEW j \in JobIds, ~Running(j)
                 PROVE  LET mine == {t \in sent : t.job = j /\ t.item = jobs[j].item} IN
                        /\ jobs[j].told = "success" =>
                              jobs[j].kind.sends = "nothing" \/ \E t \in mine : t.fate = "applied"
                        /\ jobs[j].told = "failed" =>
                              \A t \in mine : t.fate = "applied" => t.left \/ jobs[j].kind.reload = "read"
        BY DEF AnnouncementIsTrue
    <2>1. jobs[j] = NoJob \/ jobs[j].at = "over"
        BY DEF Running, JobsInv, ClickedInOrder
    <2>2. ToldTrue(jobs[j], OwnIn(j, sent))
        BY JobType DEF JobOK
    <2> QED
        BY <2>1, <2>2, NoJobIsJob DEF ToldTrue, SuccessTrue, FailureTrue, OwnIn
<1> QED
    BY <1>1, PageInvariant, PTL

\* The busy flags of the pages hold for every number of clicks: a handler at work holds
\* its flag, and where one flag serves a page its transaction carries the next number.
THEOREM FlagInvariant == PageSpec => []FlagInv
BY PageInvariant, FlagInit, FlagStep, PTL DEF PageSpec

\* The busy flags of the pages (frontend/app) and the sequence number of the account:
\* on a page with one flag for all its buttons no transaction is built on a number that
\* another one uses up, unless the wait for that one ended unanswered.
THEOREM OneFlagNoClash == PageSpec => []SequenceClashNeedsTwoFlags
<1>1. FlagInv => SequenceClashNeedsTwoFlags
    BY DEF FlagInv, NextInLine, SequenceClashNeedsTwoFlags
<1> QED
    BY <1>1, FlagInvariant, PTL

\* The loads of the pages (frontend/app): what a page has shown of the user's own action
\* is not replaced by something older, unless another load was under way when the page
\* first showed it; and that never is where a page does not load by itself, has one busy
\* flag, and keeps its buttons off until the first load is over or drops it, with SWR.
THEOREM OwnActionStaysShown == PageSpec => []PageKeepsOwnAction
<1>1. PageSpec => []LoadInv
    BY PageInvariant, FlagInvariant, LoadsInit, LoadsStep, PTL DEF PageSpec
<1>2. PageSpec => []ShownInv
    BY PageInvariant, ShownInit, ShownStep, PTL DEF PageSpec
<1>3. LoadInv /\ ShownInv /\ JobsInv => PageKeepsOwnAction
    BY DEF LoadInv, LoadsInOrder, ShownInv, OwedIsShown, PageKeepsOwnAction, JobsInv, PageTypeOK
<1> QED
    BY <1>1, <1>2, <1>3, PageInvariant, PTL
=============================================================================
