------------------------- MODULE MemoryStore_proofs -------------------------
(***************************************************************************)
(* What the lock of the memories is worth, for every number of clients,     *)
(* memories, files and calls, with calls that go on without it, processes   *)
(* that die and file operations that fail: who can be inside together; that *)
(* nobody undoes what the last save or removal made of a file, and that the *)
(* index agrees with the files, while no two are.                           *)
(***************************************************************************)
EXTENDS MemoryStore, FiniteSetTheorems, WellFoundedInduction, TLAPS

(***************************************************************************)
(* The inductive invariant                                                 *)
(***************************************************************************)
\* A call that waits or works has a job, and a collector's steps are its own.
JobsFit ==
  \A c \in Client :
    /\ pc[c] # "idle" => job[c].kind # "none"
    /\ pc[c] \in {"truncate", "write"} => job[c].kind = "save"
    /\ pc[c] = "lock" => job[c].kind \in Touch \cup {"save", "forget", "collect"}
    /\ pc[c] \in {"read", "replace"} => job[c].kind \in Touch
    /\ pc[c] \in {"rename", "unguarded"} => job[c].kind = "collect"

\* Whoever is inside has the lock, or is one of those that may be without.
LockGuards ==
  \A c \in Client :
    Inside(c) => lock = c \/ job[c].kind = "collect" \/ timeouts > 0

\* As long as no race has been noted, nobody is inside with another.
AloneInside ==
  ~raced => \A c, d \in Client : Inside(c) /\ Inside(d) => c = d

\* What was read for the front matter to be changed is still what is there.
ReadIsFresh ==
  ~raced => \A c \in Client :
              pc[c] = "replace" => view[c][1] = file[Target(c)]

IInv ==
  TypeOK /\ JobsFit /\ LockGuards /\ AloneInside /\ ReadIsFresh /\ LastSaveStands
-----------------------------------------------------------------------------
LEMMA InitIInv == Init => IInv
<1> SUFFICES ASSUME Init PROVE IInv
  OBVIOUS
<1> USE DEF Init, NoJob
<1>1. TypeOK
  BY DEF TypeOK, Content, Absent, Torn, Job, Critical
<1>2. JobsFit /\ LockGuards /\ AloneInside /\ ReadIsFresh
  BY DEF JobsFit, LockGuards, AloneInside, ReadIsFresh, Inside, Critical
<1>3. LastSaveStands
  BY DEF LastSaveStands, Stands
<1> QED
  BY <1>1, <1>2, <1>3 DEF IInv

\* A call that leaves a memory ends or waits again, with the same purpose.
LEMMA LeavingKeepsJobs ==
  ASSUME TypeOK, NEW c \in Client, job[c].kind # "none", NEW a, Leave(c, a)
  PROVE  /\ pc' = [pc EXCEPT ![c] = pc'[c]]
         /\ pc'[c] \in {"idle", "lock"}
         /\ job' \in [Client -> Job]
         /\ pc'[c] = "lock" => job'[c].kind = job[c].kind
         /\ view' = [view EXCEPT ![c] = <<>>]
         /\ \A d \in Client : d # c => job'[d] = job[d] /\ view'[d] = view[d]
<1> DEFINE Goal == /\ pc' = [pc EXCEPT ![c] = pc'[c]]
                   /\ pc'[c] \in {"idle", "lock"}
                   /\ job' \in [Client -> Job]
                   /\ pc'[c] = "lock" => job'[c].kind = job[c].kind
                   /\ \A d \in Client : d # c => job'[d] = job[d]
<1>1. ASSUME pc' = [pc EXCEPT ![c] = "idle"],
             job' = [job EXCEPT ![c] = NoJob]
      PROVE  Goal
  <2>1. NoJob \in Job
    BY DEF NoJob, Job
  <2> QED
    BY <1>1, <2>1 DEF TypeOK
<1>2. ASSUME NEW f \in job[c].rest,
             pc' = [pc EXCEPT ![c] = "lock"],
             job' = [job EXCEPT ![c].file = f, ![c].rest = @ \ {f}]
      PROVE  Goal
  <2>1. pc' = [pc EXCEPT ![c] = pc'[c]] /\ pc'[c] \in {"idle", "lock"}
    BY <1>2 DEF TypeOK
  <2>2. \A d \in Client : d # c => job'[d] = job[d]
    BY <1>2 DEF TypeOK
  <2>3. job[c] \in Job
    BY DEF TypeOK
  <2>4. job'[c] = [job[c] EXCEPT !.file = f, !.rest = @ \ {f}]
    BY <1>2 DEF TypeOK
  <2>5. job'[c] \in Job /\ job'[c].kind = job[c].kind
    <3>1. CASE job[c] \in [kind : {"save"}, title : Title, text : Text,
                          file : File, rest : SUBSET File]
      <4>1. f \in File /\ job[c].rest \ {f} \in SUBSET File
        BY <1>2, <3>1
      <4> QED
        BY <2>4, <3>1, <4>1 DEF Job
    <3>2. CASE job[c] \in [kind : Touch \cup {"forget", "collect"},
                          title : Title \cup {Absent.title, Torn.title},
                          file : File, rest : SUBSET File, seen : [File -> Nat]]
      <4>1. f \in File /\ job[c].rest \ {f} \in SUBSET File
        BY <1>2, <3>2
      <4> QED
        BY <2>4, <3>2, <4>1 DEF Job
    <3> QED
      BY <2>3, <3>1, <3>2 DEF Job
  <2> QED
    BY <1>2, <2>1, <2>2, <2>5 DEF TypeOK
<1>3. Goal
  BY <1>1, <1>2, Zenon DEF Leave
<1>4. view' = [view EXCEPT ![c] = <<>>]
  BY DEF Leave
<1>5. \A d \in Client : d # c => view'[d] = view[d]
  BY <1>4 DEF TypeOK
<1> QED
  BY <1>3, <1>4, <1>5
-----------------------------------------------------------------------------
\* A call begins: it is answered at once, or it waits for the lock.
LEMMA Beginning ==
  ASSUME TypeOK, NEW c \in Client, Begin(c)
  PROVE  /\ UNCHANGED <<file, archive, index, saveVars, lock, view, raced, dirty,
                         unlisted, timeouts>>
         /\ pc[c] = "idle"
         /\ \/ pc' = pc
            \/ pc' = [pc EXCEPT ![c] = "lock"] /\ job'[c].kind # "none"
         /\ job' = [job EXCEPT ![c] = job'[c]]
         /\ job'[c] \in Job
<1> DEFINE Waits == \E j \in Job : j.kind # "none" /\ Wait(c, j)
           Refuses == \E a : Refuse(c, a)
<1>1. ASSUME Save(c)
      PROVE  Call(c) /\ (Waits \/ Refuses)
  <2>1. Call(c)
    BY <1>1 DEF Save
  <2>2. ASSUME NEW t \in Title, NEW x \in Text, NEW f \in File
        PROVE  LET j == [kind |-> "save", title |-> t, text |-> x, file |-> f,
                         rest |-> {}]
               IN  j \in Job /\ j.kind # "none"
    BY DEF Job
  <2>3. ASSUME NEW t \in Title, NEW x \in Text, NEW type \in Type,
               Wait(c, [kind |-> "save", title |-> t, text |-> x,
                        file |-> FileOf(type, t), rest |-> {}])
        PROVE  Waits
    <3>1. FileOf(type, t) \in File
      BY MemoryAssumption
    <3> QED
      BY <2>2, <2>3, <3>1, Zenon
  <2>4. Waits \/ Refuses
    <3> HIDE DEF Waits
    <3> QED
      BY <1>1, <2>3, Zenon DEF Save
  <2> QED
    BY <2>1, <2>4
<1>0. ASSUME NEW kind, NEW found \in SUBSET Present
      PROVE  Seen(kind, found) \in [File -> Nat]
  <2>1. ASSUME NEW f \in found, kind \in Touch, file[f] # Torn
        PROVE  file[f].uses[kind] \in Nat
    BY <2>1 DEF TypeOK, Content, Present
  <2> QED
    BY <2>1 DEF Seen
<1>2. ASSUME NEW kind \in {"forget", "reinforce"}, Lookup(c, kind)
      PROVE  Call(c) /\ (Waits \/ Refuses)
  <2>1. ASSUME NEW t \in Title, NEW f \in Present
        PROVE  LET j == [kind |-> kind, title |-> t, file |-> f, rest |-> {},
                         seen |-> Seen(kind, {f})]
               IN  j \in Job /\ j.kind # "none"
    <3>1. Seen(kind, {f}) \in [File -> Nat]
      BY <1>0
    <3>2. f \in File
      BY DEF Present
    <3> QED
      BY <3>1, <3>2 DEF Job, Touch
  <2>2. PICK t \in Title :
          LET found == {f \in Present : file[f].title = t}
          IN \/ found = {} /\ Refuse(c, "not_found")
             \/ \E f \in found :
                  Wait(c, [kind |-> kind, title |-> t, file |-> f,
                           rest |-> {}, seen |-> Seen(kind, {f})])
    BY <1>2 DEF Lookup
  <2> QED
    BY <1>2, <2>1, <2>2, Zenon DEF Lookup
<1>3. ASSUME NEW kind \in {"access", "collect"}, NEW found \in SUBSET Present,
             LookupMany(c, kind, found)
      PROVE  Call(c) /\ (Waits \/ Refuses)
  <2>1. ASSUME NEW f \in found
        PROVE  LET j == [kind |-> kind, title |-> file[f].title,
                         file |-> f, rest |-> found \ {f},
                         seen |-> Seen(kind, found)]
               IN  j \in Job /\ j.kind # "none"
    <3>1. f \in File /\ found \ {f} \in SUBSET File
      BY DEF Present
    <3>2. file[f].title \in Title \cup {Absent.title, Torn.title}
      BY <3>1 DEF TypeOK, Content
    <3>3. Seen(kind, found) \in [File -> Nat]
      BY <1>0
    <3> QED
      BY <3>1, <3>2, <3>3 DEF Job, Touch
  <2> QED
    BY <1>3, <2>1, Zenon DEF LookupMany
<1>4. Call(c) /\ (Waits \/ Refuses)
  <2> HIDE DEF Waits, Refuses
  <2> QED
    BY <1>1, <1>2, <1>3, Zenon
       DEF Begin, Save, Forget, Reinforce, Recall, Collect
<1>5. NoJob \in Job
  BY DEF NoJob, Job
<1>6. CASE Waits
  BY <1>4, <1>6 DEF TypeOK, Call, Wait, diskVars, ghostVars
<1>7. CASE Refuses
  BY <1>4, <1>5, <1>7 DEF TypeOK, Call, Refuse, diskVars, ghostVars
<1> QED
  BY <1>4, <1>6, <1>7
-----------------------------------------------------------------------------
\* Counting changes nothing but the count.
LEMMA CountedIsContent ==
  ASSUME NEW m \in [title : Title, text : Text, uses : [Touch -> Nat]],
         NEW k \in Touch, NEW n \in Nat
  PROVE  /\ Counted(m, k, n) \in [title : Title, text : Text, uses : [Touch -> Nat]]
         /\ Counted(m, k, n).title = m.title /\ Counted(m, k, n).text = m.text
         /\ m \notin {Absent, Torn} /\ Counted(m, k, n) \notin {Absent, Torn}
<1>1. m \notin {Absent, Torn}
  BY DEF Absent, Torn
<1> QED
  BY <1>1 DEF Counted, Absent, Torn

\* The steps of a client, the calls it begins taken together.
StepOf(c) == Begin(c) \/ Expire(c) \/ Proceed(c) \/ Crash(c) \/ Fails(c)

LEMMA NextKeepsTypes ==
  ASSUME TypeOK, JobsFit, NEW c \in Client, StepOf(c)
  PROVE  TypeOK' /\ JobsFit'
<1> USE DEF diskVars, callVars, saveVars, ghostVars, bounds, Release
<1>v. ASSUME NEW v, view' = [view EXCEPT ![c] = v]
      PROVE  /\ view' = [d \in Client |-> view'[d]]
             /\ view'[c] = v
             /\ \A d \in Client : d # c => view'[d] = view[d]
  BY <1>v DEF TypeOK
<1>b. CASE Begin(c)
  <2>1. /\ UNCHANGED view
        /\ pc' = [pc EXCEPT ![c] = pc'[c]]
        /\ pc'[c] \in {"idle", "lock"}
        /\ pc'[c] = "lock" => job'[c].kind # "none"
    BY <1>b, Beginning DEF TypeOK
  <2>2. job' = [job EXCEPT ![c] = job'[c]] /\ job'[c] \in Job
    BY <1>b, Beginning
  <2>3. TypeOK'
    BY <1>b, <2>1, <2>2, Beginning DEF TypeOK
  <2>4. job'[c].kind \in Touch \cup {"none", "save", "forget", "collect"}
    BY <2>2 DEF Job
  <2>5. JobsFit'
    BY <2>1, <2>2, <2>4 DEF TypeOK, JobsFit
  <2> QED
    BY <2>3, <2>5
<1>l. ASSUME NEW a, Leave(c, a), pc[c] # "idle",
             file' \in [File -> Content], archive' \in [File -> Content],
             kept' \in [File -> Content], lock' \in Client \cup {NoOne},
             UNCHANGED raced, timeouts' \in Nat
      PROVE  TypeOK' /\ JobsFit'
  <2>1. /\ pc' = [pc EXCEPT ![c] = pc'[c]]
        /\ pc'[c] \in {"idle", "lock"}
        /\ job' \in [Client -> Job]
        /\ pc'[c] = "lock" => job'[c].kind = job[c].kind
        /\ \A d \in Client : d # c => job'[d] = job[d]
        /\ view' = [view EXCEPT ![c] = <<>>]
    BY <1>l, LeavingKeepsJobs DEF JobsFit
  <2>2. job[c].kind \in Touch \cup {"save", "forget", "collect"}
    BY <1>l DEF TypeOK, JobsFit, Job
  <2>3. /\ view' = [d \in Client |-> view'[d]]
        /\ \A d \in Client : d # c => view'[d] = view[d]
    BY <1>v, <2>1
  <2>4. TypeOK'
    BY <1>l, <2>1, <2>3 DEF TypeOK
  <2>5. \A d \in Client : d # c => pc'[d] = pc[d] /\ job'[d] = job[d]
    BY <2>1 DEF TypeOK
  <2>6. JobsFit'
    BY <2>1, <2>2, <2>5 DEF JobsFit, Touch
  <2> QED
    BY <2>4, <2>6
\* A call that is cut short.
<1>k. ASSUME NEW a, Stop(c, a), Fault(c)
      PROVE  TypeOK' /\ JobsFit'
  <2>1. NoJob \in Job /\ NoJob.kind = "none"
    BY DEF NoJob, Job
  <2>2. /\ view' = [d \in Client |-> view'[d]]
        /\ \A d \in Client : d # c => view'[d] = view[d]
    BY <1>k, <1>v DEF Stop
  <2>3. TypeOK'
    BY <1>k, <2>1, <2>2 DEF Stop, Fault, TypeOK
  <2>4. JobsFit'
    BY <1>k DEF Stop, TypeOK, JobsFit
  <2> QED
    BY <2>3, <2>4
<1>s. ASSUME NEW from, NEW to \in (Critical \ {"truncate", "rename"})
                                  \cup {"unguarded"},
             Step(c, from, to), from # "idle",
             to = "write" => job[c].kind = "save",
             to = "unguarded" => job[c].kind = "collect",
             to # "read",
             to = "replace" => /\ job[c].kind \in Touch
                               /\ view'[c][1] \in Content \ {Absent, Torn},
             file' \in [File -> Content], archive' \in [File -> Content],
             kept' \in [File -> Content], lock' \in Client \cup {NoOne},
             \/ UNCHANGED view
             \/ \E v : view' = [view EXCEPT ![c] = v]
      PROVE  TypeOK' /\ JobsFit'
  <2>1. /\ view' = [d \in Client |-> view'[d]]
        /\ \A d \in Client : d # c => view'[d] = view[d]
    BY <1>s, <1>v DEF TypeOK
  <2>2. pc' = [pc EXCEPT ![c] = to] /\ UNCHANGED <<job, raced, timeouts>>
    BY <1>s DEF Step
  <2>3. TypeOK'
    BY <1>s, <2>1, <2>2 DEF TypeOK
  <2>4. pc[c] # "idle"
    BY <1>s DEF Step
  <2>5. JobsFit'
    BY <1>s, <2>2, <2>4 DEF TypeOK, JobsFit, Critical
  <2> QED
    BY <2>3, <2>5
<1>1. CASE Expire(c)
  BY <1>1 DEF Expire, TypeOK, JobsFit
<1>2. CASE Acquire(c)
  BY <1>2 DEF Acquire, FirstStep, Enter, Critical, TypeOK, JobsFit, Touch
<1>3. CASE GoOnUnlocked(c)
  BY <1>3 DEF GoOnUnlocked, FirstStep, Enter, Critical, TypeOK, JobsFit, Touch
<1>4. CASE GiveUp(c)
  BY <1>4, <1>l DEF GiveUp, TypeOK
<1>5. CASE Truncate(c)
  <2>1. /\ file' \in [File -> Content]
        /\ archive' \in [File -> Content]
        /\ kept' \in [File -> Content]
    BY <1>5 DEF Truncate, Put, Mean, Content, TypeOK
  <2>2. job[c].kind = "save"
    BY <1>5 DEF Truncate, Step, JobsFit
  <2> QED
    BY <1>5, <1>s, <2>1, <2>2 DEF Truncate, Critical, TypeOK
<1>6. CASE Write(c)
  <2>1. Saved(c) \in Content
    BY <1>6 DEF Write, Step, JobsFit, TypeOK, Job, Content, Memory, Saved, Touch
  <2>2. /\ file' \in [File -> Content]
        /\ archive' \in [File -> Content]
        /\ kept' \in [File -> Content]
    BY <1>6, <2>1 DEF Write, Put, Mean, TypeOK
  <2> QED
    BY <1>6, <1>s, <2>2 DEF Write, Critical, TypeOK
<1>7. CASE ReadIndex(c)
  BY <1>7, <1>s DEF ReadIndex, Critical, TypeOK
<1>8. CASE Unlink(c)
  <2>1. /\ file' \in [File -> Content]
        /\ archive' \in [File -> Content]
        /\ kept' \in [File -> Content]
    BY <1>8 DEF Unlink, Put, Mean, Content, TypeOK
  <2> QED
    BY <1>8, <1>s, <2>1 DEF Unlink, Critical, TypeOK
<1>9. CASE Scan(c)
  BY <1>9, <1>s DEF Scan, Critical, TypeOK
<1>10. CASE WriteIndex(c)
  BY <1>10, <1>l DEF WriteIndex, Return, TypeOK
<1>11. CASE ReadFile(c)
  <2>1. PICK v : v = file[Target(c)]
    OBVIOUS
  <2>2. /\ v \in Content \ {Absent, Torn}
        /\ job[c].kind \in Touch
    BY <1>11, <2>1 DEF ReadFile, Step, JobsFit, Target, TypeOK, Job, Touch
  <2> QED
    BY <1>11, <1>s, <1>v, <2>1, <2>2 DEF ReadFile, Critical, TypeOK
<1>12. CASE NothingToTouch(c)
  BY <1>12, <1>l DEF NothingToTouch, Return, TypeOK
<1>13. CASE Replace(c)
  <2> DEFINE k == job[c].kind
             f == Target(c)
  <2>1. pc[c] = "replace" /\ k \in Touch
    BY <1>13 DEF Replace, Return, JobsFit
  <2>2. f \in File /\ job[c].seen[f] \in Nat
    BY <2>1 DEF TypeOK, Job, Target, Touch
  <2>3. ASSUME NEW m \in Content \ {Absent, Torn}, NEW n \in Nat
        PROVE  /\ Counted(m, k, n) \in Content \ {Absent, Torn}
               /\ m.uses[k] \in Nat
    BY <2>1, <2>3, CountedIsContent DEF Content
  <2>4. file' \in [File -> Content]
    <3>1. Counted(view[c][1], k, job[c].seen[f] + 1) \in Content
      BY <2>1, <2>2, <2>3 DEF TypeOK
    <3> QED
      BY <1>13, <2>2, <3>1 DEF Replace, Put, TypeOK
  <2>5. kept' \in [File -> Content]
    <3>1. CASE kept[f] \notin {Absent, Torn}
      <4>1. kept[f] \in Content \ {Absent, Torn}
        BY <2>2, <3>1 DEF TypeOK
      <4>2. Counted(kept[f], k, kept[f].uses[k] + 1) \in Content
        BY <2>3, <4>1
      <4>3. kept' = [kept EXCEPT ![f] = Counted(kept[f], k, kept[f].uses[k] + 1)]
        BY <1>13, <2>2, <3>1 DEF Replace, TypeOK
      <4> QED
        BY <4>2, <4>3, <2>2 DEF TypeOK
    <3>2. CASE kept[f] \in {Absent, Torn}
      BY <1>13, <3>2 DEF Replace, TypeOK
    <3> QED
      BY <3>1, <3>2
  <2> QED
    BY <1>13, <1>l, <2>4, <2>5 DEF Replace, Return, TypeOK
<1>14. CASE Archive(c)
  <2>1. /\ file' \in [File -> Content]
        /\ archive' \in [File -> Content]
        /\ kept' \in [File -> Content]
    BY <1>14 DEF Archive, Put, Target, Content, TypeOK
  <2>2. job[c].kind = "collect"
    BY <1>14 DEF Archive, Step, JobsFit
  <2> QED
    BY <1>14, <1>s, <2>1, <2>2 DEF Archive, TypeOK
<1>15. CASE NothingToArchive(c)
  BY <1>15, <1>l DEF NothingToArchive, Return, TypeOK
<1>16. CASE StartRebuild(c)
  BY <1>16 DEF StartRebuild, Enter, Critical, TypeOK, JobsFit
<1>17. CASE Crash(c)
  BY <1>17, <1>k DEF Crash
<1>18. CASE Fails(c)
  <2>1. CASE Leave(c, "skipped")
    BY <1>18, <1>l, <2>1 DEF Fails, Fault, Critical, TypeOK
  <2> QED
    BY <1>18, <1>k, <2>1 DEF Fails
<1> QED
  BY <1>b, <1>1, <1>2, <1>3, <1>4, <1>5, <1>6, <1>7, <1>8, <1>9, <1>10, <1>11,
     <1>12, <1>13, <1>14, <1>15, <1>16, <1>17, <1>18
     DEF StepOf, Proceed
-----------------------------------------------------------------------------
\* The lock is taken when it is free, and given back on the way out.
LEMMA NextKeepsLockGuards ==
  ASSUME TypeOK, JobsFit, LockGuards, NEW c \in Client, StepOf(c)
  PROVE  LockGuards'
<1> USE DEF TypeOK, LockGuards, Inside, Critical, Release
<1>b. CASE Begin(c)
  <2>1. /\ UNCHANGED <<lock, timeouts>>
        /\ \A d \in Client : d # c => pc'[d] = pc[d] /\ job'[d] = job[d]
        /\ pc'[c] \in {"idle", "lock"}
    BY <1>b, Beginning
  <2> QED
    BY <2>1
<1>l. ASSUME NEW a, Leave(c, a), pc[c] # "idle",
             timeouts' = timeouts \/ timeouts' = timeouts + 1,
             lock' = lock \/ (lock = c /\ lock' = NoOne)
      PROVE  LockGuards'
  <2>1. /\ \A d \in Client : d # c => pc'[d] = pc[d] /\ job'[d] = job[d]
        /\ pc'[c] \in {"idle", "lock"}
    BY <1>l, LeavingKeepsJobs DEF JobsFit
  <2> QED
    BY <1>l, <2>1, MemoryAssumption
<1>s. ASSUME NEW from \in Critical, NEW to \in Critical, Step(c, from, to),
             lock' = lock
      PROVE  LockGuards'
  BY <1>s DEF Step, bounds
<1>1. CASE Expire(c)
  BY <1>1 DEF Expire, callVars, bounds
<1>2. CASE Acquire(c)
  BY <1>2, MemoryAssumption DEF Acquire, bounds
<1>3. CASE GoOnUnlocked(c)
  BY <1>3 DEF GoOnUnlocked
<1>4. CASE GiveUp(c)
  BY <1>4, <1>l DEF GiveUp
<1>5. CASE Truncate(c)
  BY <1>5, <1>s DEF Truncate
<1>6. CASE Write(c)
  BY <1>6, <1>s DEF Write
<1>7. CASE ReadIndex(c)
  BY <1>7, <1>s DEF ReadIndex
<1>8. CASE Unlink(c)
  BY <1>8, <1>s DEF Unlink
<1>9. CASE Scan(c)
  BY <1>9, <1>s DEF Scan
<1>10. CASE WriteIndex(c)
  BY <1>10, <1>l DEF WriteIndex, Return, bounds
<1>11. CASE ReadFile(c)
  BY <1>11, <1>s DEF ReadFile
<1>12. CASE NothingToTouch(c)
  BY <1>12, <1>l DEF NothingToTouch, Return, bounds
<1>13. CASE Replace(c)
  BY <1>13, <1>l DEF Replace, Return, bounds
<1>14. CASE Archive(c)
  BY <1>14, MemoryAssumption DEF Archive, Step, bounds
<1>15. CASE NothingToArchive(c)
  BY <1>15, <1>l DEF NothingToArchive, Return, bounds
<1>16. CASE StartRebuild(c)
  BY <1>16 DEF StartRebuild, JobsFit, bounds
<1>17. CASE Crash(c)
  BY <1>17, MemoryAssumption DEF Crash, Fault, Stop
<1>18. CASE Fails(c)
  <2>1. CASE Leave(c, "skipped")
    BY <1>18, <1>l, <2>1 DEF Fails, Fault
  <2> QED
    BY <1>18, <2>1, MemoryAssumption DEF Fails, Fault, Stop
<1> QED
  BY <1>b, <1>1, <1>2, <1>3, <1>4, <1>5, <1>6, <1>7, <1>8, <1>9, <1>10, <1>11,
     <1>12, <1>13, <1>14, <1>15, <1>16, <1>17, <1>18
     DEF StepOf, Proceed

\* Whoever enters looks for others.
LEMMA NextKeepsAloneInside ==
  ASSUME TypeOK, JobsFit, AloneInside, NEW c \in Client, StepOf(c)
  PROVE  AloneInside'
<1> USE DEF TypeOK, AloneInside, Inside, Critical
<1>b. CASE Begin(c)
  <2>1. /\ UNCHANGED raced
        /\ \A d \in Client : d # c => pc'[d] = pc[d]
        /\ pc'[c] \in {"idle", "lock"}
    BY <1>b, Beginning
  <2> QED
    BY <2>1
<1>l. ASSUME NEW a, Leave(c, a), pc[c] # "idle", UNCHANGED raced
      PROVE  AloneInside'
  <2>1. /\ \A d \in Client : d # c => pc'[d] = pc[d]
        /\ pc'[c] \in {"idle", "lock"}
    BY <1>l, LeavingKeepsJobs DEF JobsFit
  <2> QED
    BY <1>l, <2>1
<1>s. ASSUME NEW from \in Critical, NEW to, Step(c, from, to)
      PROVE  AloneInside'
  BY <1>s DEF Step
<1>1. CASE Expire(c)
  BY <1>1 DEF Expire, callVars, ghostVars
<1>2. CASE Acquire(c)
  BY <1>2 DEF Acquire, Enter
<1>3. CASE GoOnUnlocked(c)
  BY <1>3 DEF GoOnUnlocked, Enter
<1>4. CASE GiveUp(c)
  BY <1>4, <1>l DEF GiveUp, ghostVars
<1>5. CASE Truncate(c)
  BY <1>5, <1>s DEF Truncate
<1>6. CASE Write(c)
  BY <1>6, <1>s DEF Write
<1>7. CASE ReadIndex(c)
  BY <1>7, <1>s DEF ReadIndex
<1>8. CASE Unlink(c)
  BY <1>8, <1>s DEF Unlink
<1>9. CASE Scan(c)
  BY <1>9, <1>s DEF Scan
<1>10. CASE WriteIndex(c)
  BY <1>10, <1>l DEF WriteIndex, Return
<1>11. CASE ReadFile(c)
  BY <1>11, <1>s DEF ReadFile
<1>12. CASE NothingToTouch(c)
  BY <1>12, <1>l DEF NothingToTouch, Return
<1>13. CASE Replace(c)
  BY <1>13, <1>l DEF Replace, Return
<1>14. CASE Archive(c)
  BY <1>14, <1>s DEF Archive
<1>15. CASE NothingToArchive(c)
  BY <1>15, <1>l DEF NothingToArchive, Return
<1>16. CASE StartRebuild(c)
  BY <1>16 DEF StartRebuild, Enter
<1>17. CASE Crash(c)
  BY <1>17 DEF Crash, Fault, Stop
<1>18. CASE Fails(c)
  <2>1. CASE Leave(c, "skipped")
    BY <1>18, <1>l, <2>1 DEF Fails, Fault
  <2> QED
    BY <1>18, <2>1 DEF Fails, Fault, Stop
<1> QED
  BY <1>b, <1>1, <1>2, <1>3, <1>4, <1>5, <1>6, <1>7, <1>8, <1>9, <1>10, <1>11,
     <1>12, <1>13, <1>14, <1>15, <1>16, <1>17, <1>18
     DEF StepOf, Proceed

\* That two calls met is not forgotten.
LEMMA RacesStay ==
  ASSUME TypeOK, NEW c \in Client, StepOf(c)
  PROVE  raced => raced'
<1>1. CASE Begin(c) \/ Expire(c) \/ Crash(c) \/ Fails(c)
  BY <1>1, Beginning, Zenon DEF Expire, Crash, Fails, Fault, ghostVars
<1>2. CASE Proceed(c)
  BY <1>2, Zenon
     DEF Proceed, Acquire, GoOnUnlocked, GiveUp, Truncate, Write, ReadIndex,
         Unlink, Scan, WriteIndex, ReadFile, NothingToTouch, Replace, Archive,
         NothingToArchive, StartRebuild, Enter, Step, Return, ghostVars
<1> QED
  BY <1>1, <1>2 DEF StepOf

\* Words are told from what is absent or torn.
LEMMA WordsAreMemories ==
  ASSUME NEW m \in Content
  PROVE  /\ WordsOf(m) \in {Absent, Torn} <=> m \in {Absent, Torn}
         /\ WordsOf(m).title = m.title
         /\ \A k \in Touch, n \in Nat :
              m \notin {Absent, Torn} => WordsOf(Counted(m, k, n)) = WordsOf(m)
<1>1. CASE m \in {Absent, Torn}
  BY <1>1 DEF WordsOf
<1>2. CASE m \in [title : Title, text : Text, uses : [Touch -> Nat]]
  <2>1. m \notin {Absent, Torn}
    BY <1>2 DEF Absent, Torn
  <2>2. WordsOf(m) = Words(m.title, m.text)
    BY <2>1 DEF WordsOf
  <2>3. WordsOf(m) \notin {Absent, Torn} /\ WordsOf(m).title = m.title
    BY <2>2 DEF Words, Absent, Torn
  <2>4. ASSUME NEW k \in Touch, NEW n \in Nat
        PROVE  WordsOf(Counted(m, k, n)) = WordsOf(m)
    BY <1>2, <2>2, CountedIsContent DEF WordsOf
  <2> QED
    BY <2>1, <2>3, <2>4
<1> QED
  BY <1>1, <1>2 DEF Content

\* What LastSaveStands says of one file.
Holds(f) ==
  \/ Stands(file[f], f)
  \/ file[f] = Absent /\ (Stands(archive[f], f) \/ f \in mistaken)

\* A file changes only by a client that is alone inside: to what that client
\* means it to be, to what it was but for a count, or into the archive.
LEMMA NextKeepsLastSave ==
  ASSUME TypeOK, TypeOK', JobsFit, AloneInside, ReadIsFresh, LastSaveStands,
         NEW c \in Client, StepOf(c)
  PROVE  ReadIsFresh' /\ LastSaveStands'
<1> USE DEF TypeOK, ReadIsFresh, Inside, Critical, diskVars, saveVars
<1>r. raced => raced'
  BY RacesStay
<1>h. /\ ~raced => \A f \in File : Holds(f)
      /\ (~raced' => \A f \in File : Holds(f)') => LastSaveStands'
  BY DEF LastSaveStands, Holds
\* A file that nothing happens to.
<1>o. ASSUME NEW f \in File, ~raced, file'[f] = file[f], kept'[f] = kept[f],
             archive'[f] = archive[f], f \in stale => f \in stale',
             f \in mistaken => f \in mistaken'
      PROVE  Holds(f)'
  BY <1>h, <1>o DEF Holds, Stands
\* A step that changes no file.
<1>c. ASSUME UNCHANGED <<file, archive, saveVars>>,
             \A d \in Client :
               pc'[d] = "replace" =>
                 /\ pc[d] = "replace" /\ view'[d] = view[d]
                 /\ job'[d] = job[d]
      PROVE  ReadIsFresh' /\ LastSaveStands'
  <2>1. ASSUME ~raced', NEW d \in Client, pc'[d] = "replace"
        PROVE  view'[d][1] = file'[Target(d)']
    BY <1>c, <1>r, <2>1 DEF Target
  <2>2. LastSaveStands'
    BY <1>c, <1>r, <1>h, <1>o
  <2> QED
    BY <2>1, <2>2
\* A step that changes one file, by a client inside.
<1>w. ASSUME Inside(c), pc'[c] # "replace",
             \A d \in Client : d # c => pc'[d] = pc[d],
             ~raced => \A f \in File : Holds(f)'
      PROVE  ReadIsFresh' /\ LastSaveStands'
  <2>1. ASSUME ~raced', NEW d \in Client, pc'[d] = "replace" PROVE FALSE
    BY <1>r, <1>w, <2>1 DEF AloneInside
  <2>2. LastSaveStands'
    BY <1>r, <1>h, <1>w
  <2> QED
    BY <2>1, <2>2
\* A save or a removal of the file that c is busy with.
<1>m. ASSUME NEW m, Put(c, m), Mean(c, m), UNCHANGED archive, ~raced,
             Target(c) \in File
      PROVE  \A f \in File : Holds(f)'
  <2> TAKE f \in File
  <2>1. CASE f = Target(c)
    BY <1>m, <2>1 DEF Put, Mean, Holds, Stands
  <2>2. CASE f # Target(c)
    BY <1>m, <1>o, <2>2 DEF Put, Mean
  <2> QED
    BY <2>1, <2>2
<1>t. pc[c] # "idle" => Target(c) \in File
  BY DEF JobsFit, Target, Job
<1>b. CASE Begin(c)
  BY <1>b, <1>c, Beginning
<1>l. ASSUME NEW a, Leave(c, a), pc[c] # "idle",
             UNCHANGED <<file, archive, saveVars>>
      PROVE  ReadIsFresh' /\ LastSaveStands'
  <2>1. /\ \A d \in Client : d # c => /\ pc'[d] = pc[d] /\ job'[d] = job[d]
                                      /\ view'[d] = view[d]
        /\ pc'[c] \in {"idle", "lock"}
    BY <1>l, LeavingKeepsJobs DEF JobsFit
  <2> QED
    BY <1>c, <1>l, <2>1
<1>k. ASSUME NEW a, Stop(c, a), Fault(c) PROVE ReadIsFresh' /\ LastSaveStands'
  BY <1>k, <1>c DEF Stop, Fault
<1>s. ASSUME NEW from, NEW to, Step(c, from, to), to # "replace",
             UNCHANGED <<file, archive, saveVars>>,
             \E v : view' = [view EXCEPT ![c] = v]
      PROVE  ReadIsFresh' /\ LastSaveStands'
  <2>1. \A d \in Client : d # c => view'[d] = view[d]
    BY <1>s
  <2> QED
    BY <1>c, <1>s, <2>1 DEF Step
<1>1. CASE Expire(c)
  BY <1>1, <1>c DEF Expire, callVars, ghostVars
<1>2. CASE Acquire(c)
  BY <1>2, <1>c DEF Acquire, FirstStep, JobsFit, Touch
<1>3. CASE GoOnUnlocked(c)
  BY <1>3, <1>c DEF GoOnUnlocked, FirstStep, JobsFit
<1>4. CASE GiveUp(c)
  BY <1>4, <1>l DEF GiveUp, ghostVars
<1>5. CASE Truncate(c)
  BY <1>5, <1>w, <1>m, <1>t DEF Truncate, Step
<1>6. CASE Write(c)
  BY <1>6, <1>w, <1>m, <1>t DEF Write, Step
<1>7. CASE ReadIndex(c)
  BY <1>7, <1>s DEF ReadIndex
<1>8. CASE Unlink(c)
  <2> DEFINE g == Target(c)
             asked == {job[c].title, Absent.title, Torn.title}
  <2>1. CASE kept[g].title \in asked
    BY <1>8, <1>w, <1>m, <1>t, <2>1 DEF Unlink, Step
  <2>2. CASE kept[g].title \notin asked
    <3>1. /\ g \in File /\ UNCHANGED <<archive, kept, stale>>
          /\ file' = [file EXCEPT ![g] = Absent]
          /\ mistaken' = mistaken \cup ({g} \cap Present)
      BY <1>8, <1>t, <2>2 DEF Unlink, Step, Put
    <3>2. ASSUME ~raced, NEW f \in File PROVE Holds(f)'
      <4>1. CASE f # g
        BY <1>o, <3>1, <3>2, <4>1
      <4>2. CASE f = g /\ g \in Present
        BY <3>1, <4>2 DEF Holds
      <4>3. CASE f = g /\ g \notin Present
        <5>1. file[g] = Absent /\ file'[g] = file[g]
          BY <3>1, <4>3 DEF Present
        <5> QED
          BY <1>o, <3>1, <3>2, <4>3, <5>1
      <4> QED
        BY <4>1, <4>2, <4>3
    <3> QED
      BY <1>8, <1>w, <3>2 DEF Unlink, Step
  <2> QED
    BY <2>1, <2>2
<1>9. CASE Scan(c)
  BY <1>9, <1>s DEF Scan
<1>10. CASE WriteIndex(c)
  BY <1>10, <1>l DEF WriteIndex, Return
<1>11. CASE ReadFile(c)
  <2>1. view'[c][1] = file[Target(c)]
    BY <1>11 DEF ReadFile
  <2>2. /\ \A d \in Client : d # c => view'[d] = view[d] /\ pc'[d] = pc[d]
        /\ UNCHANGED <<file, archive, saveVars, job>>
    BY <1>11 DEF ReadFile, Step
  <2>3. ASSUME ~raced', NEW d \in Client, pc'[d] = "replace"
        PROVE  view'[d][1] = file'[Target(d)']
    BY <1>r, <2>1, <2>2, <2>3 DEF Target
  <2>4. LastSaveStands'
    BY <1>r, <1>h, <1>o, <2>2
  <2> QED
    BY <2>3, <2>4
<1>12. CASE NothingToTouch(c)
  BY <1>12, <1>l DEF NothingToTouch, Return
<1>13. CASE Replace(c)
  <2> DEFINE k == job[c].kind
             n == job[c].seen[Target(c)]
             m == view[c][1]
  <2>g. PICK g : g = Target(c)
    OBVIOUS
  <2>0. /\ pc[c] = "replace" /\ \E a : Leave(c, a)
        /\ UNCHANGED <<archive, mistaken>>
        /\ file' = [file EXCEPT ![g] = Counted(m, k, n + 1)]
        /\ kept' = IF kept[g] \in {Absent, Torn} THEN kept
                   ELSE [kept EXCEPT ![g] = Counted(@, k, @.uses[k] + 1)]
        /\ stale' = IF n = m.uses[k] THEN stale ELSE stale \cup {g}
    BY <1>13, <2>g DEF Replace, Return, Put
  <2>1. /\ \A d \in Client : d # c => pc'[d] = pc[d]
        /\ pc'[c] # "replace"
    BY <2>0, LeavingKeepsJobs DEF JobsFit
  <2>2. k \in Touch /\ g \in File /\ n \in Nat
    BY <2>0, <2>g DEF JobsFit, Job, Target, Touch
  <2>3. m \in Content \ {Absent, Torn} /\ kept[g] \in Content
    BY <2>0, <2>2
  <2>4. ASSUME ~raced, NEW f \in File, f # g PROVE Holds(f)'
    BY <1>o, <2>0, <2>4
  <2>5. ASSUME ~raced PROVE Holds(g)'
    <3>1. m = file[g]
      BY <2>0, <2>5, <2>g
    <3>2. WordsOf(m) = WordsOf(kept[g])
      BY <1>h, <2>2, <2>3, <2>5, <3>1 DEF Holds, Stands
    <3>3. kept[g] \notin {Absent, Torn}
      BY <2>3, <3>2, WordsAreMemories
    <3>4. /\ file'[g] = Counted(m, k, n + 1)
          /\ kept'[g] = Counted(kept[g], k, kept[g].uses[k] + 1)
      BY <2>0, <2>2, <3>3
    <3>5. WordsOf(file'[g]) = WordsOf(kept'[g])
      <4>1. n + 1 \in Nat /\ kept[g].uses[k] + 1 \in Nat
        BY <2>2, <2>3, <3>3 DEF Content
      <4> QED
        BY <2>2, <2>3, <3>2, <3>3, <3>4, <4>1, WordsAreMemories
    <3>6. CASE g \in stale'
      BY <3>5, <3>6 DEF Holds, Stands
    <3>7. CASE g \notin stale'
      <4>1. g \notin stale /\ n = m.uses[k]
        BY <2>0, <3>7
      <4>2. m = kept[g]
        BY <1>h, <2>2, <2>3, <2>5, <3>1, <4>1 DEF Holds, Stands
      <4> QED
        BY <3>4, <4>1, <4>2 DEF Holds, Stands
    <3> QED
      BY <3>6, <3>7
  <2> QED
    BY <1>w, <2>0, <2>1, <2>4, <2>5
<1>14. CASE Archive(c)
  <2> DEFINE g == Target(c)
  <2>1. /\ g \in File /\ file[g] # Absent
        /\ archive' = [archive EXCEPT ![g] = file[g]]
        /\ file' = [file EXCEPT ![g] = Absent]
        /\ UNCHANGED saveVars
    BY <1>14, <1>t DEF Archive, Put, Step
  <2>2. ASSUME ~raced, NEW f \in File PROVE Holds(f)'
    <3>1. CASE f # g
      BY <1>o, <2>1, <2>2, <3>1
    <3>2. CASE f = g
      <4>1. Stands(file[g], g)
        BY <1>h, <2>1, <2>2 DEF Holds
      <4> QED
        BY <2>1, <3>2, <4>1 DEF Holds, Stands
    <3> QED
      BY <3>1, <3>2
  <2> QED
    BY <1>14, <1>w, <2>2 DEF Archive, Step
<1>15. CASE NothingToArchive(c)
  BY <1>15, <1>l DEF NothingToArchive, Return
<1>16. CASE StartRebuild(c)
  BY <1>16, <1>c DEF StartRebuild
<1>17. CASE Crash(c)
  BY <1>17, <1>k DEF Crash
<1>18. CASE Fails(c)
  <2>1. CASE Leave(c, "skipped")
    BY <1>18, <1>l, <2>1 DEF Fails, Fault
  <2> QED
    BY <1>18, <1>k, <2>1 DEF Fails
<1> QED
  BY <1>b, <1>1, <1>2, <1>3, <1>4, <1>5, <1>6, <1>7, <1>8, <1>9, <1>10, <1>11,
     <1>12, <1>13, <1>14, <1>15, <1>16, <1>17, <1>18
     DEF StepOf, Proceed
-----------------------------------------------------------------------------
\* The inductive invariant holds in every state of every run.
THEOREM MemoryInvariant == Spec => []IInv
<1>1. IInv /\ [Next]_vars => IInv'
  <2> SUFFICES ASSUME IInv, [Next]_vars PROVE IInv'
    OBVIOUS
  <2>1. ASSUME NEW c \in Client, StepOf(c) PROVE IInv'
    BY <2>1, NextKeepsTypes, NextKeepsLockGuards, NextKeepsAloneInside,
       NextKeepsLastSave DEF IInv
  <2>2. CASE UNCHANGED vars
    BY <2>2
       DEF IInv, TypeOK, JobsFit, LockGuards, AloneInside, ReadIsFresh,
           LastSaveStands, Stands, Inside, Target, vars, diskVars, callVars,
           saveVars, ghostVars, bounds
  <2> QED
    BY <2>1, <2>2 DEF Next, StepOf
<1> QED
  BY InitIInv, <1>1, PTL DEF Spec

\* Two calls are inside together only if one of them collects or waited for the
\* lock in vain (memory_lock; MemoryLifecycle._execute_gc_action).
THEOREM OnlyUnlockedAreTogether == Spec => []TogetherOnlyUnlocked
<1>1. IInv => TogetherOnlyUnlocked
  BY DEF IInv, LockGuards, TogetherOnlyUnlocked
<1> QED
  BY MemoryInvariant, <1>1, PTL

\* As long as no two calls are inside together, a file is what its last save and
\* the touches since, or its removal, made it, or in the archive, but for counts
\* made from old ones and removals that waited (PersistentMemory.add and remove,
\* MemoryLifecycle._update_frontmatter_field and _execute_gc_action).
THEOREM SavesStand == Spec => []LastSaveStands
<1>1. IInv => LastSaveStands
  BY DEF IInv
<1> QED
  BY MemoryInvariant, <1>1, PTL
-----------------------------------------------------------------------------
(***************************************************************************)
(* Why the index agrees with the files                                     *)
(***************************************************************************)
IndexLine ==
  [of : [title : Title, text : Text] \cup {Absent, Torn}, file : File]
    \cup {Blank}

IndexText == {lines \in Seq(IndexLine) : Len(lines) <= MaxIndexLines}

\* The steps of a call that saves, and of one that removes.
StepsFit ==
  \A c \in Client :
    /\ pc[c] = "readindex" => job[c].kind = "save"
    /\ pc[c] = "unlink" => job[c].kind = "forget"
    /\ pc[c] = "scan" => job[c].kind \in {"forget", "collect"}

LinesAreLines ==
  /\ index \in IndexText
  /\ \A c \in Client : pc[c] = "writeindex" => view[c] \in IndexText

Saves(c) == job[c].kind = "save" /\ pc[c] \in {"write", "readindex", "writeindex"}
Rebuilds(c) ==
  job[c].kind # "save" /\ pc[c] \in {"unguarded", "scan", "writeindex"}
Lists(lines, f) == \E l \in Range(lines) : l.of.title = file[f].title
SavedLine(c) == Line(Saved(c), Target(c))

\* A saver that has written its memory is about to list it.
SavedIsThere ==
  \A c \in Client : Saves(c) /\ pc[c] # "write" => file[Target(c)] = Saved(c)

\* What a saver will write is the index with its line.
UpdateIsFresh ==
  \A c \in Client : Saves(c) /\ pc[c] = "writeindex" =>
    view[c] = Updated(index, SavedLine(c))

\* What a removal or a collection will write is what is there.
RebuildIsFresh ==
  \A c \in Client : Rebuilds(c) /\ pc[c] = "writeindex" => view[c] = Rebuilt

\* A memory that is not listed was given up or is being saved; a line that leads
\* nowhere is about to go with a rebuild.
ListedOrSaved ==
  \A f \in Present :
    \/ Lists(index, f)
    \/ file[f].title \in unlisted
    \/ \E c \in Client : Saves(c) /\ Target(c) = f
LeadsOrRebuilt ==
  \A l \in Range(index) :
    l = Blank \/ l.file \in Present \/ \E c \in Client : Rebuilds(c)

Agreement ==
  ~raced => /\ SavedIsThere /\ UpdateIsFresh /\ RebuildIsFresh
            /\ ~dirty => ListedOrSaved /\ LeadsOrRebuilt

IndexInv == StepsFit /\ LinesAreLines /\ Agreement
-----------------------------------------------------------------------------
\* The first place of this title is one of its places.
LEMMA FirstIsOne ==
  ASSUME NEW S \in SUBSET Nat, S # {}
  PROVE  Min(S) \in S
<1> DEFINE Below(x) == {y \in S : y < x}
           B == {Below(x) : x \in S}
<1>1. B \subseteq FiniteSubsetsOf(Nat) /\ B # {}
  <2>1. ASSUME NEW x \in S PROVE Below(x) \in FiniteSubsetsOf(Nat)
    <3>1. Below(x) \in SUBSET Nat /\ x \in Nat
      OBVIOUS
    <3>2. ASSUME NEW y \in Below(x) PROVE y <= x
      <4>1. y \in Nat /\ y < x
        OBVIOUS
      <4> QED
        BY <3>1, <4>1
    <3> QED
      BY <3>1, <3>2, FS_BoundedSetOfNaturals DEF FiniteSubsetsOf
  <2> QED
    BY <2>1
<1> HIDE DEF B
<1>2. PICK U \in B : \A V \in B : ~ (<<V, U>> \in StrictSubsetOrdering(Nat))
  BY <1>1, FS_StrictSubsetOrderingWellFounded, WFMin
<1>3. PICK x \in S : U = Below(x)
  BY DEF B
<1>4. ASSUME NEW y \in S, ~ (x <= y) PROVE FALSE
  <2>0. x \in Nat /\ y \in Nat /\ y < x
    <3>1. x \in Nat /\ y \in Nat
      OBVIOUS
    <3> QED
      BY <1>4, <3>1
  <2>1. y \in Below(x) /\ y \notin Below(y) /\ Below(y) \subseteq Below(x)
    <3>1. ASSUME NEW z \in Below(y) PROVE z \in Below(x)
      <4>1. z \in S /\ z \in Nat /\ z < y
        OBVIOUS
      <4> QED
        BY <2>0, <4>1
    <3>2. y \in Below(x)
      BY <2>0
    <3>3. y \notin Below(y)
      BY <2>0
    <3> HIDE DEF Below
    <3> QED
      BY <3>1, <3>2, <3>3
  <2>2. Below(x) \in SUBSET Nat /\ Below(y) \in SUBSET Nat
    OBVIOUS
  <2>3. <<Below(y), Below(x)>> \in StrictSubsetOrdering(Nat)
    BY <2>1, <2>2 DEF StrictSubsetOrdering
  <2>4. Below(y) \in B
    BY DEF B
  <2> QED
    BY <1>2, <1>3, <2>3, <2>4
<1> QED
  BY <1>4 DEF Min

\* The limit cuts what is beyond it (MAX_INDEX_LINES).
LEMMA CutIsPrefix ==
  ASSUME NEW S, NEW s \in Seq(S)
  PROVE  /\ Cut(s) \in Seq(S) /\ Len(Cut(s)) <= MaxIndexLines
         /\ Len(s) <= MaxIndexLines => Cut(s) = s
         /\ Len(s) > MaxIndexLines => Len(Cut(s)) = MaxIndexLines
         /\ \A i \in 1..Len(Cut(s)) : i \in 1..Len(s) /\ Cut(s)[i] = s[i]
<1>1. MaxIndexLines \in Nat /\ MaxIndexLines >= 1
  BY MemoryAssumption
<1>2. Len(s) \in Nat
  OBVIOUS
<1>3. CASE Len(s) <= MaxIndexLines
  BY <1>1, <1>2, <1>3 DEF Cut
<1>4. CASE Len(s) > MaxIndexLines
  <2>1. Cut(s) = SubSeq(s, 1, MaxIndexLines)
    BY <1>1, <1>2, <1>4 DEF Cut
  <2>2. /\ Cut(s) \in Seq(S) /\ Len(Cut(s)) = MaxIndexLines
        /\ \A i \in 1..MaxIndexLines : Cut(s)[i] = s[i]
    BY <1>1, <1>2, <1>4, <2>1
  <2> QED
    BY <1>1, <1>2, <1>4, <2>2
<1> QED
  BY <1>1, <1>2, <1>3, <1>4

\* What a save does to the lines.
GivesUp(lines, t) ==
  LET i == FirstNaming(lines, t)
  IN IF i # 0 THEN {lines[i].of.title}
     ELSE IF Len(lines) < MaxIndexLines THEN {} ELSE {t}

\* _update_index keeps every title but that of the line it changes, adds the one
\* it was given if there is room, and leads nowhere else
\* (PersistentMemory._update_index).
LEMMA UpdatedKeepsTitles ==
  ASSUME NEW lines \in IndexText, NEW line \in IndexLine
  PROVE  /\ Updated(lines, line) \in IndexText
         /\ \A l \in Range(lines) :
              \/ \E k \in Range(Updated(lines, line)) : k.of.title = l.of.title
              \/ l.of.title \in GivesUp(lines, line.of.title)
         /\ \/ \E k \in Range(Updated(lines, line)) : k = line
            \/ /\ FirstNaming(lines, line.of.title) = 0
               /\ GivesUp(lines, line.of.title) = {line.of.title}
         /\ \A k \in Range(Updated(lines, line)) :
              k = line \/ k \in Range(lines)
<1> DEFINE t == line.of.title
           I == {i \in 1..Len(lines) : Names(lines[i], t)}
           new == Updated(lines, line)
<1>m. MaxIndexLines \in Nat /\ MaxIndexLines >= 1
  BY MemoryAssumption
<1>s. lines \in Seq(IndexLine) /\ Len(lines) \in Nat /\ Len(lines) <= MaxIndexLines
  BY DEF IndexText
<1>0. I # {} => Min(I) \in I
  <2>1. I \in SUBSET Nat
    OBVIOUS
  <2> HIDE DEF I
  <2> QED
    BY <2>1, FirstIsOne
<1>1. FirstNaming(lines, t) = IF I = {} THEN 0 ELSE Min(I)
  BY DEF FirstNaming, SelectInSeq
<1>2. DOMAIN lines = 1..Len(lines)
  BY <1>s
<1>3. CASE I = {}
  <2>1. new = Cut(Append(lines, line))
    BY <1>1, <1>3 DEF Updated
  <2>2. /\ Append(lines, line) \in Seq(IndexLine)
        /\ Len(Append(lines, line)) = Len(lines) + 1
        /\ \A i \in 1..Len(lines) : Append(lines, line)[i] = lines[i]
        /\ Append(lines, line)[Len(lines) + 1] = line
    BY <1>s
  <2> DEFINE longer == Append(lines, line)
  <2>c. /\ new \in Seq(IndexLine)
        /\ Len(longer) <= MaxIndexLines => new = longer
        /\ Len(longer) > MaxIndexLines => Len(new) = MaxIndexLines
        /\ \A i \in 1..Len(new) : i \in 1..Len(longer) /\ new[i] = longer[i]
    <3>1. longer \in Seq(IndexLine) /\ new = Cut(longer)
      BY <2>1, <2>2
    <3> HIDE DEF longer, new
    <3> QED
      BY <3>1, CutIsPrefix
  <2>3. CASE Len(lines) < MaxIndexLines
    <3>1. new = Append(lines, line)
      BY <1>m, <1>s, <2>c, <2>2, <2>3
    <3>2. /\ new \in IndexText
          /\ \A i \in DOMAIN lines : i \in DOMAIN new /\ new[i] = lines[i]
          /\ Len(lines) + 1 \in DOMAIN new /\ new[Len(lines) + 1] = line
          /\ \A i \in DOMAIN new : i \in DOMAIN lines \/ i = Len(lines) + 1
      BY <1>m, <1>s, <2>2, <2>3, <3>1 DEF IndexText
    <3> HIDE DEF new
    <3> QED
      BY <3>2 DEF new, Range
  <2>4. CASE Len(lines) = MaxIndexLines
    <3>1. FirstNaming(lines, t) = 0 /\ GivesUp(lines, t) = {t}
      BY <1>m, <1>1, <1>3, <2>4 DEF GivesUp
    <3>2. /\ new \in Seq(IndexLine) /\ Len(new) = MaxIndexLines
          /\ \A i \in 1..Len(new) : new[i] = Append(lines, line)[i]
      <4>1. Len(longer) > MaxIndexLines
        BY <1>m, <2>2, <2>4
      <4> QED
        BY <2>c, <4>1
    <3>3. /\ new \in IndexText
          /\ DOMAIN new = DOMAIN lines
          /\ \A i \in DOMAIN lines : new[i] = lines[i]
      BY <1>m, <1>s, <1>2, <2>2, <2>4, <3>2 DEF IndexText
    <3> HIDE DEF new
    <3> QED
      BY <3>1, <3>3 DEF new, Range
  <2> QED
    BY <1>m, <1>s, <2>3, <2>4
<1>4. CASE I # {}
  <2>1. PICK m : m = Min(I)
    OBVIOUS
  <2>2. m \in I /\ m \in 1..Len(lines)
    BY <1>0, <1>4, <2>1
  <2>3. FirstNaming(lines, t) = m /\ m # 0
    BY <1>1, <1>4, <2>1, <2>2
  <2>4. [lines EXCEPT ![m] = line] \in IndexText
    BY <1>s, <2>2 DEF IndexText
  <2>5. new = [lines EXCEPT ![m] = line]
    <3>1. new = Cut([lines EXCEPT ![m] = line])
      BY <2>3 DEF Updated, ReplaceAt
    <3> QED
      BY <2>4, <3>1, CutIsPrefix DEF IndexText
  <2>6. /\ new \in IndexText
        /\ DOMAIN new = DOMAIN lines
        /\ m \in DOMAIN lines /\ new[m] = line
        /\ \A i \in DOMAIN lines : i # m => new[i] = lines[i]
    BY <1>s, <2>2, <2>4, <2>5
  <2>7. GivesUp(lines, t) = {lines[m].of.title}
    BY <2>3 DEF GivesUp
  <2> HIDE DEF new
  <2> QED
    BY <2>6, <2>7 DEF new, Range
<1> QED
  BY <1>3, <1>4

\* _rebuild_index lists what is there, as far as there is room, and that only.
LEMMA RebuiltIsExact ==
  ASSUME TypeOK
  PROVE  /\ Rebuilt \in IndexText
         /\ Cardinality(Present) <= MaxIndexLines =>
              \A f \in Present : Lists(Rebuilt, f)
         /\ \A k \in Range(Rebuilt) : k = Blank \/ k.file \in Present
<1> DEFINE fs == SetToSeq(Present)
           n == Cardinality(Present)
           all == [i \in DOMAIN fs |-> Line(file[fs[i]], fs[i])]
<1>m. MaxIndexLines \in Nat /\ MaxIndexLines >= 1
  BY MemoryAssumption
<1>1. IsFiniteSet(Present) /\ Present \subseteq File
  BY MemoryAssumption, FS_Subset DEF Present
<1>2. n \in Nat /\ ExistsBijection(1..n, Present)
  BY <1>1, FS_CardinalityType
<1>3. \E f \in [1..n -> Present] : IsInjective(f)
  BY <1>2 DEF ExistsBijection, Bijection, Injection
<1>4. fs \in [1..n -> Present] /\ IsInjective(fs)
  BY <1>3 DEF SetToSeq
<1>5. fs \in Surjection(1..n, Present)
  <2>1. fs \in Injection(1..n, Present)
    BY <1>4 DEF Injection
  <2>2. IsFiniteSet(1..n) /\ Cardinality(1..n) = n
    BY <1>2, FS_Interval
  <2> QED
    BY <1>1, <2>1, <2>2, FS_Injection
<1>6. \A f \in Present : \E i \in 1..n : fs[i] = f
  BY <1>5 DEF Surjection
<1>7. ASSUME NEW f \in Present
      PROVE  /\ Line(file[f], f) \in IndexLine
             /\ Line(file[f], f).file = f
             /\ Line(file[f], f).of.title = file[f].title
  <2>1. f \in File /\ file[f] \in Content
    BY <1>1 DEF TypeOK
  <2>2. WordsOf(file[f]) \in [title : Title, text : Text] \cup {Absent, Torn}
    BY <2>1 DEF WordsOf, Words, Content
  <2> QED
    BY <2>1, <2>2, WordsAreMemories DEF Line, IndexLine
<1>8. CASE Present = {}
  <2>1. Rebuilt = <<Blank>>
    BY <1>8 DEF Rebuilt
  <2> QED
    BY <1>m, <1>8, <2>1 DEF IndexText, IndexLine, Range
<1>9. CASE Present # {}
  <2>1. Rebuilt = Cut(all)
    BY <1>9 DEF Rebuilt
  <2> HIDE DEF fs, n
  <2>2. all \in [1..n -> IndexLine]
    BY <1>4, <1>7
  <2>3. all \in Seq(IndexLine) /\ Len(all) = n
    BY <1>2, <2>2 DEF n
  <2>4. \A i \in 1..n : fs[i] \in Present /\ all[i] = Line(file[fs[i]], fs[i])
    BY <1>4
  <2> HIDE DEF all
  <2>5. /\ Rebuilt \in Seq(IndexLine) /\ Len(Rebuilt) <= MaxIndexLines
        /\ n <= MaxIndexLines => Rebuilt = all
        /\ \A i \in 1..Len(Rebuilt) : i \in 1..n /\ Rebuilt[i] = all[i]
    BY <2>1, <2>3, CutIsPrefix
  <2>6. DOMAIN Rebuilt = 1..Len(Rebuilt)
    BY <2>5
  <2>7. \A k \in Range(Rebuilt) : k.file \in Present
    BY <1>7, <2>4, <2>5, <2>6 DEF Range
  <2>8. ASSUME n <= MaxIndexLines, NEW f \in Present PROVE Lists(Rebuilt, f)
    <3>1. PICK i \in 1..n : fs[i] = f
      BY <1>6
    <3>2. i \in DOMAIN Rebuilt /\ Rebuilt[i] = Line(file[f], f)
      BY <2>3, <2>4, <2>5, <2>6, <2>8, <3>1
    <3> QED
      BY <1>7, <3>2 DEF Lists, Range
  <2> QED
    BY <2>5, <2>7, <2>8 DEF IndexText, n
<1> QED
  BY <1>8, <1>9
-----------------------------------------------------------------------------
\* A saver's line is a line.
LEMMA SavedLinesAreLines ==
  ASSUME TypeOK, NEW c \in Client, job[c].kind = "save"
  PROVE  /\ SavedLine(c) \in IndexLine
         /\ SavedLine(c).of.title = job[c].title
         /\ SavedLine(c).file = Target(c) /\ Target(c) \in File
         /\ Saved(c) \in Content \ {Absent} /\ Saved(c).title = job[c].title
<1>1. job[c].title \in Title /\ job[c].text \in Text /\ Target(c) \in File
  BY DEF TypeOK, Job, Target, Touch
<1>2. /\ Saved(c) \in [title : Title, text : Text, uses : [Touch -> Nat]]
      /\ Saved(c).title = job[c].title /\ Saved(c).text = job[c].text
  BY <1>1 DEF Saved, Memory
<1>3. Saved(c) \notin {Absent, Torn}
  BY <1>2 DEF Absent, Torn
<1>4. WordsOf(Saved(c)) = Words(job[c].title, job[c].text)
  BY <1>2, <1>3 DEF WordsOf
<1> QED
  BY <1>1, <1>2, <1>3, <1>4 DEF SavedLine, Line, IndexLine, Words, Content

LEMMA NextKeepsLines ==
  ASSUME TypeOK, JobsFit, StepsFit, LinesAreLines, NEW c \in Client, StepOf(c)
  PROVE  StepsFit' /\ LinesAreLines'
<1> USE DEF TypeOK, StepsFit, LinesAreLines, JobsFit
\* A step that leaves c where it has nothing to show.
<1>a. ASSUME UNCHANGED index,
             \A d \in Client : d # c => /\ pc'[d] = pc[d] /\ view'[d] = view[d]
                                        /\ job'[d] = job[d],
             pc'[c] \notin {"readindex", "unlink", "scan", "writeindex"}
      PROVE  StepsFit' /\ LinesAreLines'
  BY <1>a
<1>l. ASSUME NEW a, Leave(c, a), pc[c] # "idle", index' \in IndexText
      PROVE  StepsFit' /\ LinesAreLines'
  <2>1. /\ \A d \in Client : d # c => /\ pc'[d] = pc[d] /\ job'[d] = job[d]
                                      /\ view'[d] = view[d]
        /\ pc'[c] \in {"idle", "lock"}
    BY <1>l, LeavingKeepsJobs
  <2> QED
    BY <1>l, <2>1
\* A step to a place where it has.
<1>s. ASSUME NEW from, NEW to, Step(c, from, to), UNCHANGED index,
             \A d \in Client : d # c => view'[d] = view[d],
             to = "readindex" => job[c].kind = "save",
             to = "unlink" => FALSE,
             to = "scan" => job[c].kind \in {"forget", "collect"},
             to = "writeindex" => view'[c] \in IndexText
      PROVE  StepsFit' /\ LinesAreLines'
  BY <1>s DEF Step
\* A call that is cut short.
<1>k. ASSUME NEW a, Stop(c, a), Fault(c)
      PROVE  StepsFit' /\ LinesAreLines'
  <2>1. index' = index \/ index' = <<Blank>>
    BY <1>k DEF Stop
  <2>2. <<Blank>> \in IndexText
    BY MemoryAssumption DEF IndexText, IndexLine
  <2> QED
    BY <1>k, <2>1, <2>2 DEF Stop
<1>b. CASE Begin(c)
  <2>1. /\ UNCHANGED index
        /\ \A d \in Client : d # c => /\ pc'[d] = pc[d] /\ view'[d] = view[d]
                                      /\ job'[d] = job[d]
        /\ pc'[c] \in {"idle", "lock"}
    BY <1>b, Beginning
  <2> QED
    BY <1>a, <2>1
<1>1. CASE Expire(c)
  BY <1>1 DEF Expire, callVars, diskVars
<1>2. CASE Acquire(c)
  BY <1>2 DEF Acquire, FirstStep, Touch, diskVars
<1>3. CASE GoOnUnlocked(c)
  BY <1>3 DEF GoOnUnlocked, FirstStep, Touch, diskVars
<1>4. CASE GiveUp(c)
  BY <1>4, <1>l DEF GiveUp, diskVars
<1>5. CASE Truncate(c)
  BY <1>5, <1>s DEF Truncate
<1>6. CASE Write(c)
  BY <1>6, <1>s DEF Write, Step
<1>7. CASE ReadIndex(c)
  <2>1. SavedLine(c) \in IndexLine
    <3>1. pc[c] = "readindex" /\ job[c].kind = "save"
      BY <1>7 DEF ReadIndex, Step
    <3> QED
      BY <3>1, SavedLinesAreLines
  <2>2. Updated(index, SavedLine(c)) \in IndexText
    BY <2>1, UpdatedKeepsTitles
  <2> QED
    BY <1>7, <1>s, <2>2 DEF ReadIndex, SavedLine, diskVars
<1>8. CASE Unlink(c)
  BY <1>8, <1>s DEF Unlink, Step
<1>9. CASE Scan(c)
  BY <1>9, <1>s, RebuiltIsExact DEF Scan, diskVars
<1>10. CASE WriteIndex(c)
  BY <1>10, <1>l DEF WriteIndex, Return
<1>11. CASE ReadFile(c)
  BY <1>11, <1>s DEF ReadFile, diskVars
<1>12. CASE NothingToTouch(c)
  BY <1>12, <1>l DEF NothingToTouch, Return, diskVars
<1>13. CASE Replace(c)
  BY <1>13, <1>l DEF Replace, Return
<1>14. CASE Archive(c)
  BY <1>14, <1>s DEF Archive
<1>15. CASE NothingToArchive(c)
  BY <1>15, <1>l DEF NothingToArchive, Return, diskVars
<1>16. CASE StartRebuild(c)
  BY <1>16 DEF StartRebuild, diskVars
<1>17. CASE Crash(c)
  BY <1>17, <1>k DEF Crash
<1>18. CASE Fails(c)
  <2>1. CASE Leave(c, "skipped") /\ UNCHANGED index
    BY <1>18, <1>l, <2>1 DEF Fails, Critical
  <2> QED
    BY <1>18, <1>k, <2>1 DEF Fails
<1> QED
  BY <1>b, <1>1, <1>2, <1>3, <1>4, <1>5, <1>6, <1>7, <1>8, <1>9, <1>10, <1>11,
     <1>12, <1>13, <1>14, <1>15, <1>16, <1>17, <1>18
     DEF StepOf, Proceed

\* Steps that change neither the files nor the index, nor who saves or rebuilds;
\* a process that dies before it could rebuild the index leaves a mark.
LEMMA QuietStepsKeepAgreement ==
  ASSUME Agreement, raced => raced', UNCHANGED <<file, index, unlisted>>,
         dirty => dirty',
         \A d \in Client :
           \/ pc'[d] = pc[d] /\ job'[d] = job[d] /\ view'[d] = view[d]
           \/ pc[d] \notin HalfDone /\ pc'[d] \notin HalfDone
           \/ pc[d] = "unguarded" /\ pc'[d] = "scan" /\ job'[d] = job[d]
           \/ pc[d] = "unguarded" /\ pc'[d] = "idle" /\ dirty'
  PROVE  Agreement'
<1> SUFFICES ASSUME ~raced'
             PROVE  /\ SavedIsThere' /\ UpdateIsFresh' /\ RebuildIsFresh'
                    /\ ~dirty' => ListedOrSaved' /\ LeadsOrRebuilt'
  BY DEF Agreement
<1> USE DEF HalfDone
<1>1. /\ SavedIsThere /\ UpdateIsFresh /\ RebuildIsFresh
      /\ ~dirty => ListedOrSaved /\ LeadsOrRebuilt
      /\ dirty => dirty'
  BY DEF Agreement
<1>2. /\ Present' = Present /\ \A f : Lists(index, f)' <=> Lists(index, f)
      /\ Rebuilt' = Rebuilt
  BY DEF Present, Lists, Rebuilt
<1>3. \A d \in Client : /\ Saves(d)' <=> Saves(d)
                        /\ Rebuilds(d)' => Rebuilds(d)
                        /\ Rebuilds(d) => Rebuilds(d)' \/ dirty'
                        /\ Saves(d) => Target(d)' = Target(d)
                        /\ pc'[d] = "writeindex" => view'[d] = view[d]
                        /\ pc'[d] = "write" <=> pc[d] = "write"
                        /\ pc'[d] = "writeindex" <=> pc[d] = "writeindex"
                        /\ pc'[d] \in {"write", "readindex", "writeindex"} =>
                             job'[d] = job[d]
  BY DEF Saves, Rebuilds, Target
<1>4. SavedIsThere'
  BY <1>1, <1>3 DEF SavedIsThere, Saves, Saved
<1>5. UpdateIsFresh'
  BY <1>1, <1>3 DEF UpdateIsFresh, Saves, SavedLine, Saved
<1>6. RebuildIsFresh'
  BY <1>1, <1>2, <1>3 DEF RebuildIsFresh
<1>7. ListedOrSaved => ListedOrSaved'
  BY <1>2, <1>3 DEF ListedOrSaved
<1>8. LeadsOrRebuilt /\ ~dirty' => LeadsOrRebuilt'
  BY <1>2, <1>3 DEF LeadsOrRebuilt
<1> QED
  BY <1>1, <1>4, <1>5, <1>6, <1>7, <1>8

\* A step of a client that is alone inside: only its own call is in question.
LEMMA LoneStepsKeepAgreement ==
  ASSUME TypeOK, Agreement, AloneInside, NEW c \in Client, Inside(c),
         raced => raced',
         \A d \in Client : d # c => /\ pc'[d] = pc[d] /\ job'[d] = job[d]
                                    /\ view'[d] = view[d],
         ~raced =>
           /\ Saves(c)' /\ pc'[c] # "write" => file'[Target(c)'] = Saved(c)'
           /\ Saves(c)' /\ pc'[c] = "writeindex" =>
                view'[c] = Updated(index, SavedLine(c))'
           /\ Rebuilds(c)' /\ pc'[c] = "writeindex" => view'[c] = Rebuilt'
           /\ ~dirty' => ListedOrSaved' /\ LeadsOrRebuilt'
  PROVE  Agreement'
<1> SUFFICES ASSUME ~raced'
             PROVE  SavedIsThere' /\ UpdateIsFresh' /\ RebuildIsFresh'
  BY DEF Agreement
<1>1. \A d \in Client : d # c => ~ Inside(d)
  BY DEF AloneInside
<1>2. \A d \in Client : d # c => pc'[d] \notin {"readindex", "write", "writeindex"}
  BY <1>1 DEF Inside, Critical
<1>3. SavedIsThere'
  BY <1>2 DEF SavedIsThere, Saves
<1>4. UpdateIsFresh'
  BY <1>2 DEF UpdateIsFresh, Saves
<1>5. RebuildIsFresh'
  BY <1>2 DEF RebuildIsFresh, Rebuilds
<1> QED
  BY <1>3, <1>4, <1>5

LEMMA NextKeepsAgreement ==
  ASSUME IInv, IInv', StepsFit, LinesAreLines, Agreement,
         NEW c \in Client, StepOf(c)
  PROVE  Agreement'
<1> USE DEF IInv, diskVars, ghostVars, callVars
<1>r. raced => raced'
  BY RacesStay
<1>l. ASSUME NEW a, Leave(c, a), pc[c] \notin HalfDone, pc[c] # "idle",
             UNCHANGED <<file, index, dirty, unlisted>>
      PROVE  Agreement'
  <2>1. /\ \A d \in Client : d # c => /\ pc'[d] = pc[d] /\ job'[d] = job[d]
                                      /\ view'[d] = view[d]
        /\ pc'[c] \in {"idle", "lock"}
    <3>1. TypeOK /\ job[c].kind # "none"
      BY <1>l DEF JobsFit
    <3> QED
      BY <1>l, <3>1, LeavingKeepsJobs DEF TypeOK
  <2>2. pc[c] \notin HalfDone /\ pc'[c] \notin HalfDone
    BY <1>l, <2>1 DEF HalfDone
  <2> QED
    BY <1>l, <1>r, <2>1, <2>2, QuietStepsKeepAgreement
<1>w. ASSUME NEW from \in Critical, NEW to, Step(c, from, to)
      PROVE  /\ Inside(c)
             /\ pc'[c] = to
             /\ job' = job
             /\ \A d \in Client : d # c => pc'[d] = pc[d]
             /\ ~raced => \A d \in Client : d # c => ~Saves(d)
  BY <1>w DEF Step, TypeOK, AloneInside, Inside, Critical, Saves
\* A step that changes the file that c is busy with.
<1>f. ASSUME Inside(c), UNCHANGED <<index, dirty, unlisted>>,
             \A d \in Client : d # c => /\ pc'[d] = pc[d] /\ job'[d] = job[d]
                                        /\ view'[d] = view[d],
             NEW m, file' = [file EXCEPT ![Target(c)] = m],
             job'[c] = job[c], pc'[c] # "writeindex",
             \/ Saves(c)' /\ m # Absent
                /\ (pc'[c] # "write" => m = Saved(c))
             \/ Rebuilds(c)' /\ m = Absent /\ ~Saves(c)
      PROVE  Agreement'
  <2> SUFFICES ASSUME ~raced PROVE
        /\ Saves(c)' /\ pc'[c] # "write" =>
             file'[Target(c)'] = Saved(c)'
        /\ ~dirty' => ListedOrSaved' /\ LeadsOrRebuilt'
    BY <1>f, <1>r, LoneStepsKeepAgreement
  <2>1. Target(c)' = Target(c) /\ Target(c) \in File
    BY <1>f DEF Target, Saves, Rebuilds, TypeOK, Job
  <2>2. /\ file'[Target(c)] = m
        /\ \A f \in File : f # Target(c) => file'[f] = file[f]
    BY <1>f, <2>1 DEF TypeOK
  <2>3. /\ \A f \in Present' : f # Target(c) => f \in Present
        /\ m # Absent => Target(c) \in Present' /\ Present \subseteq Present'
    BY <2>1, <2>2 DEF Present
  <2>4. \A d \in Client : d # c => ~Saves(d)
    BY <1>f DEF AloneInside, Inside, Critical, Saves
  <2>5. \A d \in Client : d # c => (Rebuilds(d)' <=> Rebuilds(d))
    BY <1>f DEF Rebuilds
  <2>6. ListedOrSaved => ListedOrSaved'
    <3> SUFFICES ASSUME ListedOrSaved, NEW f \in Present'
                 PROVE  \/ Lists(index, f)'
                        \/ file'[f].title \in unlisted'
                        \/ \E d \in Client : Saves(d)' /\ Target(d)' = f
      BY DEF ListedOrSaved
    <3>1. CASE f = Target(c)
      <4>1. Saves(c)'
        BY <1>f, <2>1, <2>2, <3>1 DEF Present
      <4> QED
        BY <2>1, <3>1, <4>1
    <3>2. CASE f # Target(c)
      <4>1. f \in Present /\ f \in File /\ file'[f] = file[f]
        BY <2>2, <2>3, <3>2 DEF Present
      <4>2. Lists(index, f) \/ file[f].title \in unlisted
        BY <2>4, <3>2, <4>1 DEF ListedOrSaved
      <4> QED
        BY <1>f, <4>1, <4>2 DEF Lists
    <3> QED
      BY <3>1, <3>2
  <2>7. LeadsOrRebuilt => LeadsOrRebuilt'
    <3>1. CASE Rebuilds(c)'
      BY <3>1 DEF LeadsOrRebuilt
    <3>2. CASE m # Absent /\ Saves(c)'
      <4>1. ~Rebuilds(c)
        BY <1>f, <3>2 DEF Saves, Rebuilds
      <4> QED
        BY <1>f, <2>3, <2>5, <3>2, <4>1 DEF LeadsOrRebuilt
    <3> QED
      BY <1>f, <3>1, <3>2
  <2>8. Saves(c)' /\ pc'[c] # "write" =>
          file'[Target(c)'] = Saved(c)'
    BY <1>f, <2>1, <2>2 DEF Saved, Saves, Rebuilds
  <2> QED
    BY <1>f, <2>6, <2>7, <2>8 DEF Agreement
<1>b. CASE Begin(c)
  <2>1. /\ UNCHANGED <<file, index, dirty, unlisted>>
        /\ \A d \in Client : d # c => /\ pc'[d] = pc[d] /\ view'[d] = view[d]
                                      /\ job'[d] = job[d]
        /\ pc[c] = "idle" /\ pc'[c] \in {"idle", "lock"}
    BY <1>b, Beginning DEF TypeOK
  <2> QED
    BY <1>r, <2>1, QuietStepsKeepAgreement DEF HalfDone
<1>1. CASE Expire(c)
  BY <1>1, <1>r, QuietStepsKeepAgreement DEF Expire
<1>2. CASE Acquire(c)
  BY <1>2, <1>r, QuietStepsKeepAgreement
     DEF Acquire, FirstStep, HalfDone, TypeOK, JobsFit, Touch
<1>3. CASE GoOnUnlocked(c)
  BY <1>3, <1>r, QuietStepsKeepAgreement
     DEF GoOnUnlocked, FirstStep, HalfDone, TypeOK
<1>4. CASE GiveUp(c)
  BY <1>4, <1>l DEF GiveUp, HalfDone
<1>5. CASE Truncate(c)
  <2>1. job[c].kind = "save"
    BY <1>5 DEF Truncate, Step, JobsFit
  <2>2. Torn # Absent
    BY DEF Absent, Torn
  <2>3. /\ Inside(c) /\ pc'[c] = "write" /\ job' = job
        /\ \A d \in Client : d # c => pc'[d] = pc[d]
    BY <1>5, <1>w DEF Truncate, Critical
  <2>4. Saves(c)'
    BY <2>1, <2>3 DEF Saves
  <2> QED
    BY <1>5, <1>f, <2>2, <2>3, <2>4 DEF Truncate, Put
<1>6. CASE Write(c)
  <2>1. job[c].kind = "save"
    BY <1>6 DEF Write, Step, JobsFit
  <2>2. Saved(c) # Absent
    BY <2>1, SavedLinesAreLines
  <2>3. /\ Inside(c) /\ pc'[c] = "readindex" /\ job' = job
        /\ \A d \in Client : d # c => pc'[d] = pc[d]
    BY <1>6, <1>w DEF Write, Critical
  <2>4. Saves(c)'
    BY <2>1, <2>3 DEF Saves
  <2> QED
    BY <1>6, <1>f, <2>2, <2>3, <2>4 DEF Write, Put
<1>7. CASE ReadIndex(c)
  <2>1. job[c].kind = "save"
    BY <1>7 DEF ReadIndex, Step, StepsFit
  <2>2. /\ view'[c] = Updated(index, SavedLine(c))
        /\ \A d \in Client : d # c => view'[d] = view[d]
        /\ UNCHANGED <<file, index, dirty, unlisted>>
    BY <1>7 DEF ReadIndex, SavedLine, TypeOK
  <2>3. /\ Inside(c) /\ pc[c] = "readindex" /\ pc'[c] = "writeindex"
        /\ job' = job /\ Target(c)' = Target(c)
        /\ Saved(c)' = Saved(c) /\ SavedLine(c)' = SavedLine(c)
        /\ \A d \in Client : d # c => pc'[d] = pc[d]
    BY <1>7, <1>w DEF ReadIndex, Step, Critical, Target, Saved, SavedLine
  <2>4. ~raced => file[Target(c)] = Saved(c)
    BY <2>1, <2>3 DEF Agreement, SavedIsThere, Saves
  <2>5. ~raced /\ ~dirty => ListedOrSaved' /\ LeadsOrRebuilt'
    <3>1. /\ Present' = Present /\ \A f : Lists(index, f)' <=> Lists(index, f)
      BY <2>2 DEF Present, Lists
    <3>2. \A d \in Client : Saves(d) => Saves(d)' /\ Target(d)' = Target(d)
      BY <2>3 DEF Saves, Target
    <3>3. \A d \in Client : Rebuilds(d) => Rebuilds(d)'
      BY <2>3 DEF Rebuilds
    <3> QED
      BY <2>2, <3>1, <3>2, <3>3 DEF Agreement, ListedOrSaved, LeadsOrRebuilt
  <2>6. ~Rebuilds(c)'
    BY <2>1, <2>3 DEF Rebuilds
  <2> QED
    BY <1>r, <2>2, <2>3, <2>4, <2>5, <2>6, LoneStepsKeepAgreement
<1>8. CASE Unlink(c)
  <2>1. job[c].kind = "forget"
    BY <1>8 DEF Unlink, Step, StepsFit
  <2> QED
    BY <1>8, <1>f, <1>w, <2>1 DEF Unlink, Step, Put, Saves, Rebuilds, Critical
<1>9. CASE Scan(c)
  <2>1. job[c].kind # "save"
    BY <1>9 DEF Scan, Step, StepsFit
  <2>2. /\ view'[c] = Rebuilt
        /\ \A d \in Client : d # c => view'[d] = view[d]
        /\ UNCHANGED <<file, index, dirty, unlisted>>
    BY <1>9 DEF Scan, TypeOK
  <2>3. /\ Inside(c) /\ pc[c] = "scan" /\ pc'[c] = "writeindex" /\ job' = job
        /\ \A d \in Client : d # c => pc'[d] = pc[d]
    BY <1>9, <1>w DEF Scan, Step, Critical
  <2>4. /\ Present' = Present /\ \A f : Lists(index, f)' <=> Lists(index, f)
    BY <2>2 DEF Present, Lists
  <2>5. view'[c] = Rebuilt'
    BY <2>2 DEF Rebuilt, Present
  <2>6. ~raced /\ ~dirty => ListedOrSaved' /\ LeadsOrRebuilt'
    <3>1. \A d \in Client : Saves(d) => Saves(d)' /\ Target(d)' = Target(d)
      BY <2>3 DEF Saves, Target
    <3>2. \A d \in Client : Rebuilds(d) => Rebuilds(d)'
      BY <2>3 DEF Rebuilds
    <3> QED
      BY <2>2, <2>4, <3>1, <3>2 DEF Agreement, ListedOrSaved, LeadsOrRebuilt
  <2>7. ~Saves(c)'
    BY <2>1, <2>3 DEF Saves
  <2> QED
    BY <1>r, <2>2, <2>3, <2>5, <2>6, <2>7, LoneStepsKeepAgreement
<1>10. CASE WriteIndex(c)
  <2>1. /\ pc[c] = "writeindex" /\ Inside(c)
        /\ index' = view[c] /\ UNCHANGED file
        /\ unlisted' = GivenUp(c)
        /\ dirty' = (dirty /\ job[c].kind = "save")
    BY <1>10 DEF WriteIndex, Return, Inside, Critical
  <2>2. /\ \A d \in Client : d # c => /\ pc'[d] = pc[d] /\ job'[d] = job[d]
                                      /\ view'[d] = view[d]
        /\ pc'[c] \in {"idle", "lock"}
    <3>1. TypeOK /\ job[c].kind # "none" /\ \E a : Leave(c, a)
      BY <1>10, <2>1 DEF WriteIndex, Return, JobsFit
    <3> QED
      BY <3>1, LeavingKeepsJobs DEF TypeOK
  <2>3. ~Saves(c)' /\ ~Rebuilds(c)'
    BY <2>2 DEF Saves, Rebuilds
  <2>4. Present' = Present /\ \A f : Lists(index, f)' <=> Lists(view[c], f)
    BY <2>1 DEF Present, Lists
  <2>5. ASSUME ~raced, job[c].kind = "save", ~dirty
        PROVE  ListedOrSaved' /\ LeadsOrRebuilt'
    <3> DEFINE t == job[c].title
               line == SavedLine(c)
    <3>1. Saves(c) /\ ~Rebuilds(c)
      BY <2>1, <2>5 DEF Saves, Rebuilds
    <3>2. \A d \in Client : Saves(d) => d = c
      BY <2>1, <2>5 DEF AloneInside, Inside, Critical, Saves
    <3>3. /\ view[c] = Updated(index, line)
          /\ file[Target(c)] = Saved(c)
          /\ ListedOrSaved /\ LeadsOrRebuilt
      BY <2>1, <2>5, <3>1 DEF Agreement, UpdateIsFresh, SavedIsThere
    <3>4. /\ line \in IndexLine /\ line.of.title = t
          /\ line.file = Target(c) /\ Target(c) \in File
          /\ Saved(c) # Absent /\ Saved(c).title = t
      BY <2>5, SavedLinesAreLines
    <3>5. /\ \A l \in Range(index) :
               \/ \E k \in Range(view[c]) : k.of.title = l.of.title
               \/ l.of.title \in GivesUp(index, t)
          /\ \/ \E k \in Range(view[c]) : k = line
             \/ FirstNaming(index, t) = 0 /\ GivesUp(index, t) = {t}
          /\ \A k \in Range(view[c]) : k = line \/ k \in Range(index)
      <4>1. index \in IndexText
        BY DEF LinesAreLines
      <4> HIDE DEF t, line
      <4>2. /\ \A l \in Range(index) :
                 \/ \E k \in Range(Updated(index, line)) : k.of.title = l.of.title
                 \/ l.of.title \in GivesUp(index, line.of.title)
            /\ \/ \E k \in Range(Updated(index, line)) : k = line
               \/ /\ FirstNaming(index, line.of.title) = 0
                  /\ GivesUp(index, line.of.title) = {line.of.title}
            /\ \A k \in Range(Updated(index, line)) :
                 k = line \/ k \in Range(index)
        BY <3>4, <4>1, UpdatedKeepsTitles
      <4> QED
        BY <3>3, <3>4, <4>2
    <3>6. /\ unlisted \ {t} \subseteq unlisted'
          /\ GivesUp(index, t) \ {t} \subseteq unlisted'
          /\ FirstNaming(index, t) = 0 => GivesUp(index, t) \subseteq unlisted'
      <4>1. unlisted' = (unlisted \ {t}) \cup
              (IF FirstNaming(index, t) # 0
               THEN {index[FirstNaming(index, t)].of.title} \ {t}
               ELSE IF Len(index) < MaxIndexLines THEN {} ELSE {t})
        BY <2>1, <2>5 DEF GivenUp
      <4> HIDE DEF t
      <4> QED
        BY <4>1 DEF GivesUp
    <3>8. \/ \E k \in Range(view[c]) : k.of.title = t
          \/ t \in unlisted'
      BY <3>4, <3>5, <3>6
    <3>9. Target(c) \in Present
      BY <3>3, <3>4 DEF Present
    <3>10. \A f \in Present : Lists(view[c], f) \/ file[f].title \in unlisted'
      <4> HIDE DEF t, line
      <4>1. ASSUME NEW f \in Present, file[f].title = t
            PROVE  Lists(view[c], f) \/ file[f].title \in unlisted'
        BY <3>8, <4>1 DEF Lists
      <4>2. ASSUME NEW f \in Present, file[f].title # t
            PROVE  Lists(view[c], f) \/ file[f].title \in unlisted'
        <5>1. f # Target(c)
          BY <3>3, <3>4, <4>2
        <5>2. Lists(index, f) \/ file[f].title \in unlisted
          BY <3>2, <3>3, <5>1 DEF ListedOrSaved
        <5>3. CASE Lists(index, f)
          <6>1. PICK l \in Range(index) : l.of.title = file[f].title
            BY <5>3 DEF Lists
          <6>2. CASE \E k \in Range(view[c]) : k.of.title = l.of.title
            BY <6>1, <6>2 DEF Lists
          <6>3. CASE l.of.title \in GivesUp(index, t)
            BY <3>6, <4>2, <6>1, <6>3
          <6> QED
            BY <3>5, <6>2, <6>3
        <5>4. CASE file[f].title \in unlisted
          BY <3>6, <4>2, <5>4
        <5> QED
          BY <5>2, <5>3, <5>4
      <4> QED
        BY <4>1, <4>2
    <3>11. \A d \in Client : Rebuilds(d) => Rebuilds(d)'
      BY <2>2, <3>1 DEF Rebuilds
    <3>12. LeadsOrRebuilt'
      BY <2>1, <2>4, <3>3, <3>4, <3>5, <3>9, <3>11 DEF LeadsOrRebuilt
    <3> QED
      BY <2>1, <2>4, <3>10, <3>12 DEF ListedOrSaved
  <2>6. ASSUME ~raced, job[c].kind # "save"
        PROVE  ListedOrSaved' /\ LeadsOrRebuilt'
    <3>1. view[c] = Rebuilt
      BY <2>1, <2>6 DEF Agreement, RebuildIsFresh, Rebuilds
    <3>2. \A k \in Range(view[c]) : k = Blank \/ k.file \in Present
      BY <3>1, RebuiltIsExact
    <3>3. \A f \in Present : Lists(view[c], f) \/ file[f].title \in unlisted'
      <4>1. CASE Cardinality(Present) <= MaxIndexLines
        BY <3>1, <4>1, RebuiltIsExact
      <4>2. CASE ~(Cardinality(Present) <= MaxIndexLines)
        BY <2>1, <2>6, <4>2 DEF GivenUp
      <4> QED
        BY <4>1, <4>2
    <3> QED
      BY <2>1, <2>4, <3>2, <3>3 DEF ListedOrSaved, LeadsOrRebuilt
  <2> QED
    BY <1>r, <2>1, <2>2, <2>3, <2>5, <2>6, LoneStepsKeepAgreement
<1>11. CASE ReadFile(c)
  BY <1>11, <1>r, QuietStepsKeepAgreement DEF ReadFile, Step, HalfDone, TypeOK
<1>12. CASE NothingToTouch(c)
  BY <1>12, <1>l DEF NothingToTouch, Return, HalfDone
<1>13. CASE Replace(c)
  <2>1. CASE raced
    BY <1>r, <2>1 DEF Agreement
  <2>2. CASE ~raced
    <3> DEFINE m == view[c][1]
               n == Counted(m, job[c].kind, job[c].seen[Target(c)] + 1)
    <3>1. /\ pc[c] = "replace" /\ \E a : Leave(c, a)
          /\ file' = [file EXCEPT ![Target(c)] = n]
          /\ UNCHANGED <<index, dirty, unlisted>>
      BY <1>13 DEF Replace, Return, Put
    <3>2. Target(c) \in File /\ file[Target(c)] = m
      BY <2>2, <3>1 DEF ReadIsFresh, TypeOK, JobsFit, Job, Target, Touch
    <3>3. n \notin {Absent, Torn} /\ m \notin {Absent, Torn} /\ n.title = m.title
      <4>1. /\ m \in Content \ {Absent, Torn} /\ job[c].kind \in Touch
            /\ job[c].seen[Target(c)] + 1 \in Nat
        BY <3>1, <3>2 DEF TypeOK, JobsFit, Job, Target, Touch
      <4> QED
        BY <4>1, CountedIsContent DEF Content
    <3>4. /\ Present' = Present
          /\ \A f \in Present : file'[f].title = file[f].title
      <4> HIDE DEF n, m
      <4> QED
        BY <3>1, <3>2, <3>3 DEF Present, TypeOK
    <3>5. /\ \A d \in Client : d # c => /\ pc'[d] = pc[d] /\ job'[d] = job[d]
                                        /\ view'[d] = view[d]
          /\ pc'[c] \in {"idle", "lock"} /\ Inside(c)
      <4>1. TypeOK /\ job[c].kind # "none" /\ \E a : Leave(c, a)
        BY <3>1 DEF JobsFit
      <4> QED
        BY <3>1, <4>1, LeavingKeepsJobs DEF TypeOK, Inside, Critical
    <3>6. /\ ~Saves(c)' /\ ~Rebuilds(c)' /\ ~Saves(c) /\ ~Rebuilds(c)
          /\ \A d \in Client : d # c => /\ Saves(d)' <=> Saves(d)
                                        /\ Rebuilds(d)' <=> Rebuilds(d)
                                        /\ Target(d)' = Target(d)
      BY <3>1, <3>5 DEF Saves, Rebuilds, Target
    <3>7. ~dirty' => ListedOrSaved' /\ LeadsOrRebuilt'
      <4>1. \A f \in Present : Lists(index, f)' <=> Lists(index, f)
        BY <3>1, <3>4 DEF Lists
      <4> QED
        BY <2>2, <3>1, <3>4, <3>6, <4>1
           DEF Agreement, ListedOrSaved, LeadsOrRebuilt
    <3> QED
      BY <1>r, <3>5, <3>6, <3>7, LoneStepsKeepAgreement
  <2> QED
    BY <2>1, <2>2
<1>14. CASE Archive(c)
  <2>1. job[c].kind = "collect"
    BY <1>14 DEF Archive, Step, JobsFit
  <2> QED
    BY <1>14, <1>f, <1>w, <2>1
       DEF Archive, Step, Put, Saves, Rebuilds, Critical
<1>15. CASE NothingToArchive(c)
  BY <1>15, <1>l DEF NothingToArchive, Return, HalfDone
<1>16. CASE StartRebuild(c)
  BY <1>16, <1>r, QuietStepsKeepAgreement DEF StartRebuild, TypeOK
\* A call that is cut short.
<1>k. ASSUME NEW a, Stop(c, a), Fault(c)
      PROVE  Agreement'
  <2>1. /\ UNCHANGED <<file, unlisted>>
        /\ pc'[c] = "idle"
        /\ \A d \in Client : d # c => /\ pc'[d] = pc[d] /\ job'[d] = job[d]
                                      /\ view'[d] = view[d]
        /\ dirty' = (dirty \/ pc[c] \in HalfDone)
        /\ pc[c] # "writeindex" => index' = index
    BY <1>k DEF Stop, Fault, TypeOK
  <2>2. CASE pc[c] = "unguarded" \/ pc[c] \notin HalfDone
    BY <1>r, <2>1, <2>2, QuietStepsKeepAgreement DEF HalfDone
  <2>3. CASE pc[c] \in HalfDone \ {"unguarded"}
    <3>1. Inside(c) /\ dirty' /\ ~Saves(c)' /\ ~Rebuilds(c)'
      BY <2>1, <2>3 DEF HalfDone, Inside, Critical, Saves, Rebuilds
    <3> QED
      BY <1>r, <2>1, <3>1, LoneStepsKeepAgreement
  <2> QED
    BY <2>2, <2>3
<1>17. CASE Crash(c)
  BY <1>17, <1>k DEF Crash
<1>18. CASE Fails(c)
  <2>1. CASE /\ Leave(c, "skipped") /\ UNCHANGED <<index, dirty>>
             /\ pc[c] \in {"read", "replace", "rename"}
    BY <1>18, <1>l, <2>1 DEF Fails, Fault, HalfDone
  <2> QED
    BY <1>18, <1>k, <2>1 DEF Fails
<1> QED
  BY <1>b, <1>1, <1>2, <1>3, <1>4, <1>5, <1>6, <1>7, <1>8, <1>9, <1>10, <1>11,
     <1>12, <1>13, <1>14, <1>15, <1>16, <1>17, <1>18
     DEF StepOf, Proceed
-----------------------------------------------------------------------------
\* The index, too, is what the lock makes of it.
LEMMA IndexInvariant == Spec => []IndexInv
<1>1. Init => IndexInv
  <2> SUFFICES ASSUME Init PROVE IndexInv
    OBVIOUS
  <2>1. StepsFit /\ LinesAreLines
    BY MemoryAssumption DEF Init, StepsFit, LinesAreLines, IndexText
  <2>2. Present = {} /\ Range(index) = {}
    BY DEF Init, Present, Range
  <2>3. Agreement
    BY <2>2
       DEF Init, Agreement, SavedIsThere, UpdateIsFresh, RebuildIsFresh,
           ListedOrSaved, LeadsOrRebuilt, Saves, Rebuilds
  <2> QED
    BY <2>1, <2>3 DEF IndexInv
<1>2. IInv /\ IInv' /\ IndexInv /\ [Next]_vars => IndexInv'
  <2> SUFFICES ASSUME IInv, IInv', IndexInv, [Next]_vars PROVE IndexInv'
    OBVIOUS
  <2>1. ASSUME NEW c \in Client, StepOf(c) PROVE IndexInv'
    BY <2>1, NextKeepsLines, NextKeepsAgreement DEF IInv, IndexInv
  <2>2. CASE UNCHANGED vars
    <3> USE <2>2 DEF vars, diskVars, callVars, saveVars, ghostVars
    <3>1. StepsFit' /\ LinesAreLines'
      BY DEF IndexInv, StepsFit, LinesAreLines
    <3>2. Agreement'
      BY QuietStepsKeepAgreement DEF IndexInv
    <3> QED
      BY <3>1, <3>2 DEF IndexInv
  <2> QED
    BY <2>1, <2>2 DEF Next, StepOf
<1> QED
  BY MemoryInvariant, <1>1, <1>2, PTL DEF Spec

\* When no call runs, the index lists every memory, but for those whose line it
\* gave up to another title or to its limit, and leads nowhere else, unless two
\* calls met inside or one was cut short half-way since the last rebuild
\* (PersistentMemory._update_index and _rebuild_index,
\* MemoryLifecycle._execute_gc_action).
THEOREM IndexIsKept == Spec => []IndexAgrees
<1>1. IndexInv => IndexAgrees
  BY DEF IndexInv, Agreement, ListedOrSaved, LeadsOrRebuilt, Lists, Saves,
         Rebuilds, IndexAgrees, Quiet
<1> QED
  BY IndexInvariant, <1>1, PTL
=============================================================================
