---------------------------- MODULE MemoryStore ----------------------------
(***************************************************************************)
(* The memories that outlive a session (memory/persistent.py,               *)
(* memory/lifecycle.py, tools/remember_tool.py): one Markdown file per       *)
(* memory, an index MEMORY.md with a line per memory, and a file lock that   *)
(* every client takes for five seconds at most.  Clients are instances of    *)
(* PersistentMemory in threads and processes; each serves one call at a      *)
(* time.                                                                   *)
(*                                                                         *)
(* Modelled as configured by default: one flat directory, no full-text       *)
(* index, links or compression.  A memory is its title, its text (its         *)
(* description and body) and what its front matter counts; what the counts    *)
(* and dates are worth to the garbage collector is left out, it may take      *)
(* anything here.  Titles and descriptions are one line each.  Files are      *)
(* written in place, so a reader may meet one that is torn.                  *)
(***************************************************************************)
EXTENDS Integers, FiniteSets, SequencesExt

CONSTANTS
  Client,
  Title, Text,
  Type,         \* MEMORY_TYPES
  File,
  FileOf(_, _), \* type and slug of the title; titles may share a slug
  Mentions(_, _),  \* the line of a memory has another title in brackets
  MaxIndexLines,   \* MAX_INDEX_LINES
  NoOne,        \* nobody holds the lock
  MaxOps,       \* bound on the calls
  MaxTimeouts,  \* bound on the calls that wait for the lock in vain
  MaxFaults     \* bound on the processes that die and the files that fail

ASSUME MemoryAssumption ==
  /\ \A type \in Type, t \in Title : FileOf(type, t) \in File
  /\ IsFiniteSet(File)
  /\ NoOne \notin Client
  /\ MaxIndexLines \in Nat \ {0}
  /\ MaxOps \in Nat /\ MaxTimeouts \in Nat /\ MaxFaults \in Nat

VARIABLES
  file,      \* what is in a file: a memory, "absent" or "torn"
  archive,   \* the files the collector has moved away, likewise
  index,     \* the lines of MEMORY.md, in order
  lock,      \* who holds the file lock
  pc,        \* where a client's call is
  job,       \* the call
  view,      \* what the call has read
  answer,    \* what the last call returned
  recent,    \* _recent_hashes: calls of the last 30 seconds, by client
  kept,      \* what the last save or removal meant a file to be
  raced,     \* two calls were inside their critical sections together
  dirty,     \* a call was cut short between a file and the index
  mistaken,  \* files whose last save fell to the removal of another memory
  stale,     \* files with a count that was taken from an old one
  unlisted,  \* titles whose line the index gave up
  ops, timeouts, faults

diskVars  == <<file, archive, index>>
callVars  == <<pc, job, view, answer>>
saveVars  == <<kept, mistaken, stale>>
ghostVars == <<saveVars, raced, dirty, unlisted>>
bounds    == <<ops, timeouts, faults>>
vars == <<diskVars, lock, callVars, recent, ghostVars, bounds>>

\* What is counted about a memory: the events that moved its quality_score, and
\* its access_count.
Touch == {"reinforce", "access"}
Words(title, txt) == [title |-> title, text |-> txt]
Memory(title, txt) ==
  [title |-> title, text |-> txt, uses |-> [k \in Touch |-> 0]]
Absent == [title |-> "absent"]
Torn == [title |-> "torn"]
WordsOf(m) == IF m \in {Absent, Torn} THEN m ELSE Words(m.title, m.text)
Present == {f \in File : file[f] # Absent}
\* A line of the index; a torn file has no name in its front matter, its own name
\* is its title.  An empty text is one line that says nothing.
Line(m, f) == [of |-> WordsOf(m), file |-> f]
Blank == [of |-> Absent]
NoJob == [kind |-> "none"]

Init ==
  /\ file = [f \in File |-> Absent]
  /\ archive = [f \in File |-> Absent]
  /\ index = <<>>
  /\ lock = NoOne
  /\ pc = [c \in Client |-> "idle"]
  /\ job = [c \in Client |-> NoJob]
  /\ view = [c \in Client |-> <<>>]
  /\ answer = [c \in Client |-> "none"]
  /\ recent = [c \in Client |-> {}]
  /\ kept = [f \in File |-> Absent]
  /\ raced = FALSE /\ dirty = FALSE
  /\ mistaken = {} /\ stale = {} /\ unlisted = {}
  /\ ops = 0 /\ timeouts = 0 /\ faults = 0

\* The steps between reading shared files to change them and the last change.
Critical == {"truncate", "write", "readindex", "unlink", "scan", "read",
             "replace", "rename", "writeindex"}
Inside(c) == pc[c] \in Critical
\* c enters its critical section.
Enter(c) == raced' = (raced \/ \E d \in Client \ {c} : Inside(d))
-----------------------------------------------------------------------------
(***************************************************************************)
(* Calls                                                                   *)
(***************************************************************************)
Call(c) ==
  /\ pc[c] = "idle"
  /\ ops < MaxOps
  /\ ops' = ops + 1
  /\ UNCHANGED <<diskVars, lock, view, ghostVars, timeouts, faults>>

Wait(c, j) ==
  /\ pc' = [pc EXCEPT ![c] = "lock"]
  /\ job' = [job EXCEPT ![c] = j]
  /\ answer' = [answer EXCEPT ![c] = "none"]

\* is_duplicate: the same was asked for within the last 30 seconds.
IsDuplicate(c, m) == m \in recent[c]

Refuse(c, a) ==
  /\ answer' = [answer EXCEPT ![c] = a]
  /\ UNCHANGED <<pc, job>>

\* add: a duplicate is skipped; what is new is noted, and only then the type of
\* the memory is looked at.
Save(c) ==
  /\ Call(c)
  /\ \E t \in Title, x \in Text :
       \/ /\ IsDuplicate(c, Words(t, x))
          /\ Refuse(c, "skipped")
          /\ UNCHANGED recent
       \/ /\ ~IsDuplicate(c, Words(t, x))
          /\ recent' = [recent EXCEPT ![c] = @ \cup {Words(t, x)}]
          /\ \/ Refuse(c, "error")  \* a type that is none
             \/ \E type \in Type :
                  Wait(c, [kind |-> "save", title |-> t, text |-> x,
                           file |-> FileOf(type, t), rest |-> {}])

\* The counts that a call saw of the memories it found.
Seen(kind, found) ==
  [f \in File |-> IF kind \in Touch /\ f \in found /\ file[f] # Torn
                  THEN file[f].uses[kind] ELSE 0]

\* remove and reinforce look for one memory without the lock and keep what they
\* saw of it.
Lookup(c, kind) ==
  /\ Call(c)
  /\ \E t \in Title :
       LET found == {f \in Present : file[f].title = t}
       IN \/ found = {} /\ Refuse(c, "not_found")
          \/ \E f \in found :
               Wait(c, [kind |-> kind, title |-> t, file |-> f, rest |-> {},
                        seen |-> Seen(kind, {f})])
  /\ UNCHANGED recent

\* recall and the collector look at them all, and go through those that match a
\* query, or that nobody needed for long, one at a time.
LookupMany(c, kind, found) ==
  /\ Call(c)
  /\ \/ found = {} /\ Refuse(c, "ok")
     \/ \E f \in found :
          Wait(c, [kind |-> kind, title |-> file[f].title, file |-> f,
                   rest |-> found \ {f}, seen |-> Seen(kind, found)])
  /\ UNCHANGED recent

Forget(c) == Lookup(c, "forget")
Reinforce(c) == Lookup(c, "reinforce")
Recall(c) == \E found \in SUBSET Present : LookupMany(c, "access", found)
Collect(c) == \E found \in SUBSET Present : LookupMany(c, "collect", found)

\* The window of 30 seconds has passed.
Expire(c) ==
  /\ recent[c] # {}
  /\ pc[c] = "idle"
  /\ recent' = [recent EXCEPT ![c] = {}]
  /\ UNCHANGED <<diskVars, lock, callVars, ghostVars, bounds>>
-----------------------------------------------------------------------------
(***************************************************************************)
(* memory_lock                                                             *)
(***************************************************************************)
FirstStep(kind) ==
  CASE kind = "save" -> "truncate"
    [] kind = "forget" -> "unlink"
    [] kind \in Touch -> "read"
    [] kind = "collect" -> "rename"

\* Mutant of Acquire: a lock that is held is taken all the same.
AcquireHeld(c) ==
  /\ pc[c] = "lock"
  /\ lock' = c
  /\ pc' = [pc EXCEPT ![c] = FirstStep(job[c].kind)]
  /\ Enter(c)
  /\ UNCHANGED <<diskVars, job, view, answer, recent, saveVars, dirty,
                 unlisted, bounds>>

Acquire(c) ==
  /\ pc[c] = "lock"
  /\ lock = NoOne
  /\ lock' = c
  /\ pc' = [pc EXCEPT ![c] = FirstStep(job[c].kind)]
  /\ Enter(c)
  /\ UNCHANGED <<diskVars, job, view, answer, recent, saveVars, dirty,
                 unlisted, bounds>>

\* Five seconds are over: saving and forgetting go on without the lock.
GoOnUnlocked(c) ==
  /\ pc[c] = "lock"
  /\ lock \notin {NoOne, c}
  /\ job[c].kind \in {"save", "forget"}
  /\ timeouts < MaxTimeouts
  /\ timeouts' = timeouts + 1
  /\ pc' = [pc EXCEPT ![c] = FirstStep(job[c].kind)]
  /\ Enter(c)
  /\ UNCHANGED <<diskVars, lock, job, view, answer, recent, saveVars, dirty,
                 unlisted, ops, faults>>

\* A call leaves the memory that it was busy with: it goes on to the next one,
\* or ends.
Leave(c, a) ==
  /\ view' = [view EXCEPT ![c] = <<>>]
  /\ \/ /\ job[c].rest = {}
        /\ pc' = [pc EXCEPT ![c] = "idle"]
        /\ job' = [job EXCEPT ![c] = NoJob]
        /\ answer' = [answer EXCEPT ![c] = a]
     \/ \E f \in job[c].rest :
          /\ pc' = [pc EXCEPT ![c] = "lock"]
          /\ job' = [job EXCEPT ![c].file = f, ![c].rest = @ \ {f}]
          /\ UNCHANGED answer

\* The others give this memory up.
GiveUp(c) ==
  /\ pc[c] = "lock"
  /\ lock \notin {NoOne, c}
  /\ job[c].kind \in Touch \cup {"collect"}
  /\ timeouts < MaxTimeouts
  /\ timeouts' = timeouts + 1
  /\ Leave(c, "skipped")
  /\ UNCHANGED <<diskVars, lock, recent, ghostVars, ops, faults>>

Release(c) == lock' = IF lock = c THEN NoOne ELSE lock

Step(c, from, to) ==
  /\ pc[c] = from
  /\ pc' = [pc EXCEPT ![c] = to]
  /\ UNCHANGED <<job, recent, raced, bounds>>

\* The call is done with this memory and leaves the lock.
Return(c, from, a) ==
  /\ pc[c] = from
  /\ Leave(c, a)
  /\ Release(c)
  /\ UNCHANGED <<recent, raced, bounds>>
-----------------------------------------------------------------------------
(***************************************************************************)
(* What the calls do inside                                                *)
(***************************************************************************)
Target(c) == job[c].file
Put(c, m) == file' = [file EXCEPT ![Target(c)] = m]

\* A save or a removal means the file to be m from now on.
Mean(c, m) ==
  /\ kept' = [kept EXCEPT ![Target(c)] = m]
  /\ mistaken' = mistaken \ {Target(c)}
  /\ stale' = stale \ {Target(c)}

\* Path.write_text empties the file before it writes.
Truncate(c) ==
  /\ Step(c, "truncate", "write")
  /\ Put(c, Torn)
  /\ Mean(c, Torn)
  /\ UNCHANGED <<archive, index, lock, view, answer, dirty, unlisted>>

Saved(c) == Memory(job[c].title, job[c].text)

Write(c) ==
  /\ Step(c, "write", "readindex")
  /\ Put(c, Saved(c))
  /\ Mean(c, Saved(c))
  /\ UNCHANGED <<archive, index, lock, view, answer, dirty, unlisted>>

\* _update_index reads the lines, changes the first that has the title in
\* brackets, whosever it is, or adds one, and writes them all, up to the limit.
Cut(lines) ==
  IF Len(lines) <= MaxIndexLines THEN lines ELSE SubSeq(lines, 1, MaxIndexLines)

Names(line, t) == line # Blank /\ (line.of.title = t \/ Mentions(line.of, t))
FirstNaming(lines, t) == SelectInSeq(lines, LAMBDA l : Names(l, t))

Updated(lines, line) ==
  LET i == FirstNaming(lines, line.of.title)
  IN Cut(IF i = 0 THEN Append(lines, line) ELSE ReplaceAt(lines, i, line))

ReadIndex(c) ==
  /\ Step(c, "readindex", "writeindex")
  /\ view' = [view EXCEPT ![c] = Updated(index, Line(Saved(c), Target(c)))]
  /\ UNCHANGED <<diskVars, lock, answer, saveVars, dirty, unlisted>>

\* The file may hold another memory by now than the one to be forgotten: it goes
\* all the same.
Unlink(c) ==
  /\ Step(c, "unlink", "scan")
  /\ Put(c, Absent)
  /\ \/ /\ kept[Target(c)].title \in {job[c].title, Absent.title, Torn.title}
        /\ Mean(c, Absent)
     \/ /\ kept[Target(c)].title \notin {job[c].title, Absent.title, Torn.title}
        /\ mistaken' = mistaken \cup ({Target(c)} \cap Present)
        /\ UNCHANGED <<kept, stale>>
  /\ UNCHANGED <<archive, index, lock, view, answer, dirty, unlisted>>

\* _rebuild_index reads every file and writes the lines anew, up to the limit.
Rebuilt ==
  LET fs == SetToSeq(Present)
  IN IF Present = {} THEN <<Blank>>
     ELSE Cut([i \in DOMAIN fs |-> Line(file[fs[i]], fs[i])])

Scan(c) ==
  /\ Step(c, "scan", "writeindex")
  /\ view' = [view EXCEPT ![c] = Rebuilt]
  /\ UNCHANGED <<diskVars, lock, answer, saveVars, dirty, unlisted>>

\* A save costs the memory its line whose line it takes, or its own if the index
\* is full; a rebuild lists all that there is room for.
GivenUp(c) ==
  LET t == job[c].title
      i == FirstNaming(index, t)
  IN IF job[c].kind = "save"
     THEN (unlisted \ {t}) \cup
          (IF i # 0 THEN {index[i].of.title} \ {t}
           ELSE IF Len(index) < MaxIndexLines THEN {} ELSE {t})
     ELSE IF Cardinality(Present) <= MaxIndexLines THEN {}
          ELSE {file[f].title : f \in Present}

\* Mutant of WriteIndex: the lock is not given back.
WriteIndexHolding(c) ==
  /\ Step(c, "writeindex", "idle")
  /\ answer' = [answer EXCEPT ![c] = "ok"]
  /\ index' = view[c]
  /\ unlisted' = GivenUp(c)
  /\ dirty' = (dirty /\ job[c].kind = "save")
  /\ UNCHANGED <<file, archive, view, saveVars, lock>>

WriteIndex(c) ==
  /\ Return(c, "writeindex", "ok")
  /\ index' = view[c]
  /\ unlisted' = GivenUp(c)
  /\ dirty' = (dirty /\ job[c].kind = "save")
  /\ UNCHANGED <<file, archive, saveVars>>

\* Mutant of ReadFile: the file is not read again, what the lookup found is
\* written.
ReadStale(c) ==
  /\ Step(c, "read", "replace")
  /\ \E x \in Text : view' = [view EXCEPT ![c] = <<Memory(job[c].title, x)>>]
  /\ UNCHANGED <<diskVars, lock, answer, saveVars, dirty, unlisted>>

\* _update_frontmatter_field: the file is read again, changed, written beside
\* itself and moved into place.  A file that is gone, or has no front matter,
\* stays as it is.
ReadFile(c) ==
  /\ Step(c, "read", "replace")
  /\ file[Target(c)] \notin {Absent, Torn}
  /\ view' = [view EXCEPT ![c] = <<file[Target(c)]>>]
  /\ UNCHANGED <<diskVars, lock, answer, saveVars, dirty, unlisted>>

NothingToTouch(c) ==
  /\ Return(c, "read", "skipped")
  /\ file[Target(c)] \in {Absent, Torn}
  /\ UNCHANGED <<diskVars, saveVars, dirty, unlisted>>

\* The count that is written was made from what the call saw before it had the
\* lock.
Counted(m, k, n) == [m EXCEPT !.uses = [@ EXCEPT ![k] = n]]

Replace(c) ==
  LET k == job[c].kind
      f == Target(c)
      m == view[c][1]
  IN /\ Return(c, "replace", "ok")
     /\ Put(c, Counted(m, k, job[c].seen[f] + 1))
     /\ kept' = IF kept[f] \in {Absent, Torn} THEN kept
                ELSE [kept EXCEPT ![f] = Counted(@, k, @.uses[k] + 1)]
     /\ stale' = IF job[c].seen[f] = m.uses[k] THEN stale ELSE stale \cup {f}
     /\ UNCHANGED <<archive, index, mistaken, dirty, unlisted>>

\* Mutant of Archive: the index is left as it is.
ArchiveOnly(c) ==
  /\ Return(c, "rename", "ok")
  /\ file[Target(c)] # Absent
  /\ archive' = [archive EXCEPT ![Target(c)] = file[Target(c)]]
  /\ Put(c, Absent)
  /\ UNCHANGED <<index, saveVars, dirty, unlisted>>

\* _execute_gc_action: the file is moved over what the archive has of its name.
\* The lock is given back before the index is rebuilt.
Archive(c) ==
  /\ Step(c, "rename", "unguarded")
  /\ file[Target(c)] # Absent
  /\ archive' = [archive EXCEPT ![Target(c)] = file[Target(c)]]
  /\ Put(c, Absent)
  /\ Release(c)
  /\ UNCHANGED <<index, view, answer, saveVars, dirty, unlisted>>

NothingToArchive(c) ==
  /\ Return(c, "rename", "skipped")
  /\ file[Target(c)] = Absent
  /\ UNCHANGED <<diskVars, saveVars, dirty, unlisted>>

StartRebuild(c) ==
  /\ pc[c] = "unguarded"
  /\ pc' = [pc EXCEPT ![c] = "scan"]
  /\ Enter(c)
  /\ UNCHANGED <<diskVars, lock, job, view, answer, recent, saveVars, dirty,
                 unlisted, bounds>>
-----------------------------------------------------------------------------
(***************************************************************************)
(* What goes wrong                                                         *)
(***************************************************************************)
HalfDone == {"write", "readindex", "scan", "writeindex", "unguarded"}

\* A call ends where it is and its lock is free again.  A file that was being
\* written may be left empty.
Stop(c, a) ==
  /\ pc' = [pc EXCEPT ![c] = "idle"]
  /\ job' = [job EXCEPT ![c] = NoJob]
  /\ view' = [view EXCEPT ![c] = <<>>]
  /\ answer' = [answer EXCEPT ![c] = a]
  /\ dirty' = (dirty \/ pc[c] \in HalfDone)
  /\ UNCHANGED index \/ (pc[c] = "writeindex" /\ index' = <<Blank>>)

Fault(c) ==
  /\ faults < MaxFaults
  /\ faults' = faults + 1
  /\ Release(c)
  /\ UNCHANGED <<file, archive, saveVars, raced, unlisted, ops, timeouts>>

\* A process dies; its client starts again.
Crash(c) ==
  /\ pc[c] # "idle"
  /\ Fault(c)
  /\ Stop(c, "none")
  /\ recent' = [recent EXCEPT ![c] = {}]

\* A file operation fails.  Touching and archiving give the memory up; from
\* everything else the exception leaves the call, and memory_lock.
Fails(c) ==
  /\ pc[c] \in Critical
  /\ Fault(c)
  /\ \/ pc[c] \in {"read", "replace", "rename"} /\ Leave(c, "skipped")
                                              /\ UNCHANGED <<index, dirty>>
     \/ pc[c] \notin {"read", "replace", "rename"} /\ Stop(c, "error")
  /\ UNCHANGED recent

Begin(c) == Save(c) \/ Forget(c) \/ Reinforce(c) \/ Recall(c) \/ Collect(c)

Proceed(c) ==
  \/ Acquire(c) \/ GoOnUnlocked(c) \/ GiveUp(c)
  \/ Truncate(c) \/ Write(c) \/ ReadIndex(c) \/ Unlink(c) \/ Scan(c)
  \/ WriteIndex(c) \/ ReadFile(c) \/ NothingToTouch(c) \/ Replace(c)
  \/ Archive(c) \/ NothingToArchive(c) \/ StartRebuild(c)

Next ==
  \E c \in Client :
    Begin(c) \/ Expire(c) \/ Proceed(c) \/ Crash(c) \/ Fails(c)

\* A thread inside a call is scheduled.
Spec == Init /\ [][Next]_vars /\ \A c \in Client : WF_vars(Proceed(c))
-----------------------------------------------------------------------------
(***************************************************************************)
(* Properties                                                              *)
(***************************************************************************)
Content ==
  [title : Title, text : Text, uses : [Touch -> Nat]] \cup {Absent, Torn}

\* A torn file is found under its own name.
Job ==
  [kind : {"none"}]
    \cup [kind : {"save"}, title : Title, text : Text, file : File,
          rest : SUBSET File]
    \cup [kind : Touch \cup {"forget", "collect"},
          title : Title \cup {Absent.title, Torn.title}, file : File,
          rest : SUBSET File, seen : [File -> Nat]]

\* The values the variables may have; what a call has read is a sequence of
\* index lines, or of the one memory it has in hand.
TypeOK ==
  /\ file \in [File -> Content]
  /\ archive \in [File -> Content]
  /\ kept \in [File -> Content]
  /\ lock \in Client \cup {NoOne}
  /\ pc \in [Client -> Critical \cup {"idle", "lock", "unguarded"}]
  /\ job \in [Client -> Job]
  /\ view = [c \in Client |-> view[c]]
  /\ \A c \in Client : pc[c] = "replace" => view[c][1] \in Content \ {Absent, Torn}
  /\ raced \in BOOLEAN
  /\ timeouts \in Nat

Quiet == \A c \in Client : pc[c] = "idle"

\* When no call is running, every memory is listed in the index by its title,
\* and no line leads to a file that is gone.  Excepted are a call that was cut
\* short half-way, until the index is rebuilt, and two calls that were inside at
\* the same time; and, until its next save or a rebuild, a memory whose line
\* another save took for its own because it names that one's title too, or for
\* which the index had no room.
IndexAgrees ==
  Quiet /\ ~raced /\ ~dirty =>
    /\ \A f \in Present :
         \/ \E l \in Range(index) : l.of.title = file[f].title
         \/ file[f].title \in unlisted
    /\ \A l \in Range(index) : l = Blank \/ l.file \in Present

\* m is what the last save of f and the touches since have made of it, or, once a
\* count was made from an old one, all of it but the counts.
Stands(m, f) ==
  \/ m = kept[f]
  \/ f \in stale /\ WordsOf(m) = WordsOf(kept[f])

\* A memory stays what its last save made it, with every access and
\* reinforcement since counted once, and one that was forgotten stays away, as
\* long as calls were not inside together: whoever had found the file before
\* brings nothing back and loses nothing, except that the collector moves a
\* memory into the archive; that a removal that waited takes whatever is in the
\* file by then; and that counts are lost when one was made from an old one.
LastSaveStands ==
  ~raced => \A f \in File :
    \/ Stands(file[f], f)
    \/ file[f] = Absent /\ (Stands(archive[f], f) \/ f \in mistaken)

\* Only a collector that rebuilds the index after giving the lock back, or a
\* call that waited in vain, brings two calls together.
TogetherOnlyUnlocked ==
  \A c, d \in Client :
    (c # d /\ Inside(c) /\ Inside(d)) =>
      \E e \in {c, d} : lock # e /\ (job[e].kind = "collect" \/ timeouts > 0)

\* A call ends, however many others want the lock.
CallsEnd == \A c \in Client : (pc[c] = "lock") ~> (pc[c] = "idle")
=============================================================================
