----------------------------- MODULE TraceStore -----------------------------
(***************************************************************************)
(* The trace of a session (agent/trace.py): an append-only file of records, *)
(* with a sidecar file in a subdirectory for each record that is too large, *)
(* written by one TraceWriter at a time.  Writers come and go: a process is *)
(* killed, or the machine goes down with everything in its page cache, and  *)
(* the next run of the session opens the trace again.                       *)
(*                                                                         *)
(* What processes see and what is on disk are kept apart.  A directory      *)
(* entry or a file's bytes reach the disk at some time after they have been  *)
(* written, and at the latest when the directory or the file is synced.     *)
(* The session's own directory is taken to be on disk; the code never syncs  *)
(* its entry, and where it is lost the trace begins anew.                    *)
(***************************************************************************)
EXTENDS Integers, Sequences, SequencesExt

CONSTANTS
  Record,
  Large,      \* the records with a sidecar
  MaxKills,   \* bound on the processes that are killed
  MaxOutages  \* bound on the outages of the machine

ASSUME TraceAssumption ==
  /\ Large \subseteq Record
  /\ {"torn", "cut", "garbled", "trace", "sub", "none"} \cap Record = {}
  /\ MaxKills \in Nat /\ MaxOutages \in Nat

VARIABLES
  pc,       \* where the writer is
  now,      \* the record it writes, or "none"
  lines,    \* the lines of the trace: a record, or what became of some
  synced,   \* how many of them are on disk
  seen,     \* the entries of the session's directory and its subdirectory
  durable,  \* the entries that are on disk
  flushed,  \* the sidecars whose bytes are on disk
  used,     \* records that were begun
  acked,    \* records whose write returned
  merged,   \* records that were appended to a torn line
  degraded, \* a sync has failed: _fsync_warned, or a directory did not open
  orphaned, \* a writer was killed between making an entry and syncing it
  kills, outages

fileVars  == <<lines, synced>>
entryVars == <<seen, durable, flushed>>
ghostVars == <<used, acked, merged, orphaned>>
bounds    == <<kills, outages>>
vars == <<pc, now, fileVars, entryVars, ghostVars, degraded, bounds>>

\* Entries: the trace file, the subdirectory, and a large record for its sidecar.
InSession == {"trace", "sub"}

Init ==
  /\ pc = "down"
  /\ now = "none"
  /\ lines = <<>> /\ synced = 0
  /\ seen = {} /\ durable = {} /\ flushed = {}
  /\ used = {} /\ acked = {} /\ merged = {}
  /\ degraded = FALSE /\ orphaned = FALSE
  /\ kills = 0 /\ outages = 0

Goto(from, to) == pc = from /\ pc' = to

\* A sync either brings to disk what changed says or fails, and the writer goes
\* on with a warning.
Sync(changed, unchanged) ==
  \/ changed /\ UNCHANGED degraded
  \/ degraded' = TRUE /\ unchanged
-----------------------------------------------------------------------------
(***************************************************************************)
(* TraceWriter.__init__                                                    *)
(***************************************************************************)
\* A line that broke off between two characters, or inside one: then the file is
\* not valid UTF-8, and reading it raises.
Broken == {"torn", "cut"}
Unreadable == Contains(lines, "cut")

Open ==
  /\ ~Unreadable
  /\ Goto("down", IF "trace" \in seen THEN "ready" ELSE "created")
  /\ seen' = seen \cup {"trace"}
  /\ UNCHANGED <<now, fileVars, durable, flushed, ghostVars, degraded, bounds>>

\* The loop reads the trace before it writes; if that raises, the run is over.
OpenRaises ==
  /\ pc = "down"
  /\ Unreadable
  /\ UNCHANGED vars

SyncSession ==
  Sync(durable' = durable \cup (seen \cap InSession), UNCHANGED durable)

SyncNewTrace ==
  /\ Goto("created", "ready")
  /\ SyncSession
  /\ UNCHANGED <<now, fileVars, seen, flushed, ghostVars, bounds>>

Close ==
  /\ Goto("ready", "down")
  /\ UNCHANGED <<now, fileVars, entryVars, ghostVars, degraded, bounds>>
-----------------------------------------------------------------------------
(***************************************************************************)
(* write_text_entry and write_tool_result                                  *)
(***************************************************************************)
\* A small record goes straight into the trace; a large one needs the
\* subdirectory, which is made and synced unless it is there.
Begin(r) ==
  /\ r \notin used
  /\ Goto("ready", IF r \notin Large THEN "append"
                   ELSE IF "sub" \in seen THEN "sidecar" ELSE "mkdir")
  /\ now' = r
  /\ used' = used \cup {r}
  /\ UNCHANGED <<fileVars, entryVars, acked, merged, orphaned, degraded, bounds>>

MakeSub ==
  /\ Goto("mkdir", "syncsession")
  /\ seen' = seen \cup {"sub"}
  /\ UNCHANGED <<now, fileVars, durable, flushed, ghostVars, degraded, bounds>>

SyncNewSub ==
  /\ Goto("syncsession", "sidecar")
  /\ SyncSession
  /\ UNCHANGED <<now, fileVars, seen, flushed, ghostVars, bounds>>

\* Mutant of WriteSidecar: the bytes are not synced before the rename.
WriteSidecarUnsynced ==
  /\ Goto("sidecar", "rename")
  /\ UNCHANGED <<now, fileVars, entryVars, ghostVars, degraded, bounds>>

\* _write_sidecar_durable: the temporary file is written and synced.
WriteSidecar ==
  /\ Goto("sidecar", "rename")
  /\ Sync(flushed' = flushed \cup {now}, UNCHANGED flushed)
  /\ UNCHANGED <<now, fileVars, seen, durable, ghostVars, bounds>>

\* The disk is full: the temporary file is removed, the caller gets the error.
SidecarFails ==
  /\ Goto("sidecar", "ready")
  /\ now' = "none"
  /\ UNCHANGED <<fileVars, entryVars, ghostVars, degraded, bounds>>

Rename ==
  /\ Goto("rename", "syncsub")
  /\ seen' = seen \cup {now}
  /\ UNCHANGED <<now, fileVars, durable, flushed, ghostVars, degraded, bounds>>

SyncSub ==
  /\ Goto("syncsub", "append")
  /\ Sync(durable' = durable \cup (seen \cap Large), UNCHANGED durable)
  /\ UNCHANGED <<now, fileVars, seen, flushed, ghostVars, bounds>>

TornTail == lines # <<>> /\ Last(lines) = "torn"

\* The buffer of the file object goes out in pieces.
StartAppend ==
  /\ Goto("append", "flush")
  /\ \E b \in Broken :
       lines' = Append(IF TornTail THEN Front(lines) ELSE lines, b)
  /\ merged' = IF TornTail THEN merged \cup {now} ELSE merged
  /\ UNCHANGED <<now, synced, entryVars, used, acked, orphaned, degraded, bounds>>

\* The line is complete.  Nothing ends a torn line before it is appended to.
Flush ==
  /\ Goto("flush", "fsync")
  /\ lines' = [lines EXCEPT ![Len(lines)] =
                 IF now \in merged THEN "garbled" ELSE now]
  /\ UNCHANGED <<now, synced, entryVars, ghostVars, degraded, bounds>>

\* Mutant of Fsync: the record is on its way, that has to do.
FsyncSkipped ==
  /\ Goto("fsync", "ready")
  /\ acked' = acked \cup {now}
  /\ now' = "none"
  /\ UNCHANGED <<fileVars, entryVars, used, merged, orphaned, degraded, bounds>>

Fsync ==
  /\ Goto("fsync", "ready")
  /\ Sync(synced' = Len(lines), UNCHANGED synced)
  /\ acked' = acked \cup {now}
  /\ now' = "none"
  /\ UNCHANGED <<lines, entryVars, used, merged, orphaned, bounds>>
-----------------------------------------------------------------------------
(***************************************************************************)
(* Faults                                                                  *)
(***************************************************************************)
Kill ==
  /\ pc # "down"
  /\ kills < MaxKills
  /\ kills' = kills + 1
  /\ pc' = "down" /\ now' = "none"
  /\ orphaned' = (orphaned \/ ~(seen \cap InSession \subseteq durable))
  /\ UNCHANGED <<fileVars, entryVars, used, acked, merged, degraded, outages>>

\* What survives: the entries on disk and any of the others, a sidecar only
\* with the subdirectory, and certainly only if its bytes are on disk too; one
\* that comes back cut short counts as gone.
Survivors ==
  {s \in SUBSET seen :
     /\ durable \cap InSession \subseteq s
     /\ "sub" \in s => (durable \cap flushed) \subseteq s
     /\ "sub" \notin s => s \cap Large = {}}

\* ... and of the lines, those on disk and any number of those behind them, of
\* which the last may be torn.
Surviving ==
  LET whole == {SubSeq(lines, 1, n) : n \in synced..Len(lines)}
      short == {Append(SubSeq(lines, 1, n), b) :
                  n \in synced..(Len(lines) - 1), b \in Broken}
  IN whole \cup short

Outage ==
  /\ outages < MaxOutages
  /\ outages' = outages + 1
  /\ pc' = "down" /\ now' = "none"
  /\ \E s \in Survivors :
       /\ seen' = s
       /\ durable' = s
       /\ flushed' = s \cap Large
       /\ IF "trace" \in s THEN lines' \in Surviving ELSE lines' = <<>>
       /\ synced' = Len(lines')
  /\ UNCHANGED <<ghostVars, degraded, kills>>

Next ==
  \/ Open \/ OpenRaises \/ SyncNewTrace \/ Close
  \/ \E r \in Record : Begin(r)
  \/ MakeSub \/ SyncNewSub \/ WriteSidecar \/ SidecarFails \/ Rename \/ SyncSub
  \/ StartAppend \/ Flush \/ Fsync
  \/ Kill \/ Outage

Spec == Init /\ [][Next]_vars
-----------------------------------------------------------------------------
(***************************************************************************)
(* Properties                                                              *)
(***************************************************************************)
TypeOK ==
  /\ pc \in {"down", "created", "ready", "mkdir", "syncsession", "sidecar",
             "rename", "syncsub", "append", "flush", "fsync"}
  /\ now \in Record \cup {"none"}
  /\ lines \in Seq(Record \cup Broken \cup {"garbled"})
  /\ synced \in 0..Len(lines)
  /\ seen \subseteq InSession \cup Large
  /\ durable \subseteq seen
  /\ flushed \subseteq Large
  /\ used \subseteq Record /\ acked \subseteq used /\ merged \subseteq used
  /\ degraded \in BOOLEAN /\ orphaned \in BOOLEAN
  /\ kills \in 0..MaxKills /\ outages \in 0..MaxOutages

\* What TraceWriter.read returns.
Readable == IF Unreadable THEN {} ELSE Range(lines) \cap Record

\* What _resolve_entry_offloads puts back: the sidecar of a record, if it is there.
Resolves(r) == {"sub", r} \subseteq seen

\* A record never refers to a sidecar that is missing or cut short, whatever
\* was killed and however often the power failed (trace.py:3-8).  Excepted are
\* file systems that cannot sync, and an entry that a killed writer left behind
\* unsynced: the next writer finds it and does not sync it either.
RecordsResolve ==
  ~degraded /\ ~orphaned =>
    \A r \in Range(lines) \cap Large : Resolves(r)

\* A record whose write has returned stays in the trace, under the same two
\* exceptions, unless it was appended to a line that a fault had torn.
AckedRecordsStay ==
  ~degraded /\ ~orphaned => acked \subseteq Range(lines) \cup merged

\* "So that the record survives a crash" (trace.py:3-4), for a reader that
\* opens the trace while no write is under way.
AckedRecordsSurvive ==
  ~degraded /\ ~orphaned /\ pc # "flush" => acked \subseteq Readable
=============================================================================
