-------------------------- MODULE TraceStore_proofs --------------------------
(***************************************************************************)
(* What the trace of a session keeps, for every set of records, every       *)
(* number of killed writers and of outages: no record without its sidecar,  *)
(* and every record whose write has returned, unless it was appended to a   *)
(* torn line, a sync failed, or a killed writer left an entry unsynced.     *)
(***************************************************************************)
EXTENDS TraceStore, SequenceTheorems, TLAPS

(***************************************************************************)
(* The inductive invariant                                                 *)
(***************************************************************************)
\* Neither of the exceptions: no sync failed, no entry was left behind.
Sound == ~degraded /\ ~orphaned

\* The sidecar of r and the subdirectory it is in survive an outage.
Safe(r) == {"sub", r} \subseteq durable /\ r \in flushed

\* What the writer has in hand at each of its steps.
InHand ==
  /\ now \in used \cup {"none"}
  /\ pc \in {"mkdir", "syncsession", "sidecar", "rename", "syncsub"} =>
       now \in Large
  /\ pc \in {"append", "flush", "fsync"} => now \in Record
  /\ pc # "down" => "trace" \in seen
  /\ pc \in {"syncsession", "sidecar", "rename", "syncsub"} => "sub" \in seen
  /\ pc = "flush" => lines # <<>> /\ lines[Len(lines)] \in Broken
  /\ pc = "fsync" =>
       lines # <<>> /\ (lines[Len(lines)] = now \/ now \in merged)

\* The session's own entries are on disk, except while the step that makes one
\* waits for its sync.
EntriesSynced ==
  Sound /\ pc \notin {"created", "syncsession"} =>
    seen \cap InSession \subseteq durable

\* A sidecar is on disk before the record that refers to it is begun.
SidecarFirst ==
  Sound =>
    /\ pc \in {"rename", "syncsub"} => now \in flushed
    /\ pc = "syncsub" => now \in seen
    /\ pc \in {"append", "flush", "fsync"} /\ now \in Large => Safe(now)

LargeLinesSafe ==
  Sound => \A i \in 1..Len(lines) : lines[i] \in Large => Safe(lines[i])

\* A record that was acknowledged is among the lines on disk.
AckedSynced ==
  Sound =>
    /\ acked # {} => "trace" \in durable
    /\ \A r \in acked \ merged : \E i \in 1..synced : lines[i] = r

IInv ==
  /\ TypeOK
  /\ InHand
  /\ EntriesSynced
  /\ SidecarFirst
  /\ LargeLinesSafe
  /\ AckedSynced
-----------------------------------------------------------------------------
(***************************************************************************)
(* The lines of the trace                                                  *)
(***************************************************************************)
Line == Record \cup Broken \cup {"garbled"}

\* A line begins behind the others, or in the place of a torn one.
LEMMA StartAppendLines ==
  ASSUME TypeOK, InHand, StartAppend
  PROVE  /\ lines' \in Seq(Line) /\ lines' # <<>> /\ Len(lines') >= Len(lines)
         /\ lines'[Len(lines')] \in Broken
         /\ \A i \in 1..(Len(lines') - 1) :
              i \in 1..Len(lines) /\ lines'[i] = lines[i]
         /\ \A i \in 1..Len(lines) :
              i \in 1..(Len(lines') - 1) \/ lines[i] = "torn"
<1> DEFINE kept == IF TornTail THEN Front(lines) ELSE lines
<1>1. PICK b \in Broken : lines' = Append(kept, b)
  BY DEF StartAppend
<1>2. lines \in Seq(Line) /\ b \in Line
  BY DEF TypeOK, Line
<1>3. CASE ~TornTail
  BY <1>1, <1>2, <1>3
<1>4. CASE TornTail
  <2>1. lines # <<>> /\ lines[Len(lines)] = "torn"
    BY <1>4 DEF TornTail, Last
  <2>2. Len(lines) \in Nat \ {0}
    BY <1>2, <2>1
  <2>3. Front(lines) = SubSeq(lines, 1, Len(lines) - 1)
    BY DEF Front
  <2>4. /\ Front(lines) \in Seq(Line)
        /\ Len(Front(lines)) = Len(lines) - 1
        /\ \A i \in 1..(Len(lines) - 1) : Front(lines)[i] = lines[i]
    <3> DEFINE n == Len(lines) - 1
    <3>1. n \in 0..Len(lines) /\ Len(lines) \in Nat
      BY <2>2
    <3> HIDE DEF n
    <3>2. /\ SubSeq(lines, 1, n) \in Seq(Line) /\ Len(SubSeq(lines, 1, n)) = n
          /\ \A i \in 1..n : SubSeq(lines, 1, n)[i] = lines[i]
      BY <1>2, <3>1
    <3> QED
      BY <2>3, <3>2 DEF n
  <2>5. lines' = Append(Front(lines), b)
    BY <1>1, <1>4
  <2> HIDE DEF kept
  <2>6. Len(lines') = Len(lines) /\ lines' \in Seq(Line) /\ lines' # <<>>
    BY <1>2, <2>2, <2>4, <2>5
  <2>7. lines'[Len(lines')] = b
    BY <1>2, <2>2, <2>4, <2>5
  <2>8. \A i \in 1..(Len(lines) - 1) : lines'[i] = lines[i]
    BY <1>2, <2>2, <2>4, <2>5
  <2> QED
    BY <2>1, <2>2, <2>6, <2>7, <2>8
<1> QED
  BY <1>3, <1>4

\* The line that was begun becomes the record, or part of a garbled line.
LEMMA FlushLines ==
  ASSUME TypeOK, InHand, Flush
  PROVE  /\ lines' \in Seq(Line) /\ Len(lines') = Len(lines) /\ lines # <<>>
         /\ lines'[Len(lines)] = IF now \in merged THEN "garbled" ELSE now
         /\ \A i \in 1..(Len(lines) - 1) : lines'[i] = lines[i]
         /\ lines[Len(lines)] \in Broken
         /\ now \in Record
<1>1. lines \in Seq(Line) /\ lines # <<>> /\ lines[Len(lines)] \in Broken
  BY DEF TypeOK, InHand, Flush, Goto, Line
<1>2. now \in Record
  BY DEF InHand, Flush, Goto
<1>3. Len(lines) \in 1..Len(lines)
  BY <1>1
<1> DEFINE line == IF now \in merged THEN "garbled" ELSE now
<1>4. line \in Line
  BY <1>2 DEF Line
<1>5. lines' = [lines EXCEPT ![Len(lines)] = line]
  BY DEF Flush
<1> HIDE DEF line
<1>6. /\ lines' \in Seq(Line) /\ Len(lines') = Len(lines)
      /\ lines'[Len(lines)] = line
      /\ \A i \in 1..(Len(lines) - 1) : lines'[i] = lines[i]
  BY <1>1, <1>3, <1>4, <1>5
<1> QED
  BY <1>1, <1>2, <1>6 DEF line

\* What an outage leaves are lines that were there, and perhaps a broken one;
\* the lines on disk are among them if the file is.
LEMMA OutageKeeps ==
  ASSUME TypeOK, Outage
  PROVE  /\ lines' \in Seq(Line) /\ synced' = Len(lines')
         /\ \A i \in 1..Len(lines') :
              \/ lines'[i] \in Broken
              \/ i \in 1..Len(lines) /\ lines'[i] = lines[i]
         /\ "trace" \in durable =>
              /\ Len(lines') >= synced
              /\ \A i \in 1..synced : lines'[i] = lines[i]
         /\ seen' \subseteq seen
         /\ durable' = seen' /\ flushed' = seen' \cap Large
         /\ durable \cap InSession \subseteq seen'
         /\ "sub" \in durable => durable \cap flushed \subseteq seen'
<1>1. PICK s \in Survivors :
        /\ seen' = s /\ durable' = s /\ flushed' = s \cap Large
        /\ IF "trace" \in s THEN lines' \in Surviving ELSE lines' = <<>>
  BY Zenon DEF Outage
<1>2. /\ s \subseteq seen /\ durable \cap InSession \subseteq s
      /\ "sub" \in s => durable \cap flushed \subseteq s
  BY <1>1 DEF Survivors
<1>3. "trace" \in durable => "trace" \in s
  BY <1>2 DEF InSession
<1>4. "sub" \in durable => "sub" \in s
  BY <1>2 DEF InSession
<1>5. lines \in Seq(Line) /\ Len(lines) \in Nat /\ synced \in 0..Len(lines)
  BY DEF TypeOK, Line
<1>6. /\ lines' \in Seq(Line)
      /\ \A i \in 1..Len(lines') :
           \/ lines'[i] \in Broken
           \/ i \in 1..Len(lines) /\ lines'[i] = lines[i]
      /\ "trace" \in s =>
           /\ Len(lines') >= synced
           /\ \A i \in 1..synced : lines'[i] = lines[i]
  <2>1. CASE "trace" \notin s
    <3>1. lines' = <<>>
      BY <1>1, <2>1
    <3> QED
      BY <2>1, <3>1
  <2>2. ASSUME "trace" \in s,
               NEW n \in synced..Len(lines), lines' = SubSeq(lines, 1, n)
        PROVE  /\ lines' \in Seq(Line) /\ Len(lines') = n
               /\ \A i \in 1..n : lines'[i] = lines[i]
    BY <1>5, <2>2
  <2>3. ASSUME "trace" \in s, NEW n \in synced..(Len(lines) - 1),
               NEW b \in Broken, lines' = Append(SubSeq(lines, 1, n), b)
        PROVE  /\ lines' \in Seq(Line) /\ Len(lines') = n + 1
               /\ lines'[n + 1] \in Broken
               /\ \A i \in 1..n : lines'[i] = lines[i]
    <3> DEFINE k == SubSeq(lines, 1, n)
    <3>1. k \in Seq(Line) /\ Len(k) = n /\ \A i \in 1..n : k[i] = lines[i]
      BY <1>5
    <3>2. b \in Line /\ lines' = Append(k, b)
      BY <2>3 DEF Line
    <3> HIDE DEF k
    <3> QED
      BY <1>5, <3>1, <3>2
  <2>4. CASE "trace" \in s
    <3>1. \/ \E n \in synced..Len(lines) : lines' = SubSeq(lines, 1, n)
          \/ \E n \in synced..(Len(lines) - 1), b \in Broken :
               lines' = Append(SubSeq(lines, 1, n), b)
      BY <1>1, <2>4 DEF Surviving
    <3>2. CASE \E n \in synced..Len(lines) : lines' = SubSeq(lines, 1, n)
      <4>1. PICK n \in synced..Len(lines) : lines' = SubSeq(lines, 1, n)
        BY <3>2
      <4>2. /\ lines' \in Seq(Line) /\ Len(lines') = n
            /\ \A i \in 1..n : lines'[i] = lines[i]
        BY <2>2, <2>4, <4>1
      <4> QED
        BY <1>5, <4>2
    <3>3. CASE \E n \in synced..(Len(lines) - 1), b \in Broken :
                 lines' = Append(SubSeq(lines, 1, n), b)
      <4>1. PICK n \in synced..(Len(lines) - 1), b \in Broken :
              lines' = Append(SubSeq(lines, 1, n), b)
        BY <3>3
      <4>2. /\ lines' \in Seq(Line) /\ Len(lines') = n + 1
            /\ lines'[n + 1] \in Broken
            /\ \A i \in 1..n : lines'[i] = lines[i]
        BY <2>3, <2>4, <4>1
      <4>3. \A i \in 1..Len(lines') : i \in 1..n \/ i = n + 1
        BY <1>5, <4>2
      <4> QED
        BY <1>5, <4>2, <4>3
    <3> QED
      BY <3>1, <3>2, <3>3
  <2> QED
    BY <2>1, <2>4
<1> QED
  BY <1>1, <1>2, <1>3, <1>4, <1>6 DEF Outage
-----------------------------------------------------------------------------
(***************************************************************************)
(* One lemma for each part of the invariant                                *)
(***************************************************************************)
LEMMA InitIInv == Init => IInv
<1> SUFFICES ASSUME Init PROVE IInv
  OBVIOUS
<1>1. TypeOK
  <2>1. lines \in Seq(Record \cup Broken \cup {"garbled"}) /\ synced \in 0..Len(lines)
    BY DEF Init
  <2>2. kills \in 0..MaxKills /\ outages \in 0..MaxOutages
    BY TraceAssumption DEF Init
  <2> QED
    BY <2>1, <2>2 DEF Init, TypeOK
<1>2. InHand /\ EntriesSynced /\ SidecarFirst
  BY DEF Init, InHand, EntriesSynced, SidecarFirst
<1>3. LargeLinesSafe /\ AckedSynced
  BY DEF Init, LargeLinesSafe, AckedSynced
<1> QED
  BY <1>1, <1>2, <1>3 DEF IInv

\* What happened to a sync or to an entry is not forgotten.
LEMMA OnceUnsound == [Next]_vars /\ Sound' /\ TypeOK => Sound
<1> SUFFICES ASSUME [Next]_vars, Sound', TypeOK PROVE Sound
  OBVIOUS
<1> USE DEF Sound, TypeOK, vars, ghostVars, Sync
<1>1. CASE Open \/ OpenRaises \/ Close \/ MakeSub \/ Rename
  BY <1>1, Zenon DEF Open, OpenRaises, Close, MakeSub, Rename
<1>2. CASE SyncNewTrace \/ SyncNewSub \/ WriteSidecar \/ SyncSub \/ Fsync
  BY <1>2, Zenon DEF SyncNewTrace, SyncNewSub, SyncSession, WriteSidecar,
                     SyncSub, Fsync
<1>3. CASE \E r \in Record : Begin(r)
  <2>1. degraded' = degraded /\ orphaned' = orphaned
    BY <1>3 DEF Begin
  <2> QED
    BY <2>1
<1>4. CASE SidecarFails \/ StartAppend \/ Flush
  BY <1>4, Zenon DEF SidecarFails, StartAppend, Flush
<1>5. CASE Kill \/ Outage \/ UNCHANGED vars
  BY <1>5, Zenon DEF Kill, Outage
<1> QED
  BY <1>1, <1>2, <1>3, <1>4, <1>5, Zenon DEF Next

LEMMA NextKeepsType == IInv /\ [Next]_vars => TypeOK'
<1> SUFFICES ASSUME TypeOK, InHand, [Next]_vars PROVE TypeOK'
  BY DEF IInv
<1> USE TraceAssumption
    DEF TypeOK, InHand, vars, fileVars, entryVars, ghostVars, bounds, Goto,
        Sync, InSession
<1>1. CASE Open \/ OpenRaises \/ Close
  BY <1>1 DEF Open, OpenRaises, Close
<1>2. CASE SyncNewTrace \/ SyncNewSub
  BY <1>2 DEF SyncNewTrace, SyncNewSub, SyncSession
<1>3. CASE \E r \in Record : Begin(r)
  BY <1>3 DEF Begin
<1>4. CASE MakeSub \/ Rename
  BY <1>4 DEF MakeSub, Rename
<1>5. CASE WriteSidecar \/ SyncSub \/ SidecarFails
  BY <1>5 DEF WriteSidecar, SyncSub, SidecarFails
<1>6. CASE StartAppend
  <2>1. lines' \in Seq(Line) /\ Len(lines') >= Len(lines)
    BY <1>6, StartAppendLines
  <2>2. now \in Record
    BY <1>6 DEF StartAppend
  <2>3. merged' = merged \/ merged' = merged \cup {now}
    BY <1>6 DEF StartAppend
  <2>4. synced' \in 0..Len(lines')
    BY <1>6, <2>1 DEF StartAppend
  <2>5. now \in used
    BY <1>6, <2>2
  <2> QED
    BY <1>6, <2>1, <2>2, <2>3, <2>4, <2>5 DEF StartAppend, Line
<1>7. CASE Flush
  <2>1. lines' \in Seq(Line) /\ Len(lines') = Len(lines)
    BY <1>7, FlushLines
  <2> QED
    BY <1>7, <2>1 DEF Flush, Line
<1>8. CASE Fsync
  <2>1. now \in Record /\ now \in used
    BY <1>8 DEF Fsync
  <2>2. synced' \in 0..Len(lines')
    BY <1>8 DEF Fsync
  <2>3. degraded' \in BOOLEAN
    BY <1>8 DEF Fsync
  <2> QED
    BY <1>8, <2>1, <2>2, <2>3 DEF Fsync
<1>9. CASE Kill
  BY <1>9 DEF Kill
<1>10. CASE Outage
  <2>1. /\ lines' \in Seq(Line) /\ synced' = Len(lines')
        /\ seen' \subseteq seen
        /\ durable' = seen' /\ flushed' = seen' \cap Large
    BY <1>10, OutageKeeps
  <2> QED
    BY <1>10, <2>1 DEF Outage, Line
<1> QED
  BY <1>1, <1>2, <1>3, <1>4, <1>5, <1>6, <1>7, <1>8, <1>9, <1>10 DEF Next

LEMMA NextKeepsInHand == IInv /\ [Next]_vars => InHand'
<1> SUFFICES ASSUME TypeOK, InHand, [Next]_vars PROVE InHand'
  BY DEF IInv
<1> USE DEF InHand, vars, fileVars, entryVars, ghostVars, bounds, Goto
<1>1. CASE Open \/ OpenRaises \/ Close
  BY <1>1 DEF Open, OpenRaises, Close
<1>2. CASE SyncNewTrace \/ SyncNewSub
  BY <1>2 DEF SyncNewTrace, SyncNewSub
<1>3. CASE \E r \in Record : Begin(r)
  BY <1>3 DEF Begin
<1>4. CASE MakeSub \/ Rename
  BY <1>4 DEF MakeSub, Rename
<1>5. CASE WriteSidecar \/ SyncSub \/ SidecarFails
  BY <1>5, TraceAssumption DEF WriteSidecar, SyncSub, SidecarFails
<1>6. CASE StartAppend
  BY <1>6, StartAppendLines DEF StartAppend
<1>7. CASE Flush
  <2>1. /\ Len(lines') = Len(lines) /\ lines' # <<>>
        /\ lines'[Len(lines)] = IF now \in merged THEN "garbled" ELSE now
    <3>1. lines \in Seq(Line) /\ lines' \in Seq(Line) /\ Len(lines') = Len(lines)
          /\ lines # <<>>
      BY <1>7, FlushLines DEF TypeOK, Line
    <3> QED
      BY <1>7, <3>1, FlushLines
  <2> QED
    BY <1>7, <2>1 DEF Flush
<1>8. CASE Fsync
  BY <1>8 DEF Fsync
<1>9. CASE Kill \/ Outage
  BY <1>9 DEF Kill, Outage
<1> QED
  BY <1>1, <1>2, <1>3, <1>4, <1>5, <1>6, <1>7, <1>8, <1>9 DEF Next

\* The step that makes an entry of the session is followed by the one that syncs
\* it; a writer that is killed between them leaves the entry orphaned.
LEMMA NextKeepsEntries == IInv /\ [Next]_vars => EntriesSynced'
<1> SUFFICES ASSUME IInv, [Next]_vars,
                    Sound', pc' \notin {"created", "syncsession"}
             PROVE  (seen \cap InSession \subseteq durable)'
  BY DEF EntriesSynced
<1>1. Sound /\ TypeOK
  BY OnceUnsound DEF IInv
<1> USE <1>1 DEF IInv, EntriesSynced, InSession, Sound, vars, entryVars, Goto,
                 Sync
<1>2. CASE Open \/ OpenRaises \/ Close
  BY <1>2 DEF Open, OpenRaises, Close
<1>3. CASE SyncNewTrace \/ SyncNewSub
  BY <1>3 DEF SyncNewTrace, SyncNewSub, SyncSession
<1>4. CASE \E r \in Record : Begin(r)
  BY <1>4 DEF Begin
<1>5. CASE MakeSub
  BY <1>5 DEF MakeSub
<1>6. CASE Rename
  BY <1>6, TraceAssumption DEF Rename, InHand
<1>7. CASE WriteSidecar \/ SyncSub \/ SidecarFails
  BY <1>7 DEF WriteSidecar, SyncSub, SidecarFails
<1>8. CASE StartAppend \/ Flush \/ Fsync
  BY <1>8 DEF StartAppend, Flush, Fsync
<1>9. CASE Kill
  BY <1>9 DEF Kill
<1>10. CASE Outage
  BY <1>10, OutageKeeps
<1> QED
  BY <1>2, <1>3, <1>4, <1>5, <1>6, <1>7, <1>8, <1>9, <1>10 DEF Next

\* The bytes, the entry and then the entry of the subdirectory are on disk
\* before the line is begun.
LEMMA NextKeepsSidecar == IInv /\ [Next]_vars => SidecarFirst'
<1> SUFFICES ASSUME IInv, [Next]_vars, Sound'
             PROVE  /\ pc' \in {"rename", "syncsub"} => now' \in flushed'
                    /\ pc' = "syncsub" => now' \in seen'
                    /\ pc' \in {"append", "flush", "fsync"} /\ now' \in Large =>
                         Safe(now)'
  BY DEF SidecarFirst
<1>1. Sound /\ TypeOK /\ InHand
  BY OnceUnsound DEF IInv
<1> USE <1>1 DEF IInv, SidecarFirst, Safe, Sound, vars, fileVars, entryVars,
                 Goto, Sync
<1>2. CASE Open \/ OpenRaises \/ Close
  BY <1>2 DEF Open, OpenRaises, Close
<1>3. CASE SyncNewTrace \/ SyncNewSub
  BY <1>3 DEF SyncNewTrace, SyncNewSub
<1>4. CASE \E r \in Record : Begin(r)
  BY <1>4 DEF Begin
<1>5. CASE MakeSub \/ SidecarFails
  BY <1>5 DEF MakeSub, SidecarFails
<1>6. CASE WriteSidecar
  BY <1>6 DEF WriteSidecar
<1>7. CASE Rename
  BY <1>7 DEF Rename
<1>8. CASE SyncSub
  <2>1. now \in flushed /\ now \in seen /\ now \in Large
    BY <1>8 DEF SyncSub, InHand
  <2>2. "sub" \in seen
    BY <1>8 DEF SyncSub, InHand
  <2>3. "sub" \in durable
    BY <1>8, <2>2 DEF SyncSub, EntriesSynced, InSession
  <2>4. durable' = durable \cup (seen \cap Large) /\ flushed' = flushed
    BY <1>8 DEF SyncSub
  <2>5. now' = now /\ pc' = "append"
    BY <1>8 DEF SyncSub
  <2> QED
    BY <2>1, <2>3, <2>4, <2>5
<1>9. CASE StartAppend \/ Flush
  BY <1>9 DEF StartAppend, Flush
<1>10. CASE Fsync
  BY <1>10 DEF Fsync
<1>11. CASE Kill \/ Outage
  BY <1>11 DEF Kill, Outage
<1> QED
  BY <1>2, <1>3, <1>4, <1>5, <1>6, <1>7, <1>8, <1>9, <1>10, <1>11 DEF Next

\* No step that leaves the lines alone takes a sidecar from the disk.
LEMMA NextKeepsLargeLines == IInv /\ [Next]_vars => LargeLinesSafe'
<1> SUFFICES ASSUME IInv, [Next]_vars, Sound',
                    NEW i \in 1..Len(lines'), lines'[i] \in Large
             PROVE  Safe(lines[i])'
  BY DEF LargeLinesSafe
<1>1. Sound /\ TypeOK /\ InHand /\ lines'[i] \notin Broken \cup {"garbled"}
  BY OnceUnsound, TraceAssumption DEF IInv, Broken
<1>2. i \in 1..Len(lines) /\ lines'[i] = lines[i] => Safe(lines'[i])
  BY <1>1 DEF IInv, LargeLinesSafe
<1>3. ASSUME lines' = lines, durable \subseteq durable', flushed \subseteq flushed'
      PROVE  Safe(lines[i])'
  BY <1>2, <1>3 DEF Safe
<1> USE DEF Goto, Sync, fileVars, entryVars
<1>4. CASE Open \/ OpenRaises \/ Close \/ MakeSub \/ Rename
  BY <1>3, <1>4 DEF Open, OpenRaises, Close, MakeSub, Rename, vars
<1>5. CASE SyncNewTrace \/ SyncNewSub
  BY <1>3, <1>5 DEF SyncNewTrace, SyncNewSub, SyncSession
<1>6. CASE \E r \in Record : Begin(r)
  BY <1>3, <1>6 DEF Begin
<1>7. CASE WriteSidecar \/ SyncSub \/ SidecarFails \/ Fsync
  BY <1>3, <1>7 DEF WriteSidecar, SyncSub, SidecarFails, Fsync
<1>8. CASE StartAppend
  <2>1. i \in 1..Len(lines) /\ lines'[i] = lines[i]
    <3>1. lines' \in Seq(Line) /\ lines'[Len(lines')] \in Broken
      BY <1>1, <1>8, StartAppendLines
    <3>2. i \in 1..(Len(lines') - 1)
      BY <1>1, <3>1
    <3> QED
      BY <1>1, <1>8, <3>2, StartAppendLines
  <2>2. durable' = durable /\ flushed' = flushed
    BY <1>8 DEF StartAppend
  <2> QED
    BY <1>2, <2>1, <2>2 DEF Safe
<1>9. CASE Flush
  <2>1. durable' = durable /\ flushed' = flushed
    BY <1>9 DEF Flush
  <2>2. Len(lines') = Len(lines) /\ lines \in Seq(Line)
    BY <1>1, <1>9, FlushLines DEF TypeOK, Line
  <2>3. CASE i = Len(lines)
    <3>1. lines'[i] = now
      BY <1>1, <1>9, <2>3, FlushLines
    <3>2. pc = "flush" /\ now \in Large
      BY <1>9, <3>1 DEF Flush
    <3>3. Safe(now)
      BY <1>1, <3>2 DEF IInv, SidecarFirst
    <3> QED
      BY <2>1, <3>1, <3>3 DEF Safe
  <2>4. CASE i # Len(lines)
    <3>1. i \in 1..(Len(lines) - 1)
      BY <2>2, <2>4
    <3>2. i \in 1..Len(lines) /\ lines'[i] = lines[i]
      BY <1>1, <1>9, <2>2, <3>1, FlushLines
    <3> QED
      BY <1>2, <2>1, <3>2 DEF Safe
  <2> QED
    BY <2>3, <2>4
<1>10. CASE Kill
  BY <1>3, <1>10 DEF Kill
<1>11. CASE Outage
  <2>1. i \in 1..Len(lines) /\ lines'[i] = lines[i]
    BY <1>1, <1>11, OutageKeeps
  <2>2. Safe(lines'[i])
    BY <1>2, <2>1
  <2>3. "sub" \in seen' /\ lines'[i] \in seen'
    BY <1>1, <1>11, <2>2, OutageKeeps DEF Safe, InSession
  <2> QED
    BY <1>1, <1>11, <2>3, OutageKeeps DEF Safe
<1>12. CASE UNCHANGED vars
  BY <1>3, <1>12 DEF vars
<1> QED
  BY <1>4, <1>5, <1>6, <1>7, <1>8, <1>9, <1>10, <1>11, <1>12 DEF Next

\* Lines on disk are not rewritten: the only ones to be replaced are broken.
LEMMA NextKeepsAcked == IInv /\ [Next]_vars => AckedSynced'
<1> SUFFICES ASSUME IInv, [Next]_vars, Sound'
             PROVE  /\ acked' # {} => "trace" \in durable'
                    /\ \A r \in acked' \ merged' :
                         \E i \in 1..synced' : lines'[i] = r
  BY DEF AckedSynced
<1>1. Sound /\ TypeOK /\ InHand
  BY OnceUnsound DEF IInv
<1>2. /\ acked # {} => "trace" \in durable
      /\ \A r \in acked \ merged : \E i \in 1..synced : lines[i] = r
  BY <1>1 DEF IInv, AckedSynced
<1>3. synced \in 0..Len(lines) /\ Len(lines) \in Nat
  BY <1>1 DEF TypeOK
<1>4. ASSUME lines' = lines, synced' = synced, durable \subseteq durable',
             acked' = acked, merged' = merged
      PROVE  /\ acked' # {} => "trace" \in durable'
             /\ \A r \in acked' \ merged' :
                  \E i \in 1..synced' : lines'[i] = r
  BY <1>2, <1>4
<1>5. ASSUME acked' = acked, durable' = durable, synced' = synced,
             merged \subseteq merged',
             \A i \in 1..synced : lines[i] \in Broken \/ lines'[i] = lines[i]
      PROVE  /\ acked' # {} => "trace" \in durable'
             /\ \A r \in acked' \ merged' :
                  \E i \in 1..synced' : lines'[i] = r
  <2>1. SUFFICES ASSUME NEW r \in acked \ merged
                 PROVE  \E i \in 1..synced : lines'[i] = r
    BY <1>2, <1>5
  <2>2. r \notin Broken
    BY <1>1, TraceAssumption DEF TypeOK, Broken
  <2> QED
    BY <1>2, <1>5, <2>2
<1> USE DEF Goto, Sync, fileVars, entryVars, ghostVars
<1>6. CASE Open \/ OpenRaises \/ Close \/ MakeSub \/ Rename
  BY <1>4, <1>6 DEF Open, OpenRaises, Close, MakeSub, Rename, vars
<1>7. CASE SyncNewTrace \/ SyncNewSub
  BY <1>4, <1>7 DEF SyncNewTrace, SyncNewSub, SyncSession
<1>8. CASE \E r \in Record : Begin(r)
  BY <1>4, <1>8 DEF Begin
<1>9. CASE WriteSidecar \/ SyncSub \/ SidecarFails
  BY <1>4, <1>9 DEF WriteSidecar, SyncSub, SidecarFails
<1>10. CASE StartAppend
  <2>1. /\ acked' = acked /\ durable' = durable /\ synced' = synced
        /\ merged \subseteq merged'
    BY <1>10 DEF StartAppend
  <2>2. \A i \in 1..Len(lines) : lines[i] \in Broken \/ lines'[i] = lines[i]
    BY <1>1, <1>10, StartAppendLines DEF Broken
  <2> QED
    BY <1>3, <1>5, <2>1, <2>2
<1>11. CASE Flush
  <2>1. /\ acked' = acked /\ durable' = durable /\ synced' = synced
        /\ merged \subseteq merged'
    BY <1>11 DEF Flush
  <2>2. \A i \in 1..Len(lines) : lines[i] \in Broken \/ lines'[i] = lines[i]
    <3>1. \A i \in 1..Len(lines) : i = Len(lines) \/ i \in 1..(Len(lines) - 1)
      BY <1>3
    <3> QED
      BY <1>1, <1>11, <3>1, FlushLines
  <2> QED
    BY <1>3, <1>5, <2>1, <2>2
<1>12. CASE Fsync
  <2>1. /\ synced' = Len(lines) /\ lines' = lines /\ durable' = durable
        /\ merged' = merged /\ acked' = acked \cup {now}
    BY <1>12 DEF Fsync, Sound
  <2>2. lines # <<>> /\ (lines[Len(lines)] = now \/ now \in merged)
    BY <1>1, <1>12 DEF Fsync, InHand
  <2>3. "trace" \in durable
    BY <1>1, <1>12 DEF Fsync, InHand, IInv, EntriesSynced, InSession
  <2>4. Len(lines) \in 1..Len(lines)
    BY <1>1, <1>3, <2>2 DEF TypeOK
  <2>5. \A r \in acked \ merged : \E i \in 1..Len(lines) : lines[i] = r
    BY <1>2, <1>3
  <2>6. now \notin merged => \E i \in 1..Len(lines) : lines[i] = now
    BY <2>2, <2>4
  <2> QED
    BY <2>1, <2>3, <2>5, <2>6
<1>13. CASE Kill
  BY <1>4, <1>13 DEF Kill
<1>14. CASE Outage
  <2>1. acked' = acked /\ merged' = merged
    BY <1>14 DEF Outage
  <2>2. SUFFICES ASSUME acked # {}
                 PROVE  /\ "trace" \in durable'
                        /\ \A r \in acked \ merged :
                             \E i \in 1..synced' : lines'[i] = r
    BY <2>1
  <2>3. "trace" \in durable
    BY <1>2, <2>2
  <2>4. "trace" \in durable'
    BY <1>1, <1>14, <2>3, OutageKeeps DEF InSession
  <2>5. /\ synced' = Len(lines') /\ Len(lines') >= synced
        /\ \A i \in 1..synced : lines'[i] = lines[i]
        /\ lines' \in Seq(Line)
    BY <1>1, <1>14, <2>3, OutageKeeps
  <2>6. 1..synced \subseteq 1..synced'
    BY <1>3, <2>5
  <2> QED
    BY <1>2, <2>4, <2>5, <2>6
<1>15. CASE UNCHANGED vars
  BY <1>4, <1>15 DEF vars
<1> QED
  BY <1>6, <1>7, <1>8, <1>9, <1>10, <1>11, <1>12, <1>13, <1>14, <1>15 DEF Next
-----------------------------------------------------------------------------
(***************************************************************************)
(* Theorems                                                                *)
(***************************************************************************)
\* What TraceWriter has written, in memory and on disk, is consistent at every
\* step, whatever is killed and whenever the machine goes down.
THEOREM TraceInvariant == Spec => []IInv
<1>1. IInv /\ [Next]_vars => IInv'
  BY NextKeepsType, NextKeepsInHand, NextKeepsEntries, NextKeepsSidecar,
     NextKeepsLargeLines, NextKeepsAcked DEF IInv
<1> QED
  BY InitIInv, <1>1, PTL DEF Spec

\* write_text_entry and write_tool_result never leave a record in the trace that
\* refers to a sidecar which is gone.
THEOREM SidecarsResolve == Spec => []RecordsResolve
<1>1. IInv => RecordsResolve
  <2> SUFFICES ASSUME IInv, Sound, NEW r \in Range(lines) \cap Large
               PROVE  Resolves(r)
    BY DEF RecordsResolve, Sound
  <2>1. PICK i \in DOMAIN lines : lines[i] = r
    BY DEF Range
  <2>2. i \in 1..Len(lines)
    BY DEF IInv, TypeOK
  <2>3. Safe(r)
    BY <2>1, <2>2 DEF IInv, LargeLinesSafe
  <2> QED
    BY <2>3 DEF IInv, TypeOK, Safe, Resolves
<1> QED
  BY TraceInvariant, <1>1, PTL

\* A record is in the trace once its write has returned, unless it was
\* appended to a torn line.
THEOREM AcknowledgedStay == Spec => []AckedRecordsStay
<1>1. IInv => AckedRecordsStay
  <2> SUFFICES ASSUME IInv, Sound, NEW r \in acked \ merged
               PROVE  r \in Range(lines)
    BY DEF AckedRecordsStay, Sound
  <2>1. PICK i \in 1..synced : lines[i] = r
    BY DEF IInv, AckedSynced
  <2>2. i \in DOMAIN lines
    BY <2>1 DEF IInv, TypeOK
  <2> QED
    BY <2>1, <2>2 DEF Range
<1> QED
  BY TraceInvariant, <1>1, PTL
=============================================================================
