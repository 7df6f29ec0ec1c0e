------------------------------ MODULE LogMonitor ------------------------------
(* The file side of coroutine_log (log/monitor.hpp, monitor.cpp) for one log  *)
(* file: file_write with its rotation, close_file and shutdown, and the       *)
(* clean-up of archives.                                                      *)
(*                                                                            *)
(* A writer is one call of file_write with one message, which counts as one   *)
(* byte of the limit.  The call runs without interruption up to the co_await  *)
(* of async_write, where every other call can come between, and again from    *)
(* there to its end.  Across the suspension it keeps `it`, an iterator into   *)
(* file_map, and a reference to the stream_file it writes to.  A file that    *)
(* cannot be opened makes the constructor of asio::stream_file throw, and the *)
(* exception leaves file_write.  Deleting an old archive is taken to succeed, *)
(* and the clock not to go back.                                              *)
EXTENDS Integers, Sequences, FiniteSets

CONSTANTS
    Writers,        \* calls of file_write
    NoEntry,        \* file_map has no entry for the file
    MaxFileSize,    \* max_file_size
    MaxArchives,    \* max_archive_count, 0 for no limit
    Faults,         \* what the file system may refuse: "open", "rename", "write"
    MaxTime         \* bound on the clock, for TLC

ASSUME LogAssumption ==
    /\ NoEntry \notin [node : Writers, handle : Writers, open : BOOLEAN, size : Nat]
    /\ MaxFileSize \in Nat
    /\ MaxArchives \in Nat
    /\ Faults \subseteq {"open", "rename", "write"}
    /\ MaxTime \in Nat

VARIABLES
    entry,      \* the entry of file_map: its node, its handle, whether that is open, and
                \*   current_size; a node and a handle are named after the writer that
                \*   made them
    current,    \* the messages in the log file
    archives,   \* the archive files: their time stamp -> their messages
    now,        \* the clock, in ticks of system_clock
    pc,         \* a writer: "idle", "writing" (suspended), "done" (returned or thrown)
    it,         \* the node its iterator points to
    via,        \* the handle its async_write goes through
    outcome,    \* its async_write: "none", "pending", "ok", "failed"
    reported,   \* the writers whose call returned the size of their message
    retired,    \* history: the messages in archives that were deleted as the oldest
    mishaps,    \* history: what has happened so far of Mishaps
    crashed     \* an iterator to an erased entry was used: anything may follow

vars == <<entry, current, archives, now, pc, it, via, outcome, reported, retired, mishaps, crashed>>

\* A call began, or the file was closed, while another call was suspended; a
\* rename failed; a rename replaced the archive of the same tick.
Mishaps == {"overlap", "rename", "clash"}

Entries == [node : Writers, handle : Writers, open : BOOLEAN, size : Nat]
Messages(content) == {content[i] : i \in DOMAIN content}
InArchives(files) == UNION {Messages(files[t]) : t \in DOMAIN files}

TypeOK ==
    /\ entry \in Entries \cup {NoEntry}
    /\ current \in Seq(Writers)
    /\ DOMAIN archives \subseteq 0 .. MaxTime
    /\ \A t \in DOMAIN archives : archives[t] \in Seq(Writers)
    /\ now \in 0 .. MaxTime
    /\ pc \in [Writers -> {"idle", "writing", "done"}]
    /\ it \in [Writers -> Writers]
    /\ via \in [Writers -> Writers]
    /\ outcome \in [Writers -> {"none", "pending", "ok", "failed"}]
    /\ reported \subseteq {w \in Writers : outcome[w] = "ok"}
    /\ retired \subseteq Writers
    /\ mishaps \subseteq Mishaps
    /\ crashed \in BOOLEAN
    /\ \A w \in Writers : pc[w] = "writing" => outcome[w] # "none"

Init ==
    /\ entry = NoEntry
    /\ current = <<>>
    /\ archives = [t \in {} |-> <<>>]
    /\ now = 0
    /\ pc = [w \in Writers |-> "idle"]
    /\ it = [w \in Writers |-> w]
    /\ via = [w \in Writers |-> w]
    /\ outcome = [w \in Writers |-> "none"]
    /\ reported = {}
    /\ retired = {}
    /\ mishaps = {}
    /\ crashed = FALSE

-------------------------------------------------------------------------------
\* The file has an entry with an open handle; no other handle is open.
HasHandle == entry # NoEntry /\ entry.open
Live(h) == HasHandle /\ entry.handle = h

\* Calls that are suspended when another call begins or the file is closed.
Overlap == IF \E v \in Writers : pc[v] = "writing" THEN {"overlap"} ELSE {}

\* cleanup_old_archives without the sort: the youngest is safe, the others go youngest first.
KeepUnsorted(files) ==
    {t \in DOMAIN files : \/ MaxArchives = 0
                          \/ \A u \in DOMAIN files : u <= t
                          \/ Cardinality({u \in DOMAIN files : u < t}) < MaxArchives - 1}

\* cleanup_old_archives that stops one too early.
KeepOneMore(files) ==
    {t \in DOMAIN files : MaxArchives = 0 \/ Cardinality({u \in DOMAIN files : u > t}) <= MaxArchives}

\* cleanup_old_archives: the archives that remain, the youngest by name.
Kept(files) ==
    {t \in DOMAIN files : MaxArchives = 0 \/ Cardinality({u \in DOMAIN files : u > t}) < MaxArchives}

CleanUp(files) ==
    /\ archives' = [t \in Kept(files) |-> files[t]]
    /\ retired' = retired \cup UNION {Messages(files[t]) : t \in DOMAIN files \ Kept(files)}

\* The constructor of a stream_file throws.
OpenFails(w) ==
    /\ "open" \in Faults
    /\ pc' = [pc EXCEPT ![w] = "done"]
    /\ UNCHANGED <<it, via, outcome>>

\* co_await async_write(*it->second.handle) with entry e.
StartWrite(w, e) ==
    /\ entry' = e
    /\ pc' = [pc EXCEPT ![w] = "writing"]
    /\ it' = [it EXCEPT ![w] = e.node]
    /\ via' = [via EXCEPT ![w] = e.handle]
    /\ outcome' = [outcome EXCEPT ![w] = "pending"]

\* What a rotation makes of the archives.
Archived(renamed) ==
    IF renamed THEN [t \in DOMAIN archives \cup {now} |-> IF t = now THEN current ELSE archives[t]]
               ELSE archives

Mishap(renamed) == IF ~ renamed THEN {"rename"} ELSE IF now \in DOMAIN archives THEN {"clash"} ELSE {}

\* Rotate that copies the file to the archive and appends to it.
RotateByCopy(w, e) ==
    /\ CleanUp(Archived(TRUE))
    /\ mishaps' = mishaps \cup Overlap \cup Mishap(TRUE)
    /\ UNCHANGED current
    /\ StartWrite(w, [e EXCEPT !.handle = w, !.size = 0])

\* Rotate that truncates the file without having renamed it.
RotateInPlace(w, e) ==
    /\ CleanUp(archives)
    /\ mishaps' = mishaps \cup Overlap
    /\ current' = <<>>
    /\ StartWrite(w, [e EXCEPT !.handle = w, !.size = 0])

\* Rotate whose failed open erases the entry and goes on to the write.
RotateGoesOn(w, e) ==
    \E renamed \in BOOLEAN :
        /\ renamed \/ "rename" \in Faults
        /\ CleanUp(Archived(renamed))
        /\ mishaps' = mishaps \cup Overlap \cup Mishap(renamed)
        /\ \/ /\ current' = <<>>
              /\ StartWrite(w, [e EXCEPT !.handle = w, !.size = 0])
           \/ /\ "open" \in Faults
              /\ current' = IF renamed THEN <<>> ELSE current
              /\ entry' = NoEntry
              /\ pc' = [pc EXCEPT ![w] = "writing"]
              /\ it' = [it EXCEPT ![w] = e.node]
              /\ via' = [via EXCEPT ![w] = e.handle]
              /\ outcome' = [outcome EXCEPT ![w] = "pending"]

\* The rotation: the handle is closed; the rename succeeds, over an archive of the
\* same tick if there is one, or fails unnoticed; old archives are deleted; and
\* the file is opened anew and emptied, or that throws and leaves the entry with
\* its closed handle and its old size.
Rotate(w, e) ==
    \E renamed \in BOOLEAN :
        /\ renamed \/ "rename" \in Faults
        /\ CleanUp(Archived(renamed))
        /\ mishaps' = mishaps \cup Overlap \cup Mishap(renamed)
        /\ \/ /\ current' = <<>>
              /\ StartWrite(w, [e EXCEPT !.handle = w, !.size = 0])
           \/ /\ current' = IF renamed THEN <<>> ELSE current
              /\ entry' = [e EXCEPT !.open = FALSE]
              /\ OpenFails(w)

\* From the rotation check on, with entry e.
WriteThrough(w, e) ==
    \/ /\ e.size + 1 > MaxFileSize
       /\ Rotate(w, e)
    \/ /\ e.size + 1 <= MaxFileSize
       /\ StartWrite(w, e)
       /\ mishaps' = mishaps \cup Overlap
       /\ UNCHANGED <<current, archives, retired>>

\* The context that is made for a file opened to append; insert_or_assign puts it
\* into the node that is there.
Opened(w) == [node |-> IF entry = NoEntry THEN w ELSE entry.node,
              handle |-> w, open |-> TRUE, size |-> Len(current)]

\* file_write up to its suspension.  Without an open handle the file is opened for
\* appending, or that throws.
FileWrite(w) ==
    /\ ~ crashed
    /\ pc[w] = "idle"
    /\ \/ HasHandle /\ WriteThrough(w, entry)
       \/ /\ ~ HasHandle
          /\ \/ WriteThrough(w, Opened(w))
             \/ /\ OpenFails(w)
                /\ mishaps' = mishaps \cup Overlap
                /\ UNCHANGED <<entry, current, archives, retired>>
    /\ UNCHANGED <<now, reported, crashed>>

\* The kernel completes an async_write, before its handle is closed; on a handle
\* that has been closed or destroyed it completes with operation_aborted.
Completes(w) ==
    /\ ~ crashed
    /\ outcome[w] = "pending"
    /\ \/ Live(via[w]) /\ outcome' = [outcome EXCEPT ![w] = "ok"] /\ current' = Append(current, w)
       \/ /\ "write" \in Faults \/ ~ Live(via[w])
          /\ outcome' = [outcome EXCEPT ![w] = "failed"]
          /\ UNCHANGED current
    /\ UNCHANGED <<entry, archives, now, pc, it, via, reported, retired, mishaps, crashed>>

\* The iterator of w still points to an entry.
Valid(w) == entry # NoEntry /\ entry.node = it[w]

\* Written without current_size += n.
WrittenUncounted(w) ==
    /\ ~ crashed
    /\ pc[w] = "writing"
    /\ outcome[w] = "ok"
    /\ Valid(w)
    /\ reported' = reported \cup {w}
    /\ pc' = [pc EXCEPT ![w] = "done"]
    /\ UNCHANGED <<entry, current, archives, now, it, via, outcome, retired, mishaps, crashed>>

\* file_write resumes after a write that succeeded.
Written(w) ==
    /\ ~ crashed
    /\ pc[w] = "writing"
    /\ outcome[w] = "ok"
    /\ \/ /\ Valid(w)
          /\ entry' = [entry EXCEPT !.size = @ + 1]
          /\ reported' = reported \cup {w}
          /\ UNCHANGED crashed
       \/ ~ Valid(w) /\ crashed' = TRUE /\ UNCHANGED <<entry, reported>>
    /\ pc' = [pc EXCEPT ![w] = "done"]
    /\ UNCHANGED <<current, archives, now, it, via, outcome, retired, mishaps>>

\* NotWritten that reports the size of its message all the same.
NotWrittenReported(w) ==
    /\ ~ crashed
    /\ pc[w] = "writing"
    /\ outcome[w] = "failed"
    /\ Valid(w)
    /\ reported' = reported \cup {w}
    /\ pc' = [pc EXCEPT ![w] = "done"]
    /\ UNCHANGED <<entry, current, archives, now, it, via, outcome, retired, mishaps, crashed>>

\* file_write resumes after a write that failed: the entry its iterator points to
\* is erased, with whatever handle is in it now.
NotWritten(w) ==
    /\ ~ crashed
    /\ pc[w] = "writing"
    /\ outcome[w] = "failed"
    /\ \/ Valid(w) /\ entry' = NoEntry /\ UNCHANGED crashed
       \/ ~ Valid(w) /\ crashed' = TRUE /\ UNCHANGED entry
    /\ pc' = [pc EXCEPT ![w] = "done"]
    /\ UNCHANGED <<current, archives, now, it, via, outcome, reported, retired, mishaps>>

\* close_file with the key of the file, and shutdown.
CloseFile ==
    /\ ~ crashed
    /\ entry # NoEntry
    /\ entry' = NoEntry
    /\ mishaps' = mishaps \cup Overlap
    /\ UNCHANGED <<current, archives, now, pc, it, via, outcome, reported, retired, crashed>>

Tick ==
    /\ ~ crashed
    /\ now < MaxTime
    /\ now' = now + 1
    /\ UNCHANGED <<entry, current, archives, pc, it, via, outcome, reported, retired, mishaps, crashed>>

Next ==
    \/ \E w \in Writers : FileWrite(w) \/ Completes(w) \/ Written(w) \/ NotWritten(w)
    \/ CloseFile
    \/ Tick

Spec == Init /\ [][Next]_vars

-------------------------------------------------------------------------------
\* Callers that await each call before the next one, and close the file between
\* two, are safe whatever the file system does: file_write resumes with an iterator
\* that is still in file_map.  Only overlapping calls can have it erased under them.
SerialCallsAreSafe == crashed => "overlap" \in mishaps

\* A message whose size file_write returned stays in the log file or in an archive
\* until the archive is deleted for its age, however the calls overlap, as long as
\* no rename fails and no two rotations fall into one tick of the clock.
ReportedIsKept ==
    mishaps \subseteq {"overlap"} => reported \subseteq Messages(current) \cup InArchives(archives) \cup retired

\* A message is in one place of one file, whatever rotations came between.
WrittenOnce ==
    /\ \A i, j \in DOMAIN current : current[i] = current[j] => i = j
    /\ \A t \in DOMAIN archives :
        /\ Messages(archives[t]) \cap Messages(current) = {}
        /\ \A i, j \in DOMAIN archives[t] : archives[t][i] = archives[t][j] => i = j
        /\ \A u \in DOMAIN archives \ {t} : Messages(archives[t]) \cap Messages(archives[u]) = {}

\* current_size never falls behind the file by more than what was written through
\* its handle and has not been counted yet: the limit cannot be evaded for good.
SizeNotUnderestimated ==
    entry # NoEntry =>
        Len(current) <= entry.size
            + Cardinality({w \in Writers : pc[w] = "writing" /\ outcome[w] = "ok" /\ via[w] = entry.handle})

\* After every rotation there are no more archives than max_archive_count.
ArchivesBounded == MaxArchives > 0 => Cardinality(DOMAIN archives) <= MaxArchives

\* An archive is deleted only when there are too many, and never before an older one.
OldestDeletedFirst ==
    [][\A t \in DOMAIN archives \ DOMAIN archives' :
        /\ MaxArchives > 0 /\ Cardinality(DOMAIN archives') = MaxArchives
        /\ \A u \in DOMAIN archives' : t < u]_vars

===============================================================================
