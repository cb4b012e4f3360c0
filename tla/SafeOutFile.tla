---------------------------- MODULE SafeOutFile ----------------------------
(***************************************************************************)
(* SafeOutFile: an output file is written under a temporary name and       *)
(* renamed to its own when it is complete.  Several files are written at   *)
(* once, by the threads of one process and by the processes of a sharded   *)
(* job that share a directory, some of them to one path.  Opening,         *)
(* flushing, closing and renaming may fail, whoever fills the file may     *)
(* throw, and a process may die between any two steps.                     *)
(*                                                                         *)
(* A file is its writer and the number of parts that have reached the disk.*)
(* Names come from processes of one host: two processes never have the     *)
(* same id, and the clock in the name is not needed to tell names apart.   *)
(***************************************************************************)
EXTENDS Naturals

CONSTANTS Writers,   \* the SafeOutFile objects
          Processes,
          Paths,
          Process,   \* writer -> the process it belongs to
          Target,    \* writer -> m_filename
          Overwrite, \* writer -> m_overwrite
          Size,      \* the parts of a complete file
          Nobody     \* the writer of the files that were there at first

ASSUME WriterAssumption ==
  /\ Process \in [Writers -> Processes]
  /\ Target \in [Writers -> Paths]
  /\ Overwrite \in [Writers -> BOOLEAN]
  /\ Nobody \notin Writers
  /\ Size \in Nat \ {0}

VARIABLES
  windows,  \* the platform's rename() does not replace a file
  pc,       \* how far a writer is
  temp,     \* m_temporaryFilename
  counter,  \* process -> the counter of makeTemporaryOutputFilename
  temps,    \* temporary name -> the file of that name
  disk      \* path -> the file there

vars == <<windows, pc, temp, counter, temps, disk>>

File(w, parts) == [by |-> w, parts |-> parts]
Whole(w) == File(w, Size)
Absent == File(Nobody, 0)
Old == File(Nobody, Size)

\* The name a writer has before it is constructed.
NoName == <<>>

Exists(path) == disk[path] # Absent

Init ==
  /\ windows \in BOOLEAN
  /\ pc = [w \in Writers |-> "new"]
  /\ temp = [w \in Writers |-> NoName]
  /\ counter = [p \in Processes |-> 0]
  /\ temps = [n \in {} |-> Absent]
  /\ disk \in [Paths -> {Absent, Old}]

With(n, file) == [m \in DOMAIN temps \cup {n} |-> IF m = n THEN file ELSE temps[m]]
Without(n) == [m \in (DOMAIN temps) \ {n} |-> temps[m]]

Goto(w, place) == pc' = [pc EXCEPT ![w] = place]

\* makeTemporaryOutputFilename.
TempName(w) == <<Target[w], Process[w], counter[Process[w]]>>

\* The constructor: it throws before anything is created, or opens an empty file.
Construct(w) ==
  /\ pc[w] = "new"
  /\ temp' = [temp EXCEPT ![w] = TempName(w)]
  /\ counter' = [counter EXCEPT ![Process[w]] = @ + 1]
  /\ \/ /\ ~Overwrite[w] /\ Exists(Target[w])
        /\ Goto(w, "refused") /\ UNCHANGED temps
     \/ /\ Overwrite[w] \/ ~Exists(Target[w])
        /\ \/ Goto(w, "open") /\ temps' = With(TempName(w), File(w, 0))
           \/ Goto(w, "failed") /\ UNCHANGED temps
  /\ UNCHANGED <<windows, disk>>

\* Buffered output reaches the disk at any time.
WritePart(w) ==
  /\ pc[w] = "open"
  /\ temps[temp[w]].parts < Size
  /\ temps' = [temps EXCEPT ![temp[w]].parts = @ + 1]
  /\ UNCHANGED <<windows, pc, temp, counter, disk>>

\* Mutation: the file is only removed if it is still open.
UnwindIfOpen(w, reason) ==
  /\ Goto(w, reason)
  /\ temps' = IF pc[w] = "open" THEN Without(temp[w]) ELSE temps
  /\ UNCHANGED <<windows, temp, counter, disk>>

\* An exception leaves, from commit() or from whoever fills the file: commit()
\* removes the temporary file before it throws, the destructor any that is left.
Unwind(w, reason) ==
  /\ Goto(w, reason)
  /\ temps' = Without(temp[w])
  /\ UNCHANGED <<windows, temp, counter, disk>>

\* Mutation: the file is renamed before all of it has left the buffer.
CloseUnflushed(w) ==
  /\ pc[w] = "open"
  /\ Goto(w, "closed")
  /\ UNCHANGED <<windows, temp, counter, temps, disk>>

\* commit(), flush() and close(): all of the file has reached the disk.
FlushAndClose(w) ==
  /\ pc[w] = "open"
  /\ Goto(w, "closed")
  /\ temps' = [temps EXCEPT ![temp[w]].parts = Size]
  /\ UNCHANGED <<windows, temp, counter, disk>>

\* commit(): another look at the target.
Recheck(w) ==
  /\ pc[w] = "closed"
  /\ \/ ~Overwrite[w] /\ Exists(Target[w]) /\ Unwind(w, "refused")
     \/ /\ Overwrite[w] \/ ~Exists(Target[w])
        /\ Goto(w, IF windows /\ Overwrite[w] THEN "remove" ELSE "rename")
        /\ UNCHANGED <<windows, temp, counter, temps, disk>>

\* commit() on Windows: the old file makes room.
RemoveOld(w) ==
  /\ pc[w] = "remove"
  /\ disk' = [disk EXCEPT ![Target[w]] = Absent]
  /\ Goto(w, "rename")
  /\ UNCHANGED <<windows, temp, counter, temps>>

Rename(w) ==
  /\ pc[w] = "rename"
  /\ windows => ~Exists(Target[w])
  /\ disk' = [disk EXCEPT ![Target[w]] = temps[temp[w]]]
  /\ temps' = Without(temp[w])
  /\ Goto(w, "done")
  /\ UNCHANGED <<windows, temp, counter>>

\* The places at which a writer has a temporary file.
Holding == {"open", "closed", "remove", "rename"}

\* Filling, flushing, closing or renaming the file fails.
Fail(w) == pc[w] \in {"open", "rename"} /\ Unwind(w, "failed")

Ended == {"refused", "failed", "done", "dead"}

Die(p) ==
  /\ \E w \in Writers : Process[w] = p /\ pc[w] \notin Ended
  /\ pc' = [w \in Writers |->
              IF Process[w] = p /\ pc[w] \notin Ended THEN "dead" ELSE pc[w]]
  /\ UNCHANGED <<windows, temp, counter, temps, disk>>

Next ==
  \/ \E w \in Writers :
       \/ Construct(w) \/ WritePart(w) \/ FlushAndClose(w) \/ Recheck(w)
       \/ RemoveOld(w) \/ Rename(w) \/ Fail(w)
  \/ \E p \in Processes : Die(p)

Spec == Init /\ [][Next]_vars
-----------------------------------------------------------------------------
Files == [by : Writers, parts : 0..Size]

TypeOK ==
  /\ windows \in BOOLEAN
  /\ temp \in [Writers -> {NoName} \cup Paths \X Processes \X Nat]
  /\ pc \in [Writers -> {"new"} \cup Holding \cup Ended]
  /\ counter \in [Processes -> Nat]
  /\ temps \in [DOMAIN temps -> Files]
  /\ disk \in [Paths -> [by : Writers \cup {Nobody}, parts : {0, Size}]]

(***************************************************************************)
(* A path is never seen half written, whoever fails, dies or races: every  *)
(* step of the writers is invisible there but the one rename that puts a   *)
(* whole file in place, and a file that was there at first is replaced     *)
(* only by a writer that may.  (On Windows the old file is gone just       *)
(* before, as AtomicFile says.)                                            *)
(***************************************************************************)
Atomic == INSTANCE AtomicFile WITH
  done <- {w \in Writers : pc[w] = "done"},
  unlinks <- windows

ImplementsAtomicFile == Atomic!Spec

(***************************************************************************)
(* Whatever fails, no temporary file is left behind but by a process that  *)
(* died: each one belongs to exactly one writer, which holds it or is dead.*)
(***************************************************************************)
NoStrayTemporaries ==
  \A n \in DOMAIN temps :
    /\ \E w \in Writers : temp[w] = n /\ pc[w] \in Holding \cup {"dead"}
    /\ \A v, w \in Writers : temp[v] = n /\ temp[w] = n => v = w
=============================================================================
