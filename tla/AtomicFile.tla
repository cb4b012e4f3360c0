----------------------------- MODULE AtomicFile -----------------------------
(***************************************************************************)
(* What SafeOutFile promises whoever looks at an output path, at any       *)
(* moment and after any crash: what was there before, or the whole result  *)
(* of one writer that is done.                                             *)
(***************************************************************************)
CONSTANTS Paths,     \* the output paths
          Writers,   \* the files a run, or several runs, will write
          Target,    \* writer -> its path
          Overwrite, \* writer -> may it replace an old file?
          Absent,    \* no file
          Old,       \* a file that was there at first
          Whole(_)   \* the complete result of a writer

VARIABLES disk,   \* path -> what is there
          done,   \* the writers that are done
          unlinks \* the platform removes a file before it is replaced

Init ==
  /\ disk \in [Paths -> {Absent, Old}]
  /\ done = {}
  /\ unlinks \in BOOLEAN

\* A writer that may not overwrite spares the files that were there at first.
Publish(w) ==
  /\ w \notin done
  /\ Overwrite[w] \/ disk[Target[w]] # Old
  /\ disk' = [disk EXCEPT ![Target[w]] = Whole(w)]
  /\ done' = done \cup {w}
  /\ UNCHANGED unlinks

\* Where a file cannot be replaced at once it is gone for a while, or for good
\* if the program dies.
Vanish(w) ==
  /\ unlinks /\ Overwrite[w]
  /\ disk' = [disk EXCEPT ![Target[w]] = Absent]
  /\ UNCHANGED <<done, unlinks>>

Next == \E w \in Writers : Publish(w) \/ Vanish(w)

Spec == Init /\ [][Next]_<<disk, done, unlinks>>
=============================================================================
