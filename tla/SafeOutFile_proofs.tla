------------------------- MODULE SafeOutFile_proofs -------------------------
(***************************************************************************)
(* Proofs about SafeOutFile, for every number of writers, processes and    *)
(* paths, every file size and every choice of who may overwrite.           *)
(***************************************************************************)
EXTENDS SafeOutFile, TLAPS

\* A name was made by its writer's process, from a value its counter has passed.
NamesInv ==
  /\ \A w \in Writers : temp[w] # NoName =>
       /\ temp[w][2] = Process[w]
       /\ temp[w][3] < counter[Process[w]]
  /\ \A v, w \in Writers : temp[v] = temp[w] /\ temp[v] # NoName => v = w
  /\ \A w \in Writers : pc[w] = "new" => temp[w] = NoName
  /\ \A w \in Writers : pc[w] \in Holding => temp[w] # NoName

\* A writer's temporary file is there, is its own, and is whole when it is closed.
FilesInv ==
  \A w \in Writers : pc[w] \in Holding =>
    /\ temp[w] \in DOMAIN temps
    /\ temps[temp[w]].by = w
    /\ pc[w] # "open" => temps[temp[w]].parts = Size

\* Every temporary file has a writer.
OwnedInv ==
  \A n \in DOMAIN temps :
    n # NoName /\ \E w \in Writers : temp[w] = n /\ pc[w] \in Holding \cup {"dead"}

\* A file that was there at first has stopped whoever may not overwrite it, and
\* only who may overwrite comes to remove one.
OldInv ==
  \A w \in Writers :
    /\ ~Overwrite[w] /\ disk[Target[w]] = Old => pc[w] \notin Holding
    /\ pc[w] = "remove" => windows /\ Overwrite[w]

IInv == TypeOK /\ NamesInv /\ FilesInv /\ OwnedInv /\ OldInv

LEMMA Contents ==
  /\ \A w \in Writers, k \in 0..Size : File(w, k) \in Files
  /\ \A w \in Writers : Whole(w) # Old /\ Whole(w) # Absent
  /\ Old # Absent
  BY WriterAssumption DEF File, Files, Whole, Old, Absent

LEMMA Initially == ASSUME Init PROVE IInv
<1> USE WriterAssumption DEF Init, Holding, Ended
<1>1. TypeOK
  BY DEF TypeOK, Absent, Old, File
<1>2. NamesInv
  BY DEF NamesInv
<1>3. FilesInv /\ OwnedInv /\ OldInv
  BY DEF FilesInv, OwnedInv, OldInv
<1> QED  BY <1>1, <1>2, <1>3 DEF IInv

\* A new name differs from all there were.
LEMMA NewName ==
  ASSUME IInv, NEW w \in Writers
  PROVE  /\ TempName(w) \in Paths \X Processes \X Nat
         /\ TempName(w) # NoName
         /\ \A v \in Writers : temp[v] # TempName(w)
         /\ TempName(w) \notin DOMAIN temps
<1>1. TempName(w) \in Paths \X Processes \X Nat
  BY WriterAssumption DEF TempName, IInv, TypeOK
<1>2. TempName(w)[2] = Process[w] /\ TempName(w)[3] = counter[Process[w]]
  BY DEF TempName
<1>3. TempName(w) # NoName
  BY DEF TempName, NoName
<1>4. \A v \in Writers : temp[v] # TempName(w)
  <2> SUFFICES ASSUME NEW v \in Writers, temp[v] = TempName(w) PROVE FALSE
    OBVIOUS
  <2>1. temp[v][3] < counter[Process[v]] /\ temp[v][2] = Process[v]
    BY <1>3 DEF IInv, NamesInv
  <2>2. counter[Process[w]] \in Nat
    BY WriterAssumption DEF IInv, TypeOK
  <2> QED  BY <1>2, <2>1, <2>2
<1> QED  BY <1>1, <1>3, <1>4 DEF IInv, OwnedInv

LEMMA ConstructKeeps ==
  ASSUME IInv, NEW w \in Writers, Construct(w)
  PROVE  IInv'
<1> USE WriterAssumption, NewName DEF Goto
<1>0. pc[w] = "new" /\ temp[w] = NoName
  BY DEF Construct, IInv, NamesInv
<1>1. /\ temp' = [temp EXCEPT ![w] = TempName(w)]
      /\ counter' = [counter EXCEPT ![Process[w]] = @ + 1]
      /\ UNCHANGED <<windows, disk>>
      /\ \/ /\ pc' = [pc EXCEPT ![w] = "open"]
            /\ temps' = With(TempName(w), File(w, 0))
            /\ Overwrite[w] \/ disk[Target[w]] = Absent
         \/ /\ \/ pc' = [pc EXCEPT ![w] = "refused"]
               \/ pc' = [pc EXCEPT ![w] = "failed"]
            /\ temps' = temps
  BY DEF Construct, Exists
<1>2. TypeOK'
  <2>1. With(TempName(w), File(w, 0)) \in [DOMAIN temps \cup {TempName(w)} -> Files]
    <3>1. File(w, 0) \in Files
      BY Contents
    <3>2. \A m \in DOMAIN temps : temps[m] \in Files
      BY DEF IInv, TypeOK
    <3> QED  BY <3>1, <3>2 DEF With
  <2>2. temps' \in [DOMAIN temps' -> Files]
    BY <1>1, <2>1 DEF IInv, TypeOK
  <2> QED  BY <1>1, <2>2 DEF IInv, TypeOK, Holding, Ended
<1>3. NamesInv'
  <2>1. TempName(w)[2] = Process[w] /\ TempName(w)[3] = counter[Process[w]]
    BY DEF TempName
  <2> QED  BY <1>0, <1>1, <2>1 DEF IInv, TypeOK, NamesInv, Holding
<1>4. FilesInv'
  BY <1>0, <1>1 DEF IInv, TypeOK, FilesInv, With, File, Holding
<1>5. OwnedInv'
  BY <1>0, <1>1 DEF IInv, TypeOK, OwnedInv, With, Holding
<1>6. OldInv'
  BY <1>1, Contents DEF IInv, TypeOK, OldInv, Holding
<1> QED  BY <1>2, <1>3, <1>4, <1>5, <1>6 DEF IInv

\* The file of one writer is not that of another.
LEMMA OwnName ==
  ASSUME IInv, NEW v \in Writers, NEW w \in Writers, pc[w] \in Holding,
         temp[v] = temp[w]
  PROVE  v = w
  BY DEF IInv, NamesInv

LEMMA WriteKeeps ==
  ASSUME IInv, NEW w \in Writers, WritePart(w)
  PROVE  IInv'
<1> USE OwnName
<1>1. /\ pc[w] = "open" /\ temp[w] \in DOMAIN temps /\ temps[temp[w]] \in Files
      /\ temps[temp[w]].parts < Size
      /\ temps' = [temps EXCEPT ![temp[w]].parts = @ + 1]
      /\ UNCHANGED <<windows, pc, temp, counter, disk>>
  BY DEF WritePart, IInv, FilesInv, TypeOK, Holding
<1>2. TypeOK'
  <2>1. temps[temp[w]].parts + 1 \in 0..Size
    BY <1>1, WriterAssumption DEF Files
  <2>2. temps' \in [DOMAIN temps' -> Files]
    BY <1>1, <2>1 DEF IInv, TypeOK, Files
  <2> QED  BY <1>1, <2>2 DEF IInv, TypeOK
<1>3. FilesInv'
  <2> SUFFICES ASSUME NEW v \in Writers, pc[v] \in Holding
               PROVE  /\ temp[v] \in DOMAIN temps'
                      /\ temps'[temp[v]].by = v
                      /\ pc[v] # "open" => temps'[temp[v]].parts = Size
    BY <1>1 DEF FilesInv
  <2>1. CASE v = w
    BY <1>1, <2>1 DEF IInv, FilesInv, Files
  <2>2. CASE v # w
    BY <1>1, <2>2 DEF IInv, FilesInv, Holding
  <2> QED  BY <2>1, <2>2
<1>4. NamesInv' /\ OwnedInv' /\ OldInv'
  BY <1>1 DEF IInv, NamesInv, OwnedInv, OldInv
<1> QED  BY <1>2, <1>3, <1>4 DEF IInv

LEMMA CloseKeeps ==
  ASSUME IInv, NEW w \in Writers, FlushAndClose(w)
  PROVE  IInv'
<1> USE OwnName
<1>1. /\ pc[w] = "open" /\ temp[w] \in DOMAIN temps /\ temps[temp[w]] \in Files
      /\ pc' = [pc EXCEPT ![w] = "closed"]
      /\ temps' = [temps EXCEPT ![temp[w]].parts = Size]
      /\ UNCHANGED <<windows, temp, counter, disk>>
  BY DEF FlushAndClose, Goto, IInv, FilesInv, TypeOK, Holding
<1>2. TypeOK'
  <2>1. [temps[temp[w]] EXCEPT !.parts = Size] \in Files
    BY <1>1, WriterAssumption DEF Files
  <2>2. temps' = [temps EXCEPT ![temp[w]] = [temps[temp[w]] EXCEPT !.parts = Size]]
    BY <1>1
  <2>3. temps' \in [DOMAIN temps' -> Files]
    BY <1>1, <2>1, <2>2 DEF IInv, TypeOK
  <2> QED  BY <1>1, <2>3 DEF IInv, TypeOK, Holding
<1>3. FilesInv'
  <2> SUFFICES ASSUME NEW v \in Writers, pc'[v] \in Holding
               PROVE  /\ temp[v] \in DOMAIN temps'
                      /\ temps'[temp[v]].by = v
                      /\ pc'[v] # "open" => temps'[temp[v]].parts = Size
    BY <1>1 DEF FilesInv
  <2>1. CASE v = w
    BY <1>1, <2>1 DEF IInv, FilesInv, Files, Holding
  <2>2. CASE v # w
    BY <1>1, <2>2 DEF IInv, TypeOK, FilesInv, Holding
  <2> QED  BY <2>1, <2>2
<1>4. NamesInv' /\ OwnedInv' /\ OldInv'
  BY <1>1 DEF IInv, TypeOK, NamesInv, OwnedInv, OldInv, Holding
<1> QED  BY <1>2, <1>3, <1>4 DEF IInv

LEMMA UnwindKeeps ==
  ASSUME IInv, NEW w \in Writers, pc[w] \in Holding,
         NEW reason \in {"refused", "failed"}, Unwind(w, reason)
  PROVE  IInv'
<1> USE OwnName
<1>1. /\ temp[w] \in DOMAIN temps
      /\ pc' = [pc EXCEPT ![w] = reason]
      /\ temps' = Without(temp[w])
      /\ UNCHANGED <<windows, temp, counter, disk>>
  BY DEF Unwind, Goto, IInv, FilesInv
<1>2. TypeOK'
  BY <1>1 DEF IInv, TypeOK, Without, Holding, Ended
<1>3. NamesInv' /\ OldInv'
  BY <1>1 DEF IInv, TypeOK, NamesInv, OldInv, Holding
<1>4. FilesInv' /\ OwnedInv'
  BY <1>1 DEF IInv, TypeOK, FilesInv, OwnedInv, Without, Holding
<1> QED  BY <1>2, <1>3, <1>4 DEF IInv

LEMMA RecheckKeeps ==
  ASSUME IInv, NEW w \in Writers, Recheck(w)
  PROVE  IInv'
<1>0. pc[w] = "closed"
  BY DEF Recheck
<1>1. CASE Unwind(w, "refused")
  BY <1>0, <1>1, UnwindKeeps DEF Holding
<1>2. CASE /\ Overwrite[w] \/ ~Exists(Target[w])
           /\ Goto(w, IF windows /\ Overwrite[w] THEN "remove" ELSE "rename")
           /\ UNCHANGED <<windows, temp, counter, temps, disk>>
  <2>1. TypeOK'
    BY <1>2 DEF IInv, TypeOK, Goto, Holding
  <2>2. NamesInv' /\ FilesInv' /\ OwnedInv' /\ OldInv'
    BY <1>0, <1>2 DEF IInv, TypeOK, NamesInv, FilesInv, OwnedInv, OldInv, Goto, Holding
  <2> QED  BY <2>1, <2>2 DEF IInv
<1> QED  BY <1>1, <1>2 DEF Recheck

LEMMA RemoveKeeps ==
  ASSUME IInv, NEW w \in Writers, RemoveOld(w)
  PROVE  IInv'
<1>1. /\ pc[w] = "remove"
      /\ pc' = [pc EXCEPT ![w] = "rename"]
      /\ disk' = [disk EXCEPT ![Target[w]] = Absent]
      /\ UNCHANGED <<windows, temp, counter, temps>>
  BY DEF RemoveOld, Goto
<1>2. TypeOK'
  BY <1>1 DEF IInv, TypeOK, Holding, Absent, File
<1>3. NamesInv' /\ FilesInv' /\ OwnedInv'
  BY <1>1 DEF IInv, TypeOK, NamesInv, FilesInv, OwnedInv, Holding
<1>4. OldInv'
  BY <1>1, Contents, WriterAssumption DEF IInv, TypeOK, OldInv, Holding
<1> QED  BY <1>2, <1>3, <1>4 DEF IInv

\* What is renamed is the whole file of its writer, and it may be put there.
LEMMA RenamedFile ==
  ASSUME IInv, NEW w \in Writers, Rename(w)
  PROVE  /\ disk' = [disk EXCEPT ![Target[w]] = Whole(w)]
         /\ Overwrite[w] \/ disk[Target[w]] # Old
         /\ temp[w] \in DOMAIN temps
<1>1. pc[w] = "rename" /\ temp[w] \in DOMAIN temps /\ temps[temp[w]] \in Files
      /\ temps[temp[w]].by = w /\ temps[temp[w]].parts = Size
  BY DEF Rename, IInv, TypeOK, FilesInv, Holding
<1>2. temps[temp[w]] = Whole(w)
  BY <1>1 DEF Files, Whole, File
<1> QED  BY <1>1, <1>2, WriterAssumption DEF Rename, IInv, OldInv, Holding

LEMMA RenameKeeps ==
  ASSUME IInv, NEW w \in Writers, Rename(w)
  PROVE  IInv'
<1> USE OwnName, RenamedFile
<1>1. /\ pc[w] = "rename"
      /\ pc' = [pc EXCEPT ![w] = "done"]
      /\ temps' = Without(temp[w])
      /\ UNCHANGED <<windows, temp, counter>>
  BY DEF Rename, Goto
<1>2. TypeOK'
  <2>1. Whole(w) \in [by : Writers \cup {Nobody}, parts : {0, Size}]
    BY DEF Whole, File
  <2>2. temps' \in [DOMAIN temps' -> Files]
    BY <1>1 DEF IInv, TypeOK, Without
  <2> QED  BY <1>1, <2>1, <2>2 DEF IInv, TypeOK, Ended
<1>3. NamesInv'
  BY <1>1 DEF IInv, TypeOK, NamesInv, Holding
<1>4. FilesInv' /\ OwnedInv'
  BY <1>1 DEF IInv, TypeOK, FilesInv, OwnedInv, Without, Holding
<1>5. OldInv'
  <2>1. \A v \in Writers : disk'[Target[v]] = Old => disk[Target[v]] = Old
    BY Contents, WriterAssumption DEF IInv, TypeOK
  <2> QED  BY <1>1, <2>1 DEF IInv, TypeOK, OldInv, Holding
<1> QED  BY <1>2, <1>3, <1>4, <1>5 DEF IInv

LEMMA DieKeeps ==
  ASSUME IInv, NEW p \in Processes, Die(p)
  PROVE  IInv'
<1>1. TypeOK'
  BY DEF Die, IInv, TypeOK, Ended
<1>2. NamesInv' /\ FilesInv' /\ OldInv'
  BY DEF Die, IInv, TypeOK, NamesInv, FilesInv, OldInv, Holding, Ended
<1>3. OwnedInv'
  BY DEF Die, IInv, TypeOK, OwnedInv, Holding, Ended
<1> QED  BY <1>1, <1>2, <1>3 DEF IInv

LEMMA StepKeeps == IInv /\ [Next]_vars => IInv'
<1> SUFFICES ASSUME IInv, [Next]_vars PROVE IInv'
  OBVIOUS
<1>1. ASSUME NEW w \in Writers, Construct(w) PROVE IInv'
  BY <1>1, ConstructKeeps
<1>2. ASSUME NEW w \in Writers, WritePart(w) PROVE IInv'
  BY <1>2, WriteKeeps
<1>3. ASSUME NEW w \in Writers, FlushAndClose(w) PROVE IInv'
  BY <1>3, CloseKeeps
<1>4. ASSUME NEW w \in Writers, Recheck(w) PROVE IInv'
  BY <1>4, RecheckKeeps
<1>5. ASSUME NEW w \in Writers, RemoveOld(w) PROVE IInv'
  BY <1>5, RemoveKeeps
<1>6. ASSUME NEW w \in Writers, Rename(w) PROVE IInv'
  BY <1>6, RenameKeeps
<1>7. ASSUME NEW w \in Writers, Fail(w) PROVE IInv'
  BY <1>7, UnwindKeeps DEF Fail, Holding
<1>8. ASSUME NEW p \in Processes, Die(p) PROVE IInv'
  BY <1>8, DieKeeps
<1>9. CASE UNCHANGED vars
  BY <1>9 DEF vars, IInv, TypeOK, NamesInv, FilesInv, OwnedInv, OldInv
<1> QED  BY <1>1, <1>2, <1>3, <1>4, <1>5, <1>6, <1>7, <1>8, <1>9 DEF Next

LEMMA Inductive == Spec => []IInv
  BY Initially, StepKeeps, PTL DEF Spec

(***************************************************************************)
(* For every number of writers, processes and paths: a temporary file has  *)
(* exactly one writer, which still holds it or died with its process.      *)
(***************************************************************************)
THEOREM StrayCorrect == Spec => []NoStrayTemporaries
<1>1. IInv => NoStrayTemporaries
  BY DEF IInv, NamesInv, OwnedInv, NoStrayTemporaries
<1> QED  BY <1>1, Inductive, PTL

(***************************************************************************)
(* Every step of every writer is a step of AtomicFile or a stutter: at an  *)
(* output path only whole files appear, whatever fails and whoever dies.   *)
(***************************************************************************)
THEOREM Refinement == Spec => ImplementsAtomicFile
<1> DEFINE Done == {w \in Writers : pc[w] = "done"}
<1>1. Init => Atomic!Init
  BY DEF Init, Atomic!Init
<1>2. IInv /\ [Next]_vars => [Atomic!Next]_<<disk, Done, windows>>
  <2> SUFFICES ASSUME IInv, [Next]_vars
               PROVE  Atomic!Next \/ UNCHANGED <<disk, Done, windows>>
    BY DEF Done
  <2>1. ASSUME NEW w \in Writers, Rename(w)
        PROVE  Atomic!Publish(w)
    <3>1. pc[w] = "rename" /\ pc' = [pc EXCEPT ![w] = "done"] /\ windows' = windows
      BY <2>1 DEF Rename, Goto
    <3>2. Done' = Done \cup {w} /\ w \notin Done
      BY <3>1 DEF IInv, TypeOK
    <3> QED  BY <2>1, <3>1, <3>2, RenamedFile DEF Atomic!Publish
  <2>2. ASSUME NEW w \in Writers, RemoveOld(w)
        PROVE  Atomic!Vanish(w)
    <3>1. pc[w] = "remove" /\ pc' = [pc EXCEPT ![w] = "rename"]
      BY <2>2 DEF RemoveOld, Goto
    <3>2. Done' = Done
      BY <3>1 DEF IInv, TypeOK
    <3>3. windows /\ Overwrite[w]
      BY <3>1 DEF IInv, OldInv
    <3> QED  BY <2>2, <3>2, <3>3 DEF RemoveOld, Atomic!Vanish
  <2>3. ASSUME NEW w \in Writers,
               \/ Construct(w) \/ WritePart(w) \/ FlushAndClose(w) \/ Recheck(w) \/ Fail(w)
        PROVE  UNCHANGED <<disk, Done, windows>>
    <3>1. /\ UNCHANGED <<disk, windows>>
          /\ UNCHANGED pc \/ \E place \in {"open", "refused", "failed", "closed", "remove", "rename"} :
                                pc[w] # "done" /\ pc' = [pc EXCEPT ![w] = place]
      BY <2>3 DEF Construct, WritePart, FlushAndClose, Recheck, Fail, Unwind, Goto
    <3>2. Done' = Done
      BY <3>1 DEF IInv, TypeOK
    <3> QED  BY <3>1, <3>2
  <2>4. ASSUME NEW p \in Processes, Die(p)
        PROVE  UNCHANGED <<disk, Done, windows>>
    <3>1. Done' = Done
      BY <2>4 DEF Die, Ended, IInv, TypeOK
    <3> QED  BY <2>4, <3>1 DEF Die
  <2>5. CASE UNCHANGED vars
    BY <2>5 DEF vars
  <2> HIDE DEF Done
  <2> QED  BY <2>1, <2>2, <2>3, <2>4, <2>5 DEF Next, Atomic!Next
<1> QED  BY <1>1, <1>2, Inductive, PTL DEF Spec, Done, ImplementsAtomicFile, Atomic!Spec
=============================================================================
